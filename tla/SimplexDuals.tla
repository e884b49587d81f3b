----------------------------- MODULE SimplexDuals -----------------------------
(***************************************************************************)
(* The iterations of the dual simplex keep the problem dual feasible, and  *)
(* the objective value goes one way only: up while the dual iterations run *)
(* and down in the cleanup.  A pivot changes basis and factors; that the   *)
(* new dual values are the old ones plus a multiple of the tableau row     *)
(* follows from their being the only ones that price the new basis.        *)
(***************************************************************************)
EXTENDS SimplexProofs

-----------------------------------------------------------------------------
(* Combinations of columns and of rows.                                    *)

\* The columns k combine with coefficients f to what is on the right.
Makes(k, f, rhs) ==
    /\ f \in [Rows -> Int] /\ rhs \in [Rows -> Int]
    /\ \A r \in Rows : Sum([i \in Rows |-> Column(k[i])[r] * f[i]], Rows) = rhs[r]

\* The multipliers w see in a combination f of columns what they see in what it makes.
LEMMA SeenBothWays ==
    ASSUME IsProgram(lp), NEW k, \A i \in Rows : k[i] \in Vars, NEW f, NEW w \in [Rows -> Int], NEW rhs, Makes(k, f, rhs),
           NEW m \in [Rows -> Int], \A i \in Rows : Dot(Column(k[i]), w) = m[i]
    PROVE  Sum([i \in Rows |-> m[i] * f[i]], Rows) = Sum([r \in Rows |-> rhs[r] * w[r]], Rows)
<1> DEFINE g == [r \in Rows |-> [i \in Rows |-> w[r] * (Column(k[i])[r] * f[i])]]
           a == [i \in Rows |-> m[i] * f[i]]
           b == [r \in Rows |-> rhs[r] * w[r]]
<1>1. IsFiniteSet(Rows) /\ f \in [Rows -> Int] /\ rhs \in [Rows -> Int]
  BY Shape DEF Makes
<1>2. \A r \in Rows, i \in Rows : w[r] \in Int /\ f[i] \in Int /\ Column(k[i])[r] \in Int
  BY <1>1, Entries
<1>3. \A r \in Rows, i \in Rows : g[r][i] \in Int
  <2> SUFFICES ASSUME NEW r \in Rows, NEW i \in Rows
               PROVE  w[r] * (Column(k[i])[r] * f[i]) \in Int
    OBVIOUS
  <2>1. Column(k[i])[r] * f[i] \in Int
    BY <1>2
  <2> QED BY <1>2, <2>1
<1>4. ASSUME NEW i \in Rows
      PROVE  ByCols(g, Rows, Rows, Rows)[i] = a[i]
  <2> DEFINE h == [r \in Rows |-> Column(k[i])[r] * w[r]]
             s == Slice(g, Rows, i)
  <2>1. IntegerOn(h, Rows) /\ Dot(Column(k[i]), w) = Sum(h, Rows)
    BY DotIsSum
  <2>2. IntegerOn(s, Rows)
    BY <1>3 DEF IntegerOn, Slice
  <2>3. \A r \in Rows : 1 * s[r] = f[i] * h[r]
    <3> SUFFICES ASSUME NEW r \in Rows
                 PROVE  1 * (w[r] * (Column(k[i])[r] * f[i])) = f[i] * (Column(k[i])[r] * w[r])
      BY DEF Slice
    <3>1. w[r] \in Int /\ f[i] \in Int /\ Column(k[i])[r] \in Int
      BY <1>2
    <3> QED BY <3>1, Regrouped
  <2>4. f[i] \in Int /\ m[i] \in Int
    BY <1>1
  <2> DEFINE e == f[i]
  <2>8. e \in Int /\ 1 \in Int /\ \A r \in Rows : 1 * s[r] = e * h[r]
    BY <2>3, <2>4
  <2> HIDE DEF h, s, e
  <2>9. 1 * Sum(s, Rows) = e * Sum(h, Rows)
    BY ONLY <1>1, <2>1, <2>2, <2>8, SumScaled
  <2>5. 1 * Sum(s, Rows) = f[i] * Sum(h, Rows)
    BY <2>9 DEF e
  <2>6. Sum(s, Rows) \in Int /\ Sum(h, Rows) = m[i]
    BY <1>1, <2>1, <2>2, SumInteger
  <2>7. Sum(s, Rows) = m[i] * f[i]
    BY <2>4, <2>5, <2>6
  <2> QED BY <2>7 DEF ByCols, s
<1>5. ASSUME NEW r \in Rows
      PROVE  ByRows(g, Rows, Rows)[r] = b[r]
  <2> DEFINE h == [i \in Rows |-> Column(k[i])[r] * f[i]]
             l == Line(g, Rows, r)
  <2>1. IntegerOn(h, Rows)
    <3> SUFFICES ASSUME NEW i \in Rows
                 PROVE  Column(k[i])[r] * f[i] \in Int
      BY DEF IntegerOn
    <3> QED BY <1>2
  <2>2. IntegerOn(l, Rows)
    BY <1>3 DEF IntegerOn, Line
  <2>3. \A i \in Rows : 1 * l[i] = w[r] * h[i]
    <3> SUFFICES ASSUME NEW i \in Rows
                 PROVE  1 * l[i] = w[r] * h[i]
      OBVIOUS
    <3>1. l[i] = w[r] * h[i]
      BY DEF Line
    <3>2. l[i] \in Int
      BY <2>2 DEF IntegerOn
    <3> HIDE DEF l, h
    <3> QED BY <3>1, <3>2
  <2>4. Sum(h, Rows) = rhs[r]
    BY DEF Makes
  <2>5. w[r] \in Int /\ rhs[r] \in Int
    BY <1>1
  <2> DEFINE e == w[r]
  <2>9. e \in Int /\ 1 \in Int /\ \A i \in Rows : 1 * l[i] = e * h[i]
    BY <2>3, <2>5
  <2> HIDE DEF h, l, e
  <2>10. 1 * Sum(l, Rows) = e * Sum(h, Rows)
    BY ONLY <1>1, <2>1, <2>2, <2>9, SumScaled
  <2>6. 1 * Sum(l, Rows) = w[r] * Sum(h, Rows)
    BY <2>10 DEF e
  <2>7. Sum(l, Rows) \in Int
    BY <1>1, <2>2, SumInteger
  <2>8. Sum(l, Rows) = rhs[r] * w[r]
    BY <2>4, <2>5, <2>6, <2>7
  <2> QED BY <2>8 DEF ByRows, l
<1> HIDE DEF g, a, b
<1>6. Sum(ByCols(g, Rows, Rows, Rows), Rows) = Sum(ByRows(g, Rows, Rows), Rows)
  BY <1>1, <1>3, SumExchange
<1>7. Sum(ByCols(g, Rows, Rows, Rows), Rows) = Sum(a, Rows)
  BY <1>1, <1>4, SumAgrees
<1>8. Sum(ByRows(g, Rows, Rows), Rows) = Sum(b, Rows)
  BY <1>1, <1>5, SumAgrees
<1> QED BY <1>6, <1>7, <1>8 DEF a, b

\* A sum against a unit vector is one term.
LEMMA UnitSum ==
    ASSUME IsProgram(lp), NEW p \in Rows, NEW u \in Int, NEW w \in [Rows -> Int]
    PROVE  Sum([i \in Rows |-> Unit(p, u)[i] * w[i]], Rows) = u * w[p]
<1> DEFINE f == [i \in Rows |-> Unit(p, u)[i] * w[i]]
<1>1. IsFiniteSet(Rows) /\ {p} \subseteq Rows /\ IsFiniteSet({p})
  BY Shape, FS_Singleton
<1>2. \A i \in Rows : f[i] = IF i = p THEN u * w[p] ELSE 0
  <2> SUFFICES ASSUME NEW i \in Rows
               PROVE  Unit(p, u)[i] * w[i] = IF i = p THEN u * w[p] ELSE 0
    OBVIOUS
  <2>1. w[i] \in Int /\ Unit(p, u)[i] = IF i = p THEN u ELSE 0
    BY DEF Unit
  <2> QED BY <2>1
<1>3. u * w[p] \in Int
  OBVIOUS
<1>4. IntegerOn(f, Rows) /\ IntegerOn(f, {p}) /\ f[p] = u * w[p]
  BY <1>2, <1>3 DEF IntegerOn
<1>5. \A i \in Rows \ {p} : f[i] = 0
  BY <1>2
<1> HIDE DEF f
<1>6. Sum(f, Rows) = Sum(f, {p})
  BY <1>1, <1>4, <1>5, SumWithoutZeros
<1>7. Sum(f, {p}) = f[p] + Sum(f, {p} \ {p})
  BY <1>1, <1>4, SumTakes
<1>8. {p} \ {p} = {}
  OBVIOUS
<1>10. Sum(f, {p} \ {p}) = 0
  BY <1>8, SumEmpty
<1>9. Sum(f, {p}) = f[p]
  <2>1. f[p] \in Int
    BY <1>3, <1>4
  <2> QED BY ONLY <1>7, <1>10, <2>1
<1> QED BY <1>4, <1>6, <1>9 DEF f

\* Where every unit vector is a combination of columns, multipliers that see none of them
\* are 0.
LEMMA OnlyZero ==
    ASSUME IsProgram(lp), NEW k, \A i \in Rows : k[i] \in Vars, NEW F,
           \A p \in Rows : Makes(k, F[p], Unit(p, One)),
           NEW w \in [Rows -> Int], \A i \in Rows : Dot(Column(k[i]), w) = 0
    PROVE  \A p \in Rows : w[p] = 0
<1> SUFFICES ASSUME NEW p \in Rows
             PROVE  w[p] = 0
  OBVIOUS
<1> DEFINE m == [i \in Rows |-> 0]
           f == F[p]
           a == [i \in Rows |-> m[i] * f[i]]
<1>1. One \in Int /\ One > 0 /\ w[p] \in Int
  BY OneAssumption
<1>2. Unit(p, One) \in [Rows -> Int] /\ m \in [Rows -> Int] /\ f \in [Rows -> Int]
  BY <1>1 DEF Unit, Makes
<1>3. Sum(a, Rows) = Sum([r \in Rows |-> Unit(p, One)[r] * w[r]], Rows)
  <2>1. \A i \in Rows : Dot(Column(k[i]), w) = m[i]
    OBVIOUS
  <2>2. Makes(k, f, Unit(p, One))
    OBVIOUS
  <2> DEFINE rhs == Unit(p, One)
  <2>3. Makes(k, f, rhs)
    BY <2>2
  <2>5. IsProgram(lp) /\ (\A i \in Rows : k[i] \in Vars) /\ w \in [Rows -> Int] /\ m \in [Rows -> Int]
    BY <1>2
  <2> HIDE DEF m, f, rhs
  <2>4. Sum([i \in Rows |-> m[i] * f[i]], Rows) = Sum([r \in Rows |-> rhs[r] * w[r]], Rows)
    BY ONLY <2>1, <2>3, <2>5, SeenBothWays
  <2> QED BY <2>4 DEF rhs
<1>4. \A i \in Rows : a[i] = 0
  <2> SUFFICES ASSUME NEW i \in Rows
               PROVE  a[i] = 0
    OBVIOUS
  <2>1. f[i] \in Int /\ m[i] = 0
    BY <1>2
  <2> QED BY <2>1
<1>5. Sum(a, Rows) = 0
  <2>1. IntegerOn(a, Rows) /\ \A i \in Rows \ {} : a[i] = 0
    BY <1>4 DEF IntegerOn
  <2>2. IsFiniteSet(Rows) /\ {} \subseteq Rows
    BY Shape
  <2> HIDE DEF a
  <2>3. Sum(a, Rows) = Sum(a, {})
    BY <2>1, <2>2, SumWithoutZeros
  <2> QED BY <2>3, SumEmpty
<1> HIDE DEF a
<1>6. One * w[p] = 0
  BY <1>1, <1>3, <1>5, UnitSum
<1> QED BY <1>1, <1>6

LEMMA DotCombines ==
    ASSUME IsProgram(lp), NEW v \in Vars, NEW z \in [Rows -> Int], NEW t \in [Rows -> Int],
           NEW a \in Int, NEW b \in Int,
           NEW w \in [Rows -> Int], Combines(w, z, t, 1, a, b, Rows)
    PROVE  Dot(Column(v), w) = (a * Dot(Column(v), z)) + (b * Dot(Column(v), t))
<1> DEFINE f == [r \in Rows |-> Column(v)[r] * w[r]]
           g == [r \in Rows |-> Column(v)[r] * z[r]]
           h == [r \in Rows |-> Column(v)[r] * t[r]]
<1>1. /\ IntegerOn(f, Rows) /\ IntegerOn(g, Rows) /\ IntegerOn(h, Rows)
      /\ Dot(Column(v), w) = Sum(f, Rows) /\ Dot(Column(v), z) = Sum(g, Rows)
      /\ Dot(Column(v), t) = Sum(h, Rows)
  BY DotIsSum
<1>2. IsFiniteSet(Rows)
  BY Shape
<1>3. \A r \in Rows : 1 * f[r] = (a * g[r]) + (b * h[r])
  <2> SUFFICES ASSUME NEW r \in Rows
               PROVE  1 * (Column(v)[r] * w[r]) = (a * (Column(v)[r] * z[r])) + (b * (Column(v)[r] * t[r]))
    OBVIOUS
  <2> DEFINE e == Column(v)[r]
             i == z[r]
             j == t[r]
  <2>1. e \in Int /\ i \in Int /\ j \in Int /\ w[r] \in Int /\ 1 * w[r] = (a * i) + (b * j)
    BY Entries DEF Combines
  <2> HIDE DEF e, i, j
  <2>2. e * ((a * i) + (b * j)) = (a * (e * i)) + (b * (e * j)) /\ e * ((a * i) + (b * j)) \in Int
    BY <2>1
  <2> QED BY <2>1, <2>2 DEF e, i, j
<1> HIDE DEF f, g, h
<1>4. 1 * Sum(f, Rows) = (a * Sum(g, Rows)) + (b * Sum(h, Rows))
  BY <1>1, <1>2, <1>3, SumCombines DEF Combines
<1>5. Sum(f, Rows) \in Int
  BY <1>1, <1>2, SumInteger
<1> QED BY <1>1, <1>4, <1>5

\* Multiplied out.
LEMMA TakenAway ==
    ASSUME NEW a \in Int, NEW e \in Int, NEW g \in Int, NEW t \in Int, NEW z \in Int, NEW s \in Int,
           0 = (a * ((1 * t) + ((-1) * z))) + ((-e) * s)
    PROVE  a * (g - t) = (a * (g - z)) - (e * s)
<1>1. (a * ((1 * t) + ((-1) * z))) = (a * t) - (a * z) /\ (-e) * s = -(e * s)
  OBVIOUS
<1>2. a * (g - t) = (a * g) - (a * t) /\ a * (g - z) = (a * g) - (a * z)
  OBVIOUS
<1> DEFINE u == a * t
           v == a * z
           w == e * s
           m == a * g
<1>3. u \in Int /\ v \in Int /\ w \in Int /\ m \in Int
  OBVIOUS
<1> HIDE DEF u, v, w, m
<1>4. m - u = (m - v) - w
  <2>1. 0 = (u - v) + (-w)
    BY <1>1 DEF u, v, w
  <2> QED BY <1>3, <2>1
<1> QED BY <1>2, <1>4 DEF u, v, w, m

\* q takes the place p of the columns k, which makes them l; z and t price them at the
\* costs w; pi sees nobody in k but at p; F makes every unit vector of the columns l.
Exchange(p, q, w, k, z, l, t, pi, F) ==
    /\ p \in Rows /\ q \in Vars /\ w \in [Vars -> Int]
    /\ z \in [Rows -> Int] /\ t \in [Rows -> Int] /\ pi \in [Rows -> Int]
    /\ \A i \in Rows : k[i] \in Vars /\ Dot(Column(k[i]), z) = w[k[i]]
    /\ \A i \in Rows : l[i] = IF i = p THEN q ELSE k[i]
    /\ \A i \in Rows : Dot(Column(l[i]), t) = w[l[i]]
    /\ \A i \in Rows \ {p} : Dot(Column(k[i]), pi) = 0
    /\ \A r \in Rows : Makes(l, F[r], Unit(r, One))

\* When q takes the place p of the basis k, the dual values move along the multipliers pi
\* that see nobody else in k: they are the only ones that price the new basis.
LEMMA DualsExchange ==
    ASSUME IsProgram(lp), NEW p, NEW q, NEW w, NEW k, NEW z, NEW l, NEW t, NEW pi, NEW F,
           Exchange(p, q, w, k, z, l, t, pi, F), NEW v \in Vars
    PROVE  Dot(Column(q), pi) * (w[v] - Dot(Column(v), t))
             = (Dot(Column(q), pi) * (w[v] - Dot(Column(v), z)))
                 - ((w[q] - Dot(Column(q), z)) * Dot(Column(v), pi))
<1> SUFFICES ASSUME p \in Rows, q \in Vars, w \in [Vars -> Int],
                    z \in [Rows -> Int], t \in [Rows -> Int], pi \in [Rows -> Int],
                    \A i \in Rows : k[i] \in Vars,
                    \A i \in Rows : Dot(Column(k[i]), z) = w[k[i]],
                    \A i \in Rows : l[i] = IF i = p THEN q ELSE k[i],
                    \A i \in Rows : Dot(Column(l[i]), t) = w[l[i]],
                    \A i \in Rows \ {p} : Dot(Column(k[i]), pi) = 0,
                    \A r \in Rows : Makes(l, F[r], Unit(r, One))
             PROVE  Dot(Column(q), pi) * (w[v] - Dot(Column(v), t))
                      = (Dot(Column(q), pi) * (w[v] - Dot(Column(v), z)))
                          - ((w[q] - Dot(Column(q), z)) * Dot(Column(v), pi))
  BY DEF Exchange
<1> DEFINE a == Dot(Column(q), pi)
           e == w[q] - Dot(Column(q), z)
           b == -e
           m == [r \in Rows |-> (1 * t[r]) + ((-1) * z[r])]
           g == [r \in Rows |-> (a * m[r]) + (b * pi[r])]
<1>1. \A j \in Vars : Dot(Column(j), t) \in Int /\ Dot(Column(j), z) \in Int /\ Dot(Column(j), pi) \in Int /\ w[j] \in Int
  BY DotIsSum
<1>2. a \in Int /\ e \in Int /\ b \in Int
  BY <1>1
<1> HIDE DEF a, b
<1>14. \A r \in Rows : (1 * t[r]) + ((-1) * z[r]) \in Int
  BY ONLY t \in [Rows -> Int], z \in [Rows -> Int]
<1>3. m \in [Rows -> Int] /\ \A r \in Rows : m[r] = (1 * t[r]) + ((-1) * z[r])
  BY <1>14
<1> HIDE DEF m
<1>13. ASSUME NEW r \in Rows
       PROVE  (a * m[r]) + (b * pi[r]) \in Int
  <2>1. m[r] \in Int /\ pi[r] \in Int
    BY <1>3
  <2> QED BY <1>2, <2>1
<1>4. g \in [Rows -> Int] /\ \A r \in Rows : g[r] = (a * m[r]) + (b * pi[r])
  BY <1>13
<1>12. IsProgram(lp) /\ t \in [Rows -> Int] /\ z \in [Rows -> Int] /\ pi \in [Rows -> Int]
  OBVIOUS
<1> HIDE DEF g
<1>5. ASSUME NEW j \in Vars
      PROVE  Dot(Column(j), g) = (a * ((1 * Dot(Column(j), t)) + ((-1) * Dot(Column(j), z)))) + (b * Dot(Column(j), pi))
  <2>1. Dot(Column(j), m) = (1 * Dot(Column(j), t)) + ((-1) * Dot(Column(j), z))
    <3>1. Combines(m, t, z, 1, 1, -1, Rows)
      BY <1>3 DEF Combines
    <3> QED BY <1>3, <1>5, <1>12, <3>1, DotCombines
  <2>2. Dot(Column(j), g) = (a * Dot(Column(j), m)) + (b * Dot(Column(j), pi))
    <3>1. Combines(g, m, pi, 1, a, b, Rows)
      BY <1>4 DEF Combines
    <3> QED BY <1>2, <1>3, <1>4, <1>5, <1>12, <3>1, DotCombines
  <2> QED BY <2>1, <2>2
<1>6. ASSUME NEW i \in Rows
      PROVE  Dot(Column(l[i]), g) = 0
  <2>1. l[i] \in Vars /\ Dot(Column(l[i]), t) = w[l[i]]
    BY <1>6
  <2>2. Dot(Column(l[i]), g) = (a * ((1 * w[l[i]]) + ((-1) * Dot(Column(l[i]), z)))) + (b * Dot(Column(l[i]), pi))
    BY <1>5, <2>1
  <2>3. CASE i = p
    <3>1. l[i] = q
      BY <2>3
    <3> DEFINE u == w[q]
               s == Dot(Column(q), z)
    <3>2. u \in Int /\ s \in Int /\ b = -(u - s)
      BY <1>1 DEF b
    <3>3. Dot(Column(l[i]), g) = (a * ((1 * u) + ((-1) * s))) + (b * a)
      BY <2>2, <3>1 DEF a
    <3> HIDE DEF u, s
    <3>4. (1 * u) + ((-1) * s) = -b
      BY <1>2, <3>2
    <3>5. (a * (-b)) + (b * a) = 0
      BY <1>2
    <3> QED BY <3>3, <3>4, <3>5
  <2>4. CASE i # p
    <3>1. l[i] = k[i] /\ Dot(Column(k[i]), z) = w[k[i]] /\ Dot(Column(k[i]), pi) = 0 /\ k[i] \in Vars
      BY <2>4
    <3> DEFINE u == w[k[i]]
    <3>2. Dot(Column(l[i]), g) = (a * ((1 * u) + ((-1) * u))) + (b * 0) /\ u \in Int
      BY <1>1, <2>2, <3>1
    <3> HIDE DEF u
    <3>3. (1 * u) + ((-1) * u) = 0
      BY <3>2
    <3>4. (a * 0) + (b * 0) = 0
      BY <1>2
    <3> QED BY <3>2, <3>3, <3>4
  <2> QED BY <2>3, <2>4
<1>15. \A i \in Rows : l[i] \in Vars
  OBVIOUS
<1>7. \A r \in Rows : g[r] = 0
  BY <1>4, <1>6, <1>15, OnlyZero
<1>8. Dot(Column(v), g) = 0
  <2>1. Combines(g, t, z, 1, 0, 0, Rows)
    <3>1. \A r \in Rows : t[r] \in Int /\ z[r] \in Int
      OBVIOUS
    <3> QED BY <1>7, <3>1 DEF Combines
  <2>2. Dot(Column(v), g) = (0 * Dot(Column(v), t)) + (0 * Dot(Column(v), z))
    BY <1>4, <1>12, <2>1, DotCombines
  <2> QED BY <1>1, <2>2
<1> DEFINE T == Dot(Column(v), t)
           Z == Dot(Column(v), z)
           P == Dot(Column(v), pi)
           c0 == w[v]
<1>9. T \in Int /\ Z \in Int /\ P \in Int /\ c0 \in Int
  BY <1>1
<1>10. 0 = (a * ((1 * T) + ((-1) * Z))) + ((-e) * P)
  BY <1>5, <1>8 DEF b
<1> HIDE DEF T, Z, P, c0, e
<1>11. a * (c0 - T) = (a * (c0 - Z)) - (e * P)
  BY ONLY <1>2, <1>9, <1>10, TakenAway
<1> QED BY ONLY <1>11 DEF T, Z, P, c0, a, e

-----------------------------------------------------------------------------
(* What the solves say of the state the solver is in.                      *)

\* Costs on columns only.
ColumnCosts(w) == \A v \in Vars : ~IsCol(v) => w[v] = 0

\* X is the basic solution of b, z prices b at the costs w, h are the reduced costs, and
\* obj is the value of X.
Describes(X, b, w, z, h, obj) ==
    /\ Kernel(X) /\ \A v \in b.nonbasic : X[v] = RestingValue(b, v)
    /\ \A i \in Rows : b.basic[i] \in Vars
    /\ w \in [Vars -> Int] /\ z \in [Rows -> Int] /\ \A i \in Rows : Dot(Column(b.basic[i]), z) = w[b.basic[i]]
    /\ \E F : \A r \in Rows : Makes(b.basic, F[r], Unit(r, One))
    /\ ColumnCosts(w) =>
         /\ h \in [Vars -> Int] /\ \A v \in Vars : h[v] = w[v] - Dot(Column(v), z)
         /\ \A v \in Vars : b.status[v] = "Basic" => h[v] = 0
         /\ obj = Sum(Weighted(h, X), Vars)
Standing == Describes(Current, basis, c, y, d, BasicObjective)

LEMMA StandingThen ==
    ASSUME UNCHANGED args, Standing'
    PROVE  Describes(Current', basis', c', y', d', BasicObjective')
<1>1. lp' = lp
  BY DEF args
<1>2. Kernel(Current')
  <2>1. Kernel(Current)'
    BY DEF Standing, Describes
  <2> QED BY <1>1, <2>1 DEF Kernel, RowTerms, Column, Rows, Vars, IsCol
<1>3. \A v \in basis'.nonbasic : Current'[v] = RestingValue(basis', v)
  <2>1. (\A v \in basis.nonbasic : Current[v] = RestingValue(basis, v))'
    BY DEF Standing, Describes
  <2> QED BY <1>1, <2>1 DEF RestingValue, Low, Up, IsCol
<1>4. (\A i \in Rows : basis'.basic[i] \in Vars) /\ c' \in [Vars -> Int] /\ y' \in [Rows -> Int]
  <2>1. ((\A i \in Rows : basis.basic[i] \in Vars) /\ c \in [Vars -> Int] /\ y \in [Rows -> Int])'
    BY DEF Standing, Describes
  <2> QED BY <1>1, <2>1 DEF Rows, Vars
<1>5. \A i \in Rows : Dot(Column(basis'.basic[i]), y') = c'[basis'.basic[i]]
  <2>1. (\A i \in Rows : Dot(Column(basis.basic[i]), y) = c[basis.basic[i]])'
    BY DEF Standing, Describes
  <2> QED BY <1>1, <2>1 DEF Dot, Total, Column, Rows, IsCol
<1>6. \E F : \A r \in Rows : Makes(basis'.basic, F[r], Unit(r, One))
  <2>1. (\E F : \A r \in Rows : Makes(basis.basic, F[r], Unit(r, One)))'
    BY DEF Standing, Describes
  <2>2. PICK F : (\A r \in Rows : Makes(basis.basic, F[r], Unit(r, One)))'
    BY <2>1
  <2>3. ASSUME NEW r \in Rows
        PROVE  Makes(basis'.basic, F[r], Unit(r, One))
    <3>1. Makes(basis.basic, F[r], Unit(r, One))'
      BY <1>1, <2>2 DEF Rows
    <3> QED BY <1>1, <3>1 DEF Makes, Unit, Column, Rows, IsCol
  <2> QED BY <2>3
<1>7. ASSUME ColumnCosts(c')
      PROVE  /\ d' \in [Vars -> Int] /\ \A v \in Vars : d'[v] = c'[v] - Dot(Column(v), y')
             /\ \A v \in Vars : basis'.status[v] = "Basic" => d'[v] = 0
             /\ BasicObjective' = Sum(Weighted(d', Current'), Vars)
  <2>1. ColumnCosts(c)'
    BY <1>1, <1>7 DEF ColumnCosts, Vars, IsCol
  <2>2. /\ (d \in [Vars -> Int])' /\ (\A v \in Vars : d[v] = c[v] - Dot(Column(v), y))'
        /\ (\A v \in Vars : basis.status[v] = "Basic" => d[v] = 0)'
        /\ (BasicObjective = Sum(Weighted(d, Current), Vars))'
    BY <2>1 DEF Standing, Describes
  <2>3. d' \in [Vars -> Int] /\ \A v \in Vars : basis'.status[v] = "Basic" => d'[v] = 0
    BY <1>1, <2>2 DEF Vars
  <2>4. \A v \in Vars : d'[v] = c'[v] - Dot(Column(v), y')
    BY <1>1, <2>2 DEF Dot, Total, Column, Rows, Vars, IsCol
  <2>5. BasicObjective' = Sum(Weighted(d', Current'), Vars)
    BY <1>1, <2>2 DEF Weighted, Vars
  <2> QED BY <2>3, <2>4, <2>5
<1> QED BY <1>2, <1>3, <1>4, <1>5, <1>6, <1>7 DEF Describes

\* At work the solver's point, dual values and reduced costs are what the solves say.
LEMMA StandsAtWork ==
    ASSUME Strong, SolvesRight, Working
    PROVE  Standing
<1>1. /\ IsProgram(lp) /\ Partition(basis) /\ AtTheirBounds
      /\ y = DualValues(basis, fact, c) /\ d = ReducedCosts(basis, c, y)
      /\ shift \in [Vars -> Int]
      /\ c = IF pc \in {"dual", "restore"} THEN [v \in Vars |-> Costs[v] + shift[v]] ELSE Costs
  BY AtWork
<1>2. /\ PointSolves /\ Prices(y, [i \in Rows |-> c[basis.basic[i]]])
      /\ \A r \in Rows : Answers(Ftran(fact, Unit(r, One)), Unit(r, One))
  BY <1>1 DEF SolvesRight
<1>3. Kernel(Current) /\ \A v \in basis.nonbasic : v \in Vars /\ Current[v] = x[v] /\ Current[v] = RestingValue(basis, v)
  BY <1>1, <1>2, CurrentPoint DEF AtTheirBounds
<1>4. \A i \in Rows : basis.basic[i] \in Vars
  BY <1>1 DEF Partition, IsValid
<1>5. c \in [Vars -> Int]
  BY <1>1, CostsWhole
<1>6. y \in [Rows -> Int] /\ \A i \in Rows : Dot(Column(basis.basic[i]), y) = c[basis.basic[i]]
  BY <1>2 DEF Prices
<1>7. \E F : \A r \in Rows : Makes(basis.basic, F[r], Unit(r, One))
  <2> DEFINE F == [r \in Rows |-> Ftran(fact, Unit(r, One))]
  <2>1. ASSUME NEW r \in Rows
        PROVE  Makes(basis.basic, F[r], Unit(r, One))
    <3> DEFINE f == Ftran(fact, Unit(r, One))
               u == Unit(r, One)
    <3>1. Answers(f, u) /\ F[r] = f
      BY <1>2
    <3>2. u \in [Rows -> Int]
      BY OneAssumption DEF Unit
    <3> HIDE DEF f, u, F
    <3>3. f \in [Rows -> Int] /\ \A n \in Rows : Sum([i \in Rows |-> Column(basis.basic[i])[n] * f[i]], Rows) = u[n]
      BY <3>1 DEF Answers, Total, SumFunction, Sum
    <3>4. Makes(basis.basic, f, u)
      BY <3>2, <3>3 DEF Makes
    <3> QED BY <3>1, <3>4 DEF u
  <2> HIDE DEF F
  <2> QED BY <2>1
<1>8. ASSUME ColumnCosts(c)
      PROVE  /\ d \in [Vars -> Int] /\ \A v \in Vars : d[v] = c[v] - Dot(Column(v), y)
             /\ \A v \in Vars : basis.status[v] = "Basic" => d[v] = 0
             /\ BasicObjective = Sum(Weighted(d, Current), Vars)
  <2>1. \A v \in Vars : d[v] = c[v] - Dot(Column(v), y) /\ d[v] \in Int
    <3>1. \A v \in Vars : ~IsCol(v) => c[v] = 0
      BY <1>8 DEF ColumnCosts
    <3> QED BY <1>1, <1>5, <1>6, <3>1, ReducedArePriced
  <2>2. d = [v \in Vars |-> d[v]] /\ \A v \in Vars : basis.status[v] = "Basic" => d[v] = 0
    BY <1>1 DEF ReducedCosts
  <2>3. d \in [Vars -> Int]
    BY <2>1, <2>2
  <2> DEFINE N == basis.nonbasic
             X == Current
             f == Weighted(d, X)
             g == [v \in N |-> d[v] * x[v]]
  <2>4. N \subseteq Vars /\ \A v \in Vars \ N : basis.status[v] = "Basic"
    BY <1>1 DEF Partition
  <2>5. IsFiniteSet(Vars) /\ IsFiniteSet(N)
    BY <1>1, <2>4, Shape, FS_Subset
  <2>6. IntegerOn(f, Vars) /\ \A v \in Vars : f[v] = d[v] * X[v]
    BY <1>3, <2>3, WeightedIsInteger DEF Kernel
  <2>7. \A v \in Vars \ N : f[v] = 0
    <3> SUFFICES ASSUME NEW v \in Vars \ N
                 PROVE  f[v] = 0
      OBVIOUS
    <3>1. d[v] = 0 /\ X[v] \in Int /\ f[v] = d[v] * X[v]
      BY <1>3, <2>2, <2>4, <2>6 DEF Kernel
    <3> QED BY <3>1
  <2>8. \A v \in N : g[v] = f[v]
    BY <1>3, <2>4, <2>6
  <2>9. BasicObjective = Sum(g, N)
    BY DEF BasicObjective, Total, SumFunction, Sum
  <2> HIDE DEF N, X, f, g
  <2>10. Sum(f, Vars) = Sum(f, N)
    BY <2>4, <2>5, <2>6, <2>7, SumWithoutZeros
  <2>11. Sum(g, N) = Sum(f, N)
    BY <2>5, <2>8, SumAgrees
  <2> QED BY <2>1, <2>2, <2>3, <2>9, <2>10, <2>11 DEF f, X
<1> QED BY <1>3, <1>4, <1>5, <1>6, <1>7, <1>8 DEF Standing, Describes

-----------------------------------------------------------------------------
(* The candidates of a pivot, in order, and how many of them are flipped.  *)

LEMMA Enumerates ==
    ASSUME NEW C, IsFiniteSet(C), NEW s \in SetToSeqs(C)
    PROVE  /\ Len(s) \in Nat /\ s \in [1..Len(s) -> C] /\ s \in Seq(C)
           /\ \A n \in 1..Len(s), l \in 1..Len(s) : s[n] = s[l] => n = l
           /\ \A v \in C : \E n \in 1..Len(s) : s[n] = v
<1> DEFINE N == Cardinality(C)
<1>1. N \in Nat
  BY FS_CardinalityType
<1>2. s \in [1..N -> C] /\ \A n, l \in 1..N : n # l => s[n] # s[l]
  BY DEF SetToSeqs
<1> HIDE DEF N
<1>3. Len(s) = N /\ s \in Seq(C)
  BY <1>1, <1>2, IsASeq, LenProperties
<1>4. s \in Injection(1..N, C)
  BY <1>2 DEF Injection, IsInjective
<1>5. Cardinality(1..N) = N
  <2>1. 0 \in Int /\ 1 \in Int /\ N \in Int
    BY <1>1
  <2> QED BY <1>1, <2>1, FS_Interval
<1>6. s \in Surjection(1..N, C)
  BY <1>4, <1>5, FS_Injection DEF N
<1>7. \A v \in C : \E n \in 1..N : s[n] = v
  BY <1>6 DEF Surjection
<1> QED BY <1>1, <1>2, <1>3, <1>7

Candidates(alpha) == {v \in basis.nonbasic : Helps(v, alpha[v])}

LEMMA FlipsFit ==
    ASSUME IsProgram(lp), Partition(basis), NEW alpha, NEW s \in ByRatio(alpha), s # <<>>, NEW violation
    PROVE  /\ Len(s) \in Nat /\ Len(s) # 0 /\ s \in [1..Len(s) -> Candidates(alpha)]
           /\ \A n \in 1..Len(s), l \in 1..Len(s) : s[n] = s[l] => n = l
           /\ \A v \in Candidates(alpha) : \E n \in 1..Len(s) : s[n] = v
           /\ \A n \in 1..Len(s), l \in 1..Len(s) :
                n < l => Slope(s[n]) * Magnitude(alpha[s[l]]) <= Slope(s[l]) * Magnitude(alpha[s[n]])
           /\ Flips(s, alpha, violation) \in 0..Len(s)
           /\ \A n \in 1..Flips(s, alpha, violation) : Flippable(s[n])
           /\ Flips(s, alpha, violation) # 0 =>
                Sum([n \in 1..Flips(s, alpha, violation) |-> Relief(s[n], alpha)], 1..Flips(s, alpha, violation))
                  < One * violation
<1> DEFINE C == Candidates(alpha)
           k == Flips(s, alpha, violation)
           F == {i \in 0..Len(s) : \A l \in 1..i : Flippable(s[l]) /\
                    Total(LAMBDA n : Relief(s[n], alpha), 1..l) < One * violation}
           O == {i \in 0..Len(s) : \A l \in 1..i : Flippable(s[l]) /\
                    Sum([n \in 1..l |-> Relief(s[n], alpha)], 1..l) < One * violation}
<1>1. s \in SetToSeqs(C)
  BY DEF ByRatio, Candidates
<1>2. IsFiniteSet(C)
  <2>1. C \subseteq Vars
    BY DEF Partition, Candidates
  <2> HIDE DEF C
  <2> QED BY <2>1, Shape, FS_Subset
<1> HIDE DEF C
<1>3. /\ Len(s) \in Nat /\ s \in [1..Len(s) -> C] /\ s \in Seq(C)
      /\ \A n \in 1..Len(s), l \in 1..Len(s) : s[n] = s[l] => n = l
      /\ \A v \in C : \E n \in 1..Len(s) : s[n] = v
  BY <1>1, <1>2, Enumerates
<1>4. Len(s) # 0
  BY <1>3, EmptySeq
<1>5. \A n \in 1..Len(s), l \in 1..Len(s) :
        n < l => Slope(s[n]) * Magnitude(alpha[s[l]]) <= Slope(s[l]) * Magnitude(alpha[s[n]])
  <2>1. DOMAIN s = 1..Len(s)
    BY <1>3
  <2> QED BY <2>1 DEF ByRatio
<1>6. k \in 0..Len(s) /\ \A n \in 1..k : Flippable(s[n]) /\ Sum([m \in 1..n |-> Relief(s[m], alpha)], 1..n) < One * violation
  <2>1. CASE config.ratio = "Standard"
    <3>1. k = 0
      BY <2>1 DEF Flips
    <3> HIDE DEF k
    <3> QED BY <1>3, <3>1
  <2>2. CASE config.ratio # "Standard"
    <3>1. k = Max(F)
      BY <2>2 DEF Flips
    <3>2. F = O
      BY DEF Total, SumFunction, Sum
    <3>3. O \subseteq 0..Len(s) /\ \A i \in O : \A n \in 1..i : Flippable(s[n]) /\ Sum([m \in 1..n |-> Relief(s[m], alpha)], 1..n) < One * violation
      OBVIOUS
    <3>4. 0 \in O
      <4>1. 0 \in 0..Len(s) /\ \A l \in 1..0 : FALSE
        BY <1>3
      <4> QED BY <4>1, Zenon
    <3>5. IsFiniteSet(0..Len(s))
      BY <1>3, FS_Interval
    <3> HIDE DEF O, F, k
    <3>6. IsFiniteSet(O) /\ O # {} /\ O \subseteq Int
      <4>1. O \in SUBSET (0..Len(s)) /\ O # {}
        BY <3>3, <3>4
      <4>2. IsFiniteSet(O)
        BY <3>5, <4>1, FS_Subset
      <4> QED BY <1>3, <4>1, <4>2
    <3>7. Max(O) \in O
      BY <3>6, HasGreatest
    <3> QED BY <3>1, <3>2, <3>3, <3>7
  <2> QED BY <2>1, <2>2
<1> HIDE DEF k
<1>7. k # 0 => Sum([n \in 1..k |-> Relief(s[n], alpha)], 1..k) < One * violation
  <2> SUFFICES ASSUME k # 0
               PROVE  Sum([n \in 1..k |-> Relief(s[n], alpha)], 1..k) < One * violation
    OBVIOUS
  <2>1. k \in 1..k
    BY <1>3, <1>6
  <2> QED BY <1>6, <2>1
<1> QED BY <1>3, <1>4, <1>5, <1>6, <1>7 DEF k, C

FirstOf(s, k) == {s[n] : n \in 1..k}

\* What the leaving variable gains when it is put at its bound, less what the flips take
\* off its violation.
Balance(S, alpha, o, violation) ==
    [v \in Vars |-> IF v = o THEN One * violation ELSE IF v \in S THEN -Relief(v, alpha) ELSE 0]

LEMMA ReliefInteger ==
    ASSUME IsProgram(lp), NEW v \in Vars, NEW alpha, alpha[v] \in Int
    PROVE  Relief(v, alpha) \in Int
<1>1. Magnitude(alpha[v]) \in Int
  BY DEF Magnitude
<1>2. Up(v) - Low(v) \in Int
  BY Bounds
<1> DEFINE a == Magnitude(alpha[v])
           b == Up(v) - Low(v)
<1>3. a \in Int /\ b \in Int
  BY <1>1, <1>2
<1> HIDE DEF a, b
<1>4. a * b \in Int
  BY <1>3
<1> QED BY <1>4 DEF Relief, a, b

\* The flips leave some of the violation.
LEMMA BalancePositive ==
    ASSUME IsProgram(lp), Partition(basis), NEW alpha, \A v \in basis.nonbasic : alpha[v] \in Int,
           NEW s \in ByRatio(alpha), s # <<>>, NEW violation \in Int, violation > 0,
           NEW o \in Vars, o \notin basis.nonbasic,
           NEW S, S = FirstOf(s, Flips(s, alpha, violation))
    PROVE  /\ IntegerOn(Balance(S, alpha, o, violation), Vars)
           /\ Sum(Balance(S, alpha, o, violation), Vars) > 0
<1> DEFINE f == Balance(S, alpha, o, violation)
           k == Flips(s, alpha, violation)
           N == 1..k
           C == Candidates(alpha)
           g == [v \in C |-> Relief(v, alpha)]
           t == [n \in N |-> s[n]]
           e == One * violation
<1>1. /\ Len(s) \in Nat /\ s \in [1..Len(s) -> C]
      /\ \A n \in 1..Len(s), l \in 1..Len(s) : s[n] = s[l] => n = l
      /\ k \in 0..Len(s)
      /\ k # 0 => Sum([n \in 1..k |-> Relief(s[n], alpha)], 1..k) < e
  BY FlipsFit
<1>2. C \subseteq basis.nonbasic /\ basis.nonbasic \subseteq Vars
  BY DEF Candidates, Partition
<1>3. e \in Int /\ e > 0
  <2>1. One \in Int /\ One > 0
    BY OneAssumption
  <2> QED BY <2>1
<1>4. \A v \in C : Relief(v, alpha) \in Int
  BY <1>2, ReliefInteger
<1> HIDE DEF k, C, e
<1>5. S \subseteq C /\ S = {s[n] : n \in N}
  BY <1>1 DEF FirstOf, k
<1>6. \A v \in Vars : f[v] = IF v = o THEN e ELSE IF v \in S THEN -Relief(v, alpha) ELSE 0
  BY DEF Balance, e
<1>7. IntegerOn(f, Vars)
  BY <1>3, <1>4, <1>5, <1>6 DEF IntegerOn
<1>8. o \notin S /\ S \subseteq Vars /\ S \cup {o} \subseteq Vars /\ (S \cup {o}) \ {o} = S
  BY <1>2, <1>5
<1>9. IsFiniteSet(Vars) /\ IsFiniteSet(S) /\ IsFiniteSet(S \cup {o})
  BY <1>8, Shape, FS_Subset
<1>10. f[o] = e /\ \A v \in S : f[v] = -Relief(v, alpha)
  BY <1>6, <1>8
<1>11. \A v \in Vars \ (S \cup {o}) : f[v] = 0
  BY <1>6
<1>12. IntegerOn(f, S) /\ IntegerOn(f, S \cup {o})
  BY <1>7, <1>8 DEF IntegerOn
<1> HIDE DEF f
<1>13. Sum(f, Vars) = Sum(f, S \cup {o})
  BY <1>7, <1>8, <1>9, <1>11, SumWithoutZeros
<1>14. Sum(f, S \cup {o}) = f[o] + Sum(f, (S \cup {o}) \ {o})
  BY <1>9, <1>12, SumTakes
<1>15. Sum(f, Vars) = e + Sum(f, S) /\ Sum(f, S) \in Int
  BY <1>8, <1>9, <1>10, <1>12, <1>13, <1>14, SumInteger
<1>16. Sum(f, S) > -e
  <2>1. CASE k = 0
    <3>1. S = {}
      BY <1>5, <2>1
    <3>2. Sum(f, S) = 0
      BY <3>1, SumEmpty
    <3> QED BY <1>3, <3>2
  <2>2. CASE k # 0
    <3>1. IntegerOn(g, C) /\ IntegerOn(g, S)
      BY <1>4, <1>5 DEF IntegerOn
    <3>2. \A v \in S : 1 * f[v] = (-1) * g[v]
      <4> SUFFICES ASSUME NEW v \in S
                   PROVE  1 * f[v] = (-1) * g[v]
        OBVIOUS
      <4>1. f[v] = -g[v] /\ g[v] \in Int
        BY <1>4, <1>5, <1>10
      <4> HIDE DEF g
      <4> QED BY <4>1
    <3>3. t \in [N -> C] /\ IsFiniteSet(N)
      <4>1. k \in Int /\ 1 \in Int /\ \A n \in N : s[n] \in C
        BY <1>1
      <4>2. IsFiniteSet(N)
        BY <4>1, FS_Interval
      <4> QED BY <4>1, <4>2
    <3>4. \A n \in N, l \in N : t[n] = t[l] => n = l
      BY <1>1
    <3>5. S = {t[n] : n \in N}
      BY <1>5
    <3>6. \A n \in N : g[t[n]] = Relief(s[n], alpha)
      BY <3>3
    <3> HIDE DEF g, t, N
    <3>7. Sum([n \in N |-> g[t[n]]], N) = Sum(g, {t[n] : n \in N})
      BY ONLY <3>1, <3>3, <3>4, SumRenamed
    <3>8. [n \in N |-> g[t[n]]] = [n \in N |-> Relief(s[n], alpha)]
      BY <3>6
    <3>9. Sum(g, S) < e
      BY <1>1, <2>2, <3>5, <3>7, <3>8 DEF N
    <3>10. 1 * Sum(f, S) = (-1) * Sum(g, S)
      <4> DEFINE a == 1
                 b == -1
      <4>1. a \in Int /\ b \in Int /\ \A v \in S : a * f[v] = b * g[v]
        BY <3>2
      <4> HIDE DEF a, b
      <4>2. a * Sum(f, S) = b * Sum(g, S)
        BY ONLY <1>9, <1>12, <3>1, <4>1, SumScaled
      <4> QED BY <4>2 DEF a, b
    <3>11. Sum(g, S) \in Int
      BY <1>9, <3>1, SumInteger
    <3> QED BY <1>3, <1>15, <3>9, <3>10, <3>11
  <2> QED BY <2>1, <2>2
<1>17. Sum(f, Vars) > 0
  BY <1>3, <1>15, <1>16
<1> QED BY <1>7, <1>17 DEF f

-----------------------------------------------------------------------------
(* Signs of the reduced costs after a pivot.                               *)

LEMMA FactorSign ==
    ASSUME NEW g \in Int, g > 0, NEW u \in Int
    PROVE  (g * u >= 0 => u >= 0) /\ (g * u <= 0 => u <= 0) /\ (g * u = 0 => u = 0)
OBVIOUS

LEMMA ProductSign ==
    ASSUME NEW g \in Int, NEW u \in Int
    PROVE  /\ g * u \in Int
           /\ (g >= 0 /\ u >= 0) \/ (g <= 0 /\ u <= 0) => g * u >= 0
           /\ (g >= 0 /\ u <= 0) \/ (g <= 0 /\ u >= 0) => g * u <= 0
           /\ (g = 0 \/ u = 0) => g * u = 0
OBVIOUS

\* The entering variable's reduced cost over its entry in the tableau row, in absolute
\* values, is how far the reduced costs move.
LEMMA PivotSlope ==
    ASSUME NEW q, d[q] \in Int, Allows(basis.status[q], d[q]), NEW a \in Int, Helps(q, a),
           NEW u \in Int, NEW z \in Int, NEW h \in Int, a * z = (a * u) - (d[q] * h)
    PROVE  /\ Magnitude(a) \in Int /\ Magnitude(a) > 0 /\ Slope(q) \in Int /\ Slope(q) >= 0
           /\ Magnitude(a) * z = (Magnitude(a) * u) - (Slope(q) * h)
<1> DEFINE e == d[q]
<1>1. e \in Int /\ Allows(basis.status[q], e) /\ a * z = (a * u) - (e * h)
  OBVIOUS
<1>2. basis.status[q] \in {"AtLower", "AtUpper", "Free"}
  BY DEF Helps
<1>3. CASE basis.status[q] = "AtLower"
  <2>1. a > 0 /\ e >= 0
    BY <1>1, <1>3 DEF Helps, Allows
  <2>2. Slope(q) = e
    BY <1>1, <1>3, <2>1 DEF Slope, Larger
  <2>3. Magnitude(a) = a
    BY <2>1 DEF Magnitude
  <2> HIDE DEF e
  <2> QED BY <1>1, <2>1, <2>2, <2>3
<1>4. CASE basis.status[q] = "AtUpper"
  <2>1. a < 0 /\ e <= 0
    BY <1>1, <1>4 DEF Helps, Allows
  <2>2. Slope(q) = -e
    BY <1>1, <1>4, <2>1 DEF Slope, Larger
  <2>3. Magnitude(a) = -a
    BY <2>1 DEF Magnitude
  <2> HIDE DEF e
  <2>4. (-a) * z = -(a * z) /\ (-a) * u = -(a * u) /\ (-e) * h = -(e * h)
    BY <1>1
  <2>5. a * z \in Int /\ a * u \in Int /\ e * h \in Int
    BY <1>1
  <2>6. (-a) * z = ((-a) * u) - ((-e) * h)
    BY <1>1, <2>4, <2>5
  <2>7. -a \in Int /\ -a > 0 /\ -e \in Int /\ -e >= 0
    BY <1>1, <2>1
  <2> QED BY <2>2, <2>3, <2>6, <2>7
<1>5. CASE basis.status[q] = "Free"
  <2>1. a # 0 /\ e = 0
    BY <1>1, <1>5 DEF Helps, Allows
  <2>2. Slope(q) = 0
    BY <1>5 DEF Slope
  <2> HIDE DEF e
  <2>3. a * z = a * u
    BY <1>1, <2>1
  <2>4. z = u
    BY <2>1, <2>3
  <2>5. Magnitude(a) \in Int /\ Magnitude(a) > 0
    BY <2>1 DEF Magnitude
  <2> QED BY <2>2, <2>4, <2>5
<1> QED BY <1>2, <1>3, <1>4, <1>5

\* Variables that come no earlier than the entering one stay on the right side of 0 ...
LEMMA StaysAllowed ==
    ASSUME NEW v, d[v] \in Int, Allows(basis.status[v], d[v]), NEW h \in Int, NEW z \in Int,
           NEW g \in Int, g > 0, NEW t \in Int, t >= 0, g * z = (g * d[v]) - (t * h),
           Helps(v, h) => t * Magnitude(h) <= Slope(v) * g
    PROVE  Allows(basis.status[v], z)
<1> DEFINE e == d[v]
<1>1. e \in Int /\ Allows(basis.status[v], e) /\ g * z = (g * e) - (t * h)
  OBVIOUS
<1>2. CASE basis.status[v] = "AtLower"
  <2>1. e >= 0 /\ Slope(v) = e
    BY <1>1, <1>2 DEF Allows, Slope, Larger
  <2> HIDE DEF e
  <2>2. CASE h > 0
    <3>1. Helps(v, h) /\ Magnitude(h) = h
      BY <1>2, <2>2 DEF Helps, Magnitude
    <3>2. t * h <= e * g
      BY <2>1, <3>1
    <3>3. e * g = g * e /\ g * e \in Int /\ t * h \in Int
      BY <1>1
    <3>4. g * z >= 0
      BY <1>1, <3>2, <3>3
    <3>5. z >= 0
      BY <3>4, FactorSign
    <3> QED BY <1>2, <3>5 DEF Allows
  <2>3. CASE h <= 0
    <3>1. g * e >= 0 /\ t * h <= 0 /\ g * e \in Int /\ t * h \in Int
      BY <1>1, <2>1, <2>3, ProductSign
    <3>2. g * z >= 0
      BY <1>1, <3>1
    <3>3. z >= 0
      BY <3>2, FactorSign
    <3> QED BY <1>2, <3>3 DEF Allows
  <2> QED BY <2>2, <2>3
<1>3. CASE basis.status[v] = "AtUpper"
  <2>1. e <= 0 /\ Slope(v) = -e
    BY <1>1, <1>3 DEF Allows, Slope, Larger
  <2> HIDE DEF e
  <2>2. CASE h < 0
    <3>1. Helps(v, h) /\ Magnitude(h) = -h
      BY <1>3, <2>2 DEF Helps, Magnitude
    <3>2. t * (-h) <= (-e) * g
      BY <2>1, <3>1
    <3>3. (-e) * g = -(g * e) /\ t * (-h) = -(t * h) /\ g * e \in Int /\ t * h \in Int
      BY <1>1
    <3>4. g * z <= 0
      BY <1>1, <3>2, <3>3
    <3>5. z <= 0
      BY <3>4, FactorSign
    <3> QED BY <1>3, <3>5 DEF Allows
  <2>3. CASE h >= 0
    <3>1. g * e <= 0 /\ t * h >= 0 /\ g * e \in Int /\ t * h \in Int
      BY <1>1, <2>1, <2>3, ProductSign
    <3>2. g * z <= 0
      BY <1>1, <3>1
    <3>3. z <= 0
      BY <3>2, FactorSign
    <3> QED BY <1>3, <3>3 DEF Allows
  <2> QED BY <2>2, <2>3
<1>4. CASE basis.status[v] = "Free"
  <2>1. e = 0 /\ Slope(v) = 0
    BY <1>1, <1>4 DEF Allows, Slope
  <2> HIDE DEF e
  <2>2. t * h = 0
    <3>1. CASE h = 0
      BY <3>1
    <3>2. CASE h # 0
      <4> DEFINE m == Magnitude(h)
      <4>1. m \in Int /\ m > 0
        BY <3>2 DEF Magnitude
      <4>2. t * m <= 0
        <5>1. t * m <= 0 * g
          BY <1>4, <2>1, <3>2 DEF Helps
        <5> QED BY <5>1
      <4> HIDE DEF m
      <4>3. t = 0
        BY <4>1, <4>2
      <4> QED BY <4>3
    <3> QED BY <3>1, <3>2
  <2>3. g * z = 0
    BY ONLY <1>1, <2>1, <2>2
  <2>4. z = 0
    BY <2>3, FactorSign
  <2> QED BY <1>4, <2>4 DEF Allows
<1>5. CASE basis.status[v] \notin {"AtLower", "AtUpper", "Free"}
  BY <1>5 DEF Allows
<1> QED BY <1>2, <1>3, <1>4, <1>5

\* ... and those that come no later are right where they are flipped to.
LEMMA FlippedAllowed ==
    ASSUME NEW v, d[v] \in Int, Allows(basis.status[v], d[v]), NEW h \in Int, NEW z \in Int,
           NEW g \in Int, g > 0, NEW t \in Int, t >= 0, g * z = (g * d[v]) - (t * h),
           Helps(v, h), Slope(v) * g <= t * Magnitude(h), basis.status[v] \in {"AtLower", "AtUpper"}
    PROVE  Allows(Opposite[basis.status[v]], z)
<1> DEFINE e == d[v]
<1>1. e \in Int /\ Allows(basis.status[v], e) /\ g * z = (g * e) - (t * h)
  OBVIOUS
<1>2. CASE basis.status[v] = "AtLower"
  <2>1. e >= 0 /\ Slope(v) = e /\ h > 0 /\ Magnitude(h) = h /\ Opposite[basis.status[v]] = "AtUpper"
    BY <1>1, <1>2 DEF Allows, Slope, Larger, Helps, Magnitude, Opposite
  <2> HIDE DEF e
  <2>2. e * g = g * e /\ g * e \in Int /\ t * h \in Int
    BY <1>1
  <2>3. g * z <= 0
    BY <1>1, <2>1, <2>2
  <2>4. z <= 0
    BY <2>3, FactorSign
  <2> QED BY <2>1, <2>4 DEF Allows
<1>3. CASE basis.status[v] = "AtUpper"
  <2>1. e <= 0 /\ Slope(v) = -e /\ h < 0 /\ Magnitude(h) = -h /\ Opposite[basis.status[v]] = "AtLower"
    BY <1>1, <1>3 DEF Allows, Slope, Larger, Helps, Magnitude, Opposite
  <2> HIDE DEF e
  <2>2. (-e) * g = -(g * e) /\ t * (-h) = -(t * h) /\ g * e \in Int /\ t * h \in Int
    BY <1>1
  <2>3. g * z >= 0
    BY <1>1, <2>1, <2>2
  <2>4. z >= 0
    BY <2>3, FactorSign
  <2> QED BY <2>1, <2>4 DEF Allows
<1> QED BY <1>2, <1>3

-----------------------------------------------------------------------------
(* What a dual iteration chooses.                                          *)

Side(o) == IF Below(o, Current) THEN 1 ELSE -1

\* Row p leaves; the multipliers pi see its variable and nobody else in the basis.
Chosen(p, pi, alpha, s) ==
    /\ p \in Rows /\ basis.basic[p] \in Vars
    /\ Below(basis.basic[p], Current) \/ Above(basis.basic[p], Current)
    /\ pi \in [Rows -> Int]
    /\ \A i \in Rows : Dot(Column(basis.basic[i]), pi) = Unit(p, -(Side(basis.basic[p]) * One))[i]
    /\ alpha = [v \in basis.nonbasic |-> Dot(Column(v), pi)]
    /\ s \in ByRatio(alpha) /\ s # <<>>

LEMMA ChosenRow ==
    ASSUME IsProgram(lp), Partition(basis), Current \in [Vars -> Int],
           NEW p, NEW pi, NEW alpha, NEW s, Chosen(p, pi, alpha, s)
    PROVE  /\ basis.basic[p] \in Vars /\ basis.basic[p] \notin basis.nonbasic
           /\ basis.status[basis.basic[p]] = "Basic"
           /\ Priced(pi) \in [Vars -> Int] /\ \A v \in Vars : Priced(pi)[v] = Dot(Column(v), pi)
           /\ Priced(pi)[basis.basic[p]] = -(Side(basis.basic[p]) * One)
           /\ \A v \in Vars \ {basis.basic[p]} : basis.status[v] = "Basic" => Priced(pi)[v] = 0
           /\ \A v \in basis.nonbasic : v \in Vars /\ alpha[v] = Priced(pi)[v] /\ alpha[v] \in Int
           /\ Violation(basis.basic[p], Current) \in Int /\ Violation(basis.basic[p], Current) > 0
<1> DEFINE o == basis.basic[p]
           u == -(Side(o) * One)
           h == Priced(pi)
<1>1. /\ p \in Rows /\ o \in Vars /\ pi \in [Rows -> Int] /\ (Below(o, Current) \/ Above(o, Current))
      /\ \A i \in Rows : Dot(Column(basis.basic[i]), pi) = Unit(p, u)[i]
      /\ alpha = [v \in basis.nonbasic |-> Dot(Column(v), pi)]
  BY DEF Chosen
<1>2. h = [v \in Vars |-> Dot(Column(v), pi)] /\ \A v \in Vars : Dot(Column(v), pi) \in Int
  BY <1>1, DotIsSum DEF Priced
<1>3. h \in [Vars -> Int] /\ \A v \in Vars : h[v] = Dot(Column(v), pi)
  BY <1>2
<1>4. basis.status[o] = "Basic" /\ o \notin basis.nonbasic
  BY <1>1 DEF Partition, IsValid
<1> HIDE DEF h
<1>5. h[o] = u
  BY <1>1, <1>3 DEF Unit
<1>6. ASSUME NEW v \in Vars \ {o}, basis.status[v] = "Basic"
      PROVE  h[v] = 0
  <2>1. basis.place[v] \in Rows /\ basis.basic[basis.place[v]] = v
    BY <1>6 DEF Partition
  <2>2. basis.place[v] # p
    BY <1>6, <2>1
  <2>3. Dot(Column(v), pi) = 0
    BY <1>1, <2>1, <2>2 DEF Unit
  <2> QED BY <1>3, <2>3
<1>7. \A v \in basis.nonbasic : v \in Vars
  BY DEF Partition
<1>8. \A v \in basis.nonbasic : alpha[v] = h[v] /\ alpha[v] \in Int
  BY <1>1, <1>3, <1>7
<1>9. Violation(o, Current) \in Int /\ Violation(o, Current) > 0
  <2>1. Low(o) \in Int /\ Up(o) \in Int /\ Current[o] \in Int
    BY <1>1, Bounds
  <2> QED BY <1>1, <2>1 DEF Violation, Below, Above
<1> QED BY <1>1, <1>3, <1>4, <1>5, <1>6, <1>7, <1>8, <1>9 DEF h

\* Whoever does not help weighs the current point at least as much as a feasible one.
LEMMA Unhelpful ==
    ASSUME IsProgram(lp), StatusesFit(basis), NEW v \in Vars, basis.status[v] # "Basic",
           NEW r \in Int, Low(v) <= r, r <= Up(v), NEW h \in Int, ~Helps(v, h)
    PROVE  h * r <= h * RestingValue(basis, v)
<1> DEFINE n == -h
           z == RestingValue(basis, v)
<1>1. Allows(basis.status[v], n) /\ n \in Int
  BY DEF Helps, Allows
<1>2. z \in Int
  BY RestsBeside
<1>3. n * z <= n * r
  <2> HIDE DEF n
  <2> QED BY <1>1, TermAllowed
<1> HIDE DEF z
<1>4. (-h) * z = -(h * z) /\ (-h) * r = -(h * r) /\ h * z \in Int /\ h * r \in Int
  BY <1>2
<1>5. h * r <= h * z
  BY <1>3, <1>4
<1> QED BY <1>5 DEF z

\* Whoever is flipped helps by its relief and no more.
LEMMA ReliefBounds ==
    ASSUME IsProgram(lp), NEW v \in Vars, NEW alpha, alpha[v] \in Int, Helps(v, alpha[v]),
           basis.status[v] \in {"AtLower", "AtUpper"}, NEW r \in Int, Low(v) <= r, r <= Up(v)
    PROVE  alpha[v] * r <= (alpha[v] * RestingValue(basis, v)) + Relief(v, alpha)
<1> DEFINE h == alpha[v]
           l == Low(v)
           u == Up(v)
<1>1. h \in Int /\ l \in Int /\ u \in Int /\ l <= r /\ r <= u
  BY Bounds
<1>2. CASE basis.status[v] = "AtLower"
  <2>1. h > 0 /\ RestingValue(basis, v) = l /\ Relief(v, alpha) = h * (u - l)
    BY <1>1, <1>2 DEF Helps, RestingValue, Relief, Magnitude
  <2> HIDE DEF h, l, u
  <2>2. (h * l) + (h * (u - l)) = h * u
    BY <1>1
  <2>3. h * r <= h * u
    BY <1>1, <2>1
  <2> QED BY <2>1, <2>2, <2>3 DEF h
<1>3. CASE basis.status[v] = "AtUpper"
  <2>1. h < 0 /\ RestingValue(basis, v) = u /\ Relief(v, alpha) = (-h) * (u - l)
    BY <1>1, <1>3 DEF Helps, RestingValue, Relief, Magnitude
  <2> HIDE DEF h, l, u
  <2>2. (h * u) + ((-h) * (u - l)) = h * l
    BY <1>1
  <2>3. h * r <= h * l
    BY <1>1, <2>1
  <2> QED BY <2>1, <2>2, <2>3 DEF h
<1> QED BY <1>2, <1>3

\* Where a feasible point has the leaving variable is at least the violation away.
LEMMA LeavesFar ==
    ASSUME IsProgram(lp), NEW o \in Vars, Current[o] \in Int, Below(o, Current) \/ Above(o, Current),
           NEW r \in Int, Low(o) <= r, r <= Up(o)
    PROVE  ((-(Side(o) * One)) * r) + (One * Violation(o, Current)) <= (-(Side(o) * One)) * Current[o]
<1> DEFINE l == Low(o)
           u == Up(o)
           z == Current[o]
           n == Violation(o, Current)
           t == One
<1>1. l \in Int /\ u \in Int /\ z \in Int /\ t \in Int /\ t > 0 /\ l <= r /\ r <= u
  BY Bounds, OneAssumption
<1>2. CASE Below(o, Current)
  <2>1. Side(o) = 1 /\ n = l - z
    BY <1>2 DEF Side, Violation
  <2> HIDE DEF l, u, z, n, t
  <2>2. (-(1 * t)) * r = -(t * r) /\ (-(1 * t)) * z = -(t * z) /\ t * (l - z) = (t * l) - (t * z)
    BY <1>1
  <2>3. t * l <= t * r /\ t * l \in Int /\ t * r \in Int /\ t * z \in Int
    BY <1>1
  <2>4. (-(t * r)) + ((t * l) - (t * z)) <= -(t * z)
    BY <2>3
  <2>5. ((-(1 * t)) * r) + (t * n) <= (-(1 * t)) * z
    BY <2>1, <2>2, <2>4
  <2> QED BY <2>1, <2>5 DEF z, n, t
<1>3. CASE ~Below(o, Current)
  <2>1. Side(o) = -1 /\ n = z - u
    BY <1>3 DEF Side, Violation
  <2> HIDE DEF l, u, z, n, t
  <2>2. (-((-1) * t)) * r = t * r /\ (-((-1) * t)) * z = t * z /\ t * (z - u) = (t * z) - (t * u)
    BY <1>1
  <2>3. t * r <= t * u /\ t * u \in Int /\ t * r \in Int /\ t * z \in Int
    BY <1>1
  <2>4. (t * r) + ((t * z) - (t * u)) <= t * z
    BY <2>3
  <2>5. ((-((-1) * t)) * r) + (t * n) <= (-((-1) * t)) * z
    BY <2>1, <2>2, <2>4
  <2> QED BY <2>1, <2>5 DEF z, n, t
<1> QED BY <1>2, <1>3

\* In a model with a feasible point some candidate is not flipped: the flips together
\* leave some violation, the feasible point does not.
LEMMA NotAllFlipped ==
    ASSUME IsProgram(lp), Partition(basis), StatusesFit(basis), Kernel(Current),
           \A v \in basis.nonbasic : Current[v] = RestingValue(basis, v),
           NEW p, NEW pi, NEW alpha, NEW s, Chosen(p, pi, alpha, s),
           NEW r \in [Cols -> Int], FeasiblePoint(r)
    PROVE  Flips(s, alpha, Violation(basis.basic[p], Current)) # Len(s)
<1> DEFINE o == basis.basic[p]
           n == Violation(o, Current)
           k == Flips(s, alpha, n)
           S == FirstOf(s, k)
           X == Current
           P == Extended(r)
           h == Priced(pi)
           u == -(Side(o) * One)
           f == Weighted(h, X)
           g == Weighted(h, P)
           e == Balance(S, alpha, o, n)
           t == [v \in Vars |-> f[v] - e[v]]
<1> SUFFICES ASSUME k = Len(s)
             PROVE  FALSE
  OBVIOUS
<1>1. /\ o \in Vars /\ o \notin basis.nonbasic /\ basis.status[o] = "Basic"
      /\ h \in [Vars -> Int] /\ \A v \in Vars : h[v] = Dot(Column(v), pi)
      /\ h[o] = u
      /\ \A v \in Vars \ {o} : basis.status[v] = "Basic" => h[v] = 0
      /\ \A v \in basis.nonbasic : v \in Vars /\ alpha[v] = h[v] /\ alpha[v] \in Int
      /\ n \in Int /\ n > 0
  BY ChosenRow DEF Kernel
<1>2. pi \in [Rows -> Int] /\ s \in ByRatio(alpha) /\ s # <<>> /\ (Below(o, X) \/ Above(o, X))
  BY DEF Chosen
<1>3. X \in [Vars -> Int]
  BY DEF Kernel
<1>4. Kernel(P) /\ P \in [Vars -> Int] /\ \A v \in Vars : Low(v) <= P[v] /\ P[v] <= Up(v)
  BY ExtendedSolves DEF Kernel
<1>5. Sum(f, Vars) = 0 /\ Sum(g, Vars) = 0
  BY <1>2, <1>4, Combination
<1>6. S = Candidates(alpha) /\ \A v \in S : Flippable(v)
  <2>1. /\ Len(s) \in Nat /\ s \in [1..Len(s) -> Candidates(alpha)]
        /\ \A v \in Candidates(alpha) : \E m \in 1..Len(s) : s[m] = v
        /\ \A m \in 1..k : Flippable(s[m])
    <3>1. s \in ByRatio(alpha) /\ s # <<>>
      BY <1>2
    <3> HIDE DEF n, o
    <3> QED BY <3>1, FlipsFit
  <2> HIDE DEF k
  <2> QED BY <2>1 DEF FirstOf
<1>7. IntegerOn(e, Vars) /\ Sum(e, Vars) > 0
  <2> HIDE DEF n, o
  <2> QED BY <1>1, <1>2, BalancePositive
<1>8. /\ IntegerOn(f, Vars) /\ IntegerOn(g, Vars)
      /\ \A v \in Vars : f[v] = h[v] * X[v] /\ g[v] = h[v] * P[v]
  BY <1>1, <1>3, <1>4, WeightedIsInteger
<1>9. \A v \in Vars : e[v] = IF v = o THEN One * n ELSE IF v \in S THEN -Relief(v, alpha) ELSE 0
  BY DEF Balance
<1>10. IsFiniteSet(Vars)
  BY Shape
<1>11. \A v \in Vars : basis.status[v] # "Basic" => v \in basis.nonbasic /\ X[v] = RestingValue(basis, v)
  BY DEF Partition
<1>12. \A v \in S : v \in basis.nonbasic /\ basis.status[v] \in {"AtLower", "AtUpper"} /\ Helps(v, alpha[v])
  <2> SUFFICES ASSUME NEW v \in S
               PROVE  v \in basis.nonbasic /\ basis.status[v] \in {"AtLower", "AtUpper"} /\ Helps(v, alpha[v])
    OBVIOUS
  <2>1. v \in basis.nonbasic /\ Helps(v, alpha[v])
    BY <1>6 DEF Candidates
  <2>2. basis.status[v] # "Free"
    BY <1>1, <1>6, <2>1, FreeStays
  <2> QED BY <2>1, <2>2 DEF Helps
<1>13. \A v \in basis.nonbasic : v \notin S => ~Helps(v, alpha[v])
  BY <1>6 DEF Candidates
<1>20. ((-(Side(o) * One)) * P[o]) + (One * n) <= (-(Side(o) * One)) * X[o]
  <2>1. P[o] \in Int /\ Low(o) <= P[o] /\ P[o] <= Up(o) /\ X[o] \in Int
    BY <1>1, <1>3, <1>4
  <2> HIDE DEF o, P
  <2> QED BY <1>1, <1>2, <2>1, LeavesFar
<1> HIDE DEF h, X, P, S, e, f, g, k
<1>14. ASSUME NEW v \in Vars
       PROVE  g[v] <= f[v] - e[v]
  <2>1. h[v] \in Int /\ P[v] \in Int /\ Low(v) <= P[v] /\ P[v] <= Up(v) /\ f[v] \in Int /\ e[v] \in Int /\ g[v] \in Int
    BY <1>1, <1>4, <1>7, <1>8 DEF IntegerOn
  <2>2. f[v] = h[v] * X[v] /\ g[v] = h[v] * P[v]
    BY <1>8
  <2>3. CASE v = o
    <3>1. e[v] = One * n
      BY <1>9, <2>3
    <3>2. g[v] + (One * n) <= f[v]
      BY <1>1, <1>20, <2>2, <2>3
    <3> QED BY <2>1, <3>1, <3>2
  <2>4. CASE v # o /\ basis.status[v] = "Basic"
    <3>1. h[v] = 0 /\ X[v] \in Int
      BY <1>1, <1>3, <2>4
    <3>2. f[v] = 0 /\ g[v] = 0
      BY <2>1, <2>2, <3>1
    <3>3. v \notin S
      BY <1>12, <2>4 DEF Partition
    <3>4. e[v] = 0
      BY <1>9, <2>4, <3>3
    <3> QED BY <3>2, <3>4
  <2>5. CASE v # o /\ basis.status[v] # "Basic" /\ v \in S
    <3>1. Helps(v, alpha[v]) /\ basis.status[v] \in {"AtLower", "AtUpper"} /\ alpha[v] \in Int /\ alpha[v] = h[v]
      BY <1>1, <1>12, <2>5
    <3>2. alpha[v] * P[v] <= (alpha[v] * RestingValue(basis, v)) + Relief(v, alpha)
      BY <2>1, <3>1, ReliefBounds
    <3>3. X[v] = RestingValue(basis, v)
      BY <1>11, <2>5
    <3>4. e[v] = -Relief(v, alpha)
      BY <1>9, <2>5
    <3>5. Relief(v, alpha) \in Int
      BY <3>1, ReliefInteger
    <3>6. g[v] <= f[v] + Relief(v, alpha)
      BY <2>2, <3>1, <3>2, <3>3
    <3> QED BY <2>1, <3>4, <3>5, <3>6
  <2>6. CASE v # o /\ basis.status[v] # "Basic" /\ v \notin S
    <3>1. ~Helps(v, h[v]) /\ X[v] = RestingValue(basis, v)
      BY <1>1, <1>11, <1>13, <2>6
    <3>2. h[v] * P[v] <= h[v] * RestingValue(basis, v)
      BY <2>1, <2>6, <3>1, Unhelpful
    <3>3. e[v] = 0
      BY <1>9, <2>6
    <3>4. g[v] <= f[v]
      BY <2>2, <3>1, <3>2
    <3> QED BY <2>1, <3>3, <3>4
  <2> QED BY <2>3, <2>4, <2>5, <2>6
<1>15. IntegerOn(t, Vars)
  BY <1>7, <1>8 DEF IntegerOn
<1>16. \A v \in Vars : g[v] <= t[v]
  BY <1>14
<1>17. Combines(t, f, e, 1, 1, -1, Vars)
  <2> SUFFICES ASSUME NEW v \in Vars
               PROVE  1 * t[v] = (1 * f[v]) + ((-1) * e[v])
    BY DEF Combines
  <2>1. t[v] = f[v] - e[v] /\ f[v] \in Int /\ e[v] \in Int
    BY <1>7, <1>8 DEF IntegerOn
  <2> HIDE DEF t
  <2> QED BY <2>1
<1> HIDE DEF t
<1>18. Sum(g, Vars) <= Sum(t, Vars)
  BY <1>8, <1>10, <1>15, <1>16, SumAtMost
<1>19. 1 * Sum(t, Vars) = (1 * Sum(f, Vars)) + ((-1) * Sum(e, Vars))
  BY <1>7, <1>8, <1>10, <1>15, <1>17, SumCombines
<1>21. Sum(t, Vars) \in Int /\ Sum(e, Vars) \in Int
  BY <1>7, <1>10, <1>15, SumInteger
<1> QED BY <1>5, <1>7, <1>18, <1>19, <1>21

FlipCount(p, alpha, s) == Flips(s, alpha, Violation(basis.basic[p], Current))
FlippedOnes(p, alpha, s) == FirstOf(s, FlipCount(p, alpha, s))
Enters(p, alpha, s) == Entering(s, FlipCount(p, alpha, s))
Leaving(p) == IF Below(basis.basic[p], Current) THEN "AtLower" ELSE "AtUpper"
After(p, alpha, s) == Swap(Flipped(basis, FlippedOnes(p, alpha, s)), p, Enters(p, alpha, s), Leaving(p))

LEMMA DualPivotMade ==
    ASSUME Strong, SolvesRight, DualPivot, pc' = "dual"
    PROVE  \E p, pi, alpha, s : Chosen(p, pi, alpha, s) /\ basis' = After(p, alpha, s)
<1>1. pc = "dual"
  BY DEF DualPivot
<1>2. Working /\ PointSolves /\ \A p \in Rows, u \in {One, -One} : Prices(Btran(fact, Unit(p, u)), Unit(p, u))
  BY <1>1 DEF Working, SolvesRight
<1>3. IsProgram(lp) /\ Partition(basis)
  BY <1>2, AtWork
<1>4. Current \in [Vars -> Int]
  BY <1>2 DEF PointSolves
<1>5. PICK p \in LeavingRows(Current) :
        LET out == basis.basic[p]
            alpha == TableauRow(p, IF Below(out, Current) THEN 1 ELSE -1)
        IN \E s \in ByRatio(alpha) :
             /\ s # <<>>
             /\ LET k == Flips(s, alpha, Violation(out, Current))
                IN Pivot(Current, p, Entering(s, k), {s[n] : n \in 1..k})
  BY DEF DualPivot
<1> DEFINE out == basis.basic[p]
           sigma == Side(out)
           alpha == TableauRow(p, IF Below(out, Current) THEN 1 ELSE -1)
           pi == Btran(fact, Unit(p, -(sigma * One)))
<1>6. PICK s \in ByRatio(alpha) :
        /\ s # <<>>
        /\ LET k == Flips(s, alpha, Violation(out, Current))
           IN Pivot(Current, p, Entering(s, k), {s[n] : n \in 1..k})
  BY <1>5
<1>7. p \in Rows /\ out \in Vars /\ (Below(out, Current) \/ Above(out, Current))
  BY <1>3, <1>4, LeavesOutside
<1>8. alpha = [v \in basis.nonbasic |-> Dot(Column(v), pi)]
  BY DEF TableauRow, Side
<1>9. -(sigma * One) \in {One, -One}
  <2>1. One \in Int
    BY OneAssumption
  <2> QED BY <2>1 DEF Side
<1>10. pi \in [Rows -> Int] /\ \A i \in Rows : Dot(Column(basis.basic[i]), pi) = Unit(p, -(sigma * One))[i]
  <2> DEFINE u == -(sigma * One)
  <2>1. Prices(Btran(fact, Unit(p, u)), Unit(p, u))
    <3> HIDE DEF u
    <3> QED BY <1>2, <1>7, <1>9 DEF u
  <2> QED BY <2>1 DEF Prices
<1>11. Chosen(p, pi, alpha, s)
  <2> HIDE DEF alpha, pi
  <2> QED BY <1>6, <1>7, <1>8, <1>10 DEF Chosen
<1>12. Pivot(Current, p, Enters(p, alpha, s), FlippedOnes(p, alpha, s))
  BY <1>6 DEF Enters, FlippedOnes, FirstOf, FlipCount
<1> HIDE DEF alpha, pi
<1>13. basis' = After(p, alpha, s)
  BY <1>12 DEF Pivot, After, Leaving
<1> QED BY <1>11, <1>13

\* What the pivot makes of the basis.
LEMMA AfterPivot ==
    ASSUME IsProgram(lp), Partition(basis), StatusesFit(basis), Current \in [Vars -> Int],
           NEW p, NEW pi, NEW alpha, NEW s, Chosen(p, pi, alpha, s)
    PROVE  /\ Enters(p, alpha, s) \in Candidates(alpha)
           /\ \A v \in FlippedOnes(p, alpha, s) :
                v \in Candidates(alpha) /\ Flippable(v) /\ basis.status[v] \in {"AtLower", "AtUpper"}
           /\ \A i \in Rows : After(p, alpha, s).basic[i] = IF i = p THEN Enters(p, alpha, s) ELSE basis.basic[i]
           /\ \A v \in Vars : After(p, alpha, s).status[v] =
                IF v = Enters(p, alpha, s) THEN "Basic"
                ELSE IF v = basis.basic[p] THEN Leaving(p)
                ELSE IF v \in FlippedOnes(p, alpha, s) THEN Opposite[basis.status[v]] ELSE basis.status[v]
           /\ After(p, alpha, s).nonbasic = {v \in Vars : After(p, alpha, s).status[v] # "Basic"}
<1> DEFINE k == FlipCount(p, alpha, s)
           q == Enters(p, alpha, s)
           S == FlippedOnes(p, alpha, s)
           o == basis.basic[p]
           e == Flipped(basis, S)
           b == After(p, alpha, s)
<1>1. p \in Rows /\ o \in Vars /\ s \in ByRatio(alpha) /\ s # <<>>
  BY DEF Chosen
<1>2. /\ Len(s) \in Nat /\ Len(s) # 0 /\ s \in [1..Len(s) -> Candidates(alpha)]
      /\ k \in 0..Len(s) /\ \A n \in 1..k : Flippable(s[n])
  <2> DEFINE violation == Violation(o, Current)
  <2>1. k = Flips(s, alpha, violation)
    BY DEF FlipCount
  <2> HIDE DEF violation, k
  <2> QED BY <1>1, <2>1, FlipsFit
<1>3. q = IF k < Len(s) THEN s[k + 1] ELSE s[1]
  BY DEF Enters, Entering
<1>4. S = {s[n] : n \in 1..k}
  BY DEF FlippedOnes, FirstOf
<1> HIDE DEF k, q, S
<1>5. q \in Candidates(alpha)
  BY <1>2, <1>3
<1>6. \A v \in S : v \in Candidates(alpha) /\ Flippable(v)
  BY <1>2, <1>4
<1>7. \A v \in S : basis.status[v] \in {"AtLower", "AtUpper"}
  <2> SUFFICES ASSUME NEW v \in S
               PROVE  basis.status[v] \in {"AtLower", "AtUpper"}
    OBVIOUS
  <2>1. v \in basis.nonbasic /\ Helps(v, alpha[v]) /\ Flippable(v)
    BY <1>6 DEF Candidates
  <2>2. v \in Vars
    BY <2>1 DEF Partition
  <2>3. basis.status[v] # "Free"
    BY <2>1, <2>2, FreeStays
  <2> QED BY <2>1, <2>3 DEF Helps
<1>8. b = Swap(e, p, q, Leaving(p))
  BY DEF After, q, S
<1>9. e.basic = basis.basic /\ e.status = [v \in Vars |-> IF v \in S THEN Opposite[basis.status[v]] ELSE basis.status[v]]
  BY DEF Flipped
<1>10. DOMAIN basis.basic = Rows
  BY DEF Partition, IsValid
<1> HIDE DEF b, e
<1>11. b.basic = [basis.basic EXCEPT ![p] = q] /\ b.status = [e.status EXCEPT ![o] = Leaving(p), ![q] = "Basic"]
       /\ b.nonbasic = {v \in Vars : b.status[v] # "Basic"}
  BY <1>8, <1>9 DEF Swap
<1>12. \A i \in Rows : b.basic[i] = IF i = p THEN q ELSE basis.basic[i]
  BY <1>1, <1>10, <1>11
<1>13. \A v \in Vars : b.status[v] = IF v = q THEN "Basic" ELSE IF v = o THEN Leaving(p)
                                     ELSE IF v \in S THEN Opposite[basis.status[v]] ELSE basis.status[v]
  BY <1>9, <1>11
<1> QED BY <1>5, <1>6, <1>7, <1>11, <1>12, <1>13 DEF b, q, S

\* A dual pivot moves the reduced costs along the tableau row.
LEMMA DualsMove ==
    ASSUME IsProgram(lp), Partition(basis), StatusesFit(basis), Standing, ColumnCosts(c),
           NEW p, NEW pi, NEW alpha, NEW s, Chosen(p, pi, alpha, s),
           NEW X, NEW z, NEW h, NEW obj, Describes(X, After(p, alpha, s), c, z, h, obj),
           NEW v \in Vars
    PROVE  /\ d[v] \in Int /\ h[v] \in Int /\ Dot(Column(v), pi) \in Int
           /\ Enters(p, alpha, s) \in Vars /\ alpha[Enters(p, alpha, s)] \in Int /\ d[Enters(p, alpha, s)] \in Int
           /\ alpha[Enters(p, alpha, s)] * h[v]
                = (alpha[Enters(p, alpha, s)] * d[v]) - (d[Enters(p, alpha, s)] * Dot(Column(v), pi))
<1> DEFINE q == Enters(p, alpha, s)
           b == After(p, alpha, s)
<1>1. /\ Current \in [Vars -> Int] /\ \A i \in Rows : basis.basic[i] \in Vars
      /\ c \in [Vars -> Int] /\ y \in [Rows -> Int]
      /\ \A i \in Rows : Dot(Column(basis.basic[i]), y) = c[basis.basic[i]]
      /\ d \in [Vars -> Int] /\ \A w \in Vars : d[w] = c[w] - Dot(Column(w), y)
  BY DEF Standing, Describes, Kernel
<1>2. /\ \A i \in Rows : b.basic[i] \in Vars
      /\ z \in [Rows -> Int] /\ \A i \in Rows : Dot(Column(b.basic[i]), z) = c[b.basic[i]]
      /\ h \in [Vars -> Int] /\ \A w \in Vars : h[w] = c[w] - Dot(Column(w), z)
  BY DEF Describes
<1>3. \E F : \A r \in Rows : Makes(b.basic, F[r], Unit(r, One))
  BY DEF Describes
<1>4. PICK F : \A r \in Rows : Makes(b.basic, F[r], Unit(r, One))
  BY <1>3
<1>5. p \in Rows /\ pi \in [Rows -> Int] /\ alpha = [w \in basis.nonbasic |-> Dot(Column(w), pi)]
  BY DEF Chosen
<1>6. \A i \in Rows \ {p} : Dot(Column(basis.basic[i]), pi) = 0
  BY DEF Chosen, Unit
<1>7. q \in basis.nonbasic /\ \A i \in Rows : b.basic[i] = IF i = p THEN q ELSE basis.basic[i]
  BY <1>1, AfterPivot DEF Candidates
<1>8. q \in Vars /\ alpha[q] = Dot(Column(q), pi)
  BY <1>5, <1>7 DEF Partition
<1>9. Dot(Column(v), pi) \in Int /\ Dot(Column(q), pi) \in Int
  BY <1>5, <1>8, DotIsSum
<1> HIDE DEF b, q
<1>10. Dot(Column(q), pi) * (c[v] - Dot(Column(v), z))
         = (Dot(Column(q), pi) * (c[v] - Dot(Column(v), y))) - ((c[q] - Dot(Column(q), y)) * Dot(Column(v), pi))
  <2> DEFINE k == basis.basic
             l == b.basic
  <2>1. Exchange(p, q, c, k, y, l, z, pi, F)
    BY <1>1, <1>2, <1>4, <1>5, <1>6, <1>7, <1>8 DEF Exchange
  <2> HIDE DEF k, l
  <2> QED BY <2>1, DualsExchange
<1>11. c[v] - Dot(Column(v), z) = h[v] /\ c[v] - Dot(Column(v), y) = d[v] /\ c[q] - Dot(Column(q), y) = d[q]
  BY <1>1, <1>2, <1>8
<1>12. d[v] \in Int /\ h[v] \in Int /\ d[q] \in Int
  BY <1>1, <1>2, <1>8
<1> QED BY <1>8, <1>9, <1>10, <1>11, <1>12 DEF q

\* Every variable that is not basic has a reduced cost of the sign its status allows.
Signs == \A v \in basis.nonbasic : Allows(basis.status[v], d[v])

LEMMA SignsMove ==
    ASSUME IsProgram(lp), Partition(basis), StatusesFit(basis), Standing, ColumnCosts(c), Signs,
           NEW r \in [Cols -> Int], FeasiblePoint(r),
           NEW p, NEW pi, NEW alpha, NEW s, Chosen(p, pi, alpha, s),
           NEW X, NEW z, NEW h, NEW obj, Describes(X, After(p, alpha, s), c, z, h, obj),
           NEW v \in After(p, alpha, s).nonbasic
    PROVE  Allows(After(p, alpha, s).status[v], h[v])
<1> DEFINE q == Enters(p, alpha, s)
           S == FlippedOnes(p, alpha, s)
           k == FlipCount(p, alpha, s)
           o == basis.basic[p]
           a == alpha[q]
           g == Magnitude(a)
           t == Slope(q)
           u == Dot(Column(v), pi)
           status == After(p, alpha, s).status
           hv == h[v]
           dv == d[v]
<1>1. Kernel(Current) /\ (\A w \in basis.nonbasic : Current[w] = RestingValue(basis, w)) /\ Current \in [Vars -> Int]
      /\ \A w \in Vars : basis.status[w] = "Basic" => d[w] = 0
  BY DEF Standing, Describes, Kernel
<1>2. /\ q \in Candidates(alpha)
      /\ \A w \in Vars : status[w] = IF w = q THEN "Basic" ELSE IF w = o THEN Leaving(p)
                                     ELSE IF w \in S THEN Opposite[basis.status[w]] ELSE basis.status[w]
      /\ \A w \in S : w \in Candidates(alpha) /\ basis.status[w] \in {"AtLower", "AtUpper"}
      /\ v \in Vars /\ status[v] # "Basic"
  BY <1>1, AfterPivot
<1>3. /\ dv \in Int /\ hv \in Int /\ u \in Int
      /\ q \in Vars /\ a \in Int /\ d[q] \in Int
      /\ a * hv = (a * dv) - (d[q] * u)
  BY <1>2, DualsMove
<1>4. /\ o \in Vars /\ o \notin basis.nonbasic /\ basis.status[o] = "Basic"
      /\ Priced(pi)[o] = -(Side(o) * One) /\ \A w \in Vars : Priced(pi)[w] = Dot(Column(w), pi)
      /\ \A w \in basis.nonbasic : alpha[w] = Priced(pi)[w]
  BY <1>1, ChosenRow
<1>5. Helps(q, a) /\ q \in basis.nonbasic /\ Allows(basis.status[q], d[q])
  BY <1>2 DEF Candidates, Signs
<1>6. g \in Int /\ g > 0 /\ t \in Int /\ t >= 0 /\ g * hv = (g * dv) - (t * u)
  <2> HIDE DEF a, hv, dv, u
  <2> QED BY <1>3, <1>5, PivotSlope
<1>7. /\ Len(s) \in Nat /\ s \in [1..Len(s) -> Candidates(alpha)] /\ k \in 0..Len(s)
      /\ \A w \in Candidates(alpha) : \E n \in 1..Len(s) : s[n] = w
      /\ \A n \in 1..Len(s), l \in 1..Len(s) :
                n < l => Slope(s[n]) * Magnitude(alpha[s[l]]) <= Slope(s[l]) * Magnitude(alpha[s[n]])
  <2> DEFINE violation == Violation(o, Current)
  <2>1. k = Flips(s, alpha, violation) /\ s \in ByRatio(alpha) /\ s # <<>>
    BY DEF FlipCount, Chosen
  <2> HIDE DEF violation, k, o
  <2>2. Len(s) \in Nat /\ s \in [1..Len(s) -> Candidates(alpha)] /\ k \in 0..Len(s)
    BY <2>1, FlipsFit
  <2>3. \A w \in Candidates(alpha) : \E n \in 1..Len(s) : s[n] = w
    BY <2>1, FlipsFit
  <2>4. \A n \in 1..Len(s), l \in 1..Len(s) :
                n < l => Slope(s[n]) * Magnitude(alpha[s[l]]) <= Slope(s[l]) * Magnitude(alpha[s[n]])
    BY <2>1, FlipsFit
  <2> QED BY <2>2, <2>3, <2>4
<1>8. k # Len(s)
  <2>1. Flips(s, alpha, Violation(basis.basic[p], Current)) # Len(s)
    BY <1>1, NotAllFlipped
  <2> QED BY <2>1 DEF FlipCount
<1>9. q = s[k + 1] /\ k + 1 \in 1..Len(s) /\ k \in Nat
  <2>1. q = Entering(s, k)
    BY DEF Enters
  <2> HIDE DEF k, q
  <2> QED BY <1>7, <1>8, <2>1 DEF Entering
<1>10. S = {s[n] : n \in 1..k}
  BY DEF FlippedOnes, FirstOf
<1> HIDE DEF q, S, k, o, g, t, u, hv, status, a, dv
<1>11. CASE v = o
  <2>1. status[v] = Leaving(p) /\ dv = 0 /\ u = -(Side(o) * One)
    BY <1>1, <1>2, <1>4, <1>11 DEF dv, u
  <2>2. One \in Int /\ One > 0
    BY OneAssumption
  <2>3. CASE Below(o, Current)
    <3>1. Side(o) = 1 /\ Leaving(p) = "AtLower"
      BY <2>3 DEF Side, Leaving, o
    <3>2. g * hv = t * One
      BY <1>6, <2>1, <2>2, <3>1
    <3>3. g * hv >= 0
      BY <1>6, <2>2, <3>2, ProductSign
    <3>4. hv >= 0
      BY <1>3, <1>6, <3>3, FactorSign
    <3> QED BY <2>1, <3>1, <3>4 DEF Allows, hv, status
  <2>4. CASE ~Below(o, Current)
    <3>1. Side(o) = -1 /\ Leaving(p) = "AtUpper"
      BY <2>4 DEF Side, Leaving, o
    <3>2. g * hv = -(t * One)
      <4>1. u = One
        BY <2>1, <2>2, <3>1
      <4>2. g * dv = 0
        BY <1>6, <2>1
      <4> QED BY <1>6, <2>2, <4>1, <4>2
    <3>3. t * One >= 0 /\ t * One \in Int
      BY <1>6, <2>2, ProductSign
    <3>4. hv <= 0
      BY <1>3, <1>6, <3>2, <3>3, FactorSign
    <3> QED BY <2>1, <3>1, <3>4 DEF Allows, hv, status
  <2> QED BY <2>3, <2>4
<1>12. CASE v # o /\ v \in S
  <2>1. status[v] = Opposite[basis.status[v]] /\ v \in basis.nonbasic /\ Helps(v, alpha[v])
        /\ basis.status[v] \in {"AtLower", "AtUpper"}
    BY <1>2, <1>12 DEF Candidates
  <2>2. alpha[v] = u /\ Allows(basis.status[v], dv)
    BY <1>2, <1>4, <2>1 DEF u, Signs, dv
  <2>3. PICK n \in 1..k : v = s[n]
    BY <1>10, <1>12
  <2>4. Slope(v) * g <= t * Magnitude(u)
    <3>1. n \in 1..Len(s) /\ n < k + 1
      BY <1>7, <1>9
    <3>2. Slope(s[n]) * Magnitude(alpha[s[k + 1]]) <= Slope(s[k + 1]) * Magnitude(alpha[s[n]])
      BY <1>7, <1>9, <3>1
    <3> QED BY <1>9, <2>2, <2>3, <3>2 DEF g, t, a
  <2>5. Allows(Opposite[basis.status[v]], hv)
    BY <1>3, <1>6, <2>1, <2>2, <2>4, FlippedAllowed DEF dv
  <2> QED BY <2>1, <2>5 DEF hv, status
<1>13. CASE v # o /\ v \notin S
  <2>1. status[v] = basis.status[v] /\ v # q /\ v \in basis.nonbasic
    BY <1>2, <1>13 DEF Partition
  <2>2. alpha[v] = u /\ Allows(basis.status[v], dv)
    BY <1>2, <1>4, <2>1 DEF u, Signs, dv
  <2>3. ASSUME Helps(v, u)
        PROVE  t * Magnitude(u) <= Slope(v) * g
    <3>1. PICK n \in 1..Len(s) : s[n] = v
      BY <1>7, <2>1, <2>2, <2>3 DEF Candidates
    <3>2. n \notin 1..k /\ n # k + 1
      BY <1>9, <1>10, <1>13, <2>1, <3>1
    <3>3. k + 1 < n
      BY <1>9, <3>2
    <3>4. Slope(s[k + 1]) * Magnitude(alpha[s[n]]) <= Slope(s[n]) * Magnitude(alpha[s[k + 1]])
      BY <1>7, <1>9, <3>3
    <3> QED BY <1>9, <2>2, <3>1, <3>4 DEF g, t, a
  <2>4. Allows(basis.status[v], hv)
    BY <1>3, <1>6, <2>2, <2>3, StaysAllowed DEF dv
  <2> QED BY <2>1, <2>4 DEF hv, status
<1> QED BY <1>11, <1>12, <1>13 DEF hv, status

-----------------------------------------------------------------------------
(* The signs of the reduced costs, from the start through every pivot.     *)

HasSolution == \E r \in [Cols -> Int] : FeasiblePoint(r)
\* A given basis in which no free column is left out.
NoFreeGiven == initial # NoBasis /\ IsValid(initial) => \A v \in Vars : initial.status[v] # "Free"
DualSigned == pc = "dual" /\ ~FreeColumnsCost /\ ~SlacksShifted /\ HasSolution => Signs

LEMMA ShiftedColumns ==
    ASSUME IsProgram(lp), NEW s \in [Vars -> Int], \A i \in Rows : s[Slack(i)] = 0,
           NEW w, w = [v \in Vars |-> Costs[v] + s[v]]
    PROVE  ColumnCosts(w)
<1> SUFFICES ASSUME NEW v \in Vars, ~IsCol(v)
             PROVE  w[v] = 0
  BY DEF ColumnCosts
<1>1. v - lp.n \in Rows /\ Slack(v - lp.n) = v
  BY Shape DEF Slack, Vars
<1>2. s[v] = 0 /\ Costs[v] = 0
  BY <1>1, CostsWhole
<1> QED BY <1>2

LEMMA ZeroDot ==
    ASSUME IsProgram(lp), NEW z \in [Rows -> Int], \A i \in Rows : z[i] = 0, NEW v \in Vars
    PROVE  Dot(Column(v), z) = 0
<1>1. Combines(z, z, z, 1, 0, 0, Rows)
  BY DEF Combines
<1>2. Dot(Column(v), z) = (0 * Dot(Column(v), z)) + (0 * Dot(Column(v), z))
  BY <1>1, DotCombines
<1>3. Dot(Column(v), z) \in Int
  BY DotIsSum
<1> QED BY <1>2, <1>3

\* A shift makes a wrong sign right.
LEMMA ShiftAllows ==
    ASSUME NEW status, NEW R \in Int, NEW s, s = IF WrongSign(status, R) THEN -R ELSE 0,
           status = "Free" => R = 0
    PROVE  Allows(status, R + s)
<1>1. CASE WrongSign(status, R)
  <2>1. R + s = 0
    BY <1>1
  <2> QED BY <2>1 DEF Allows
<1>2. CASE ~WrongSign(status, R)
  <2>1. R + s = R
    BY <1>2
  <2> QED BY <1>2, <2>1 DEF Allows, WrongSign
<1> QED BY <1>1, <1>2

LEMMA SignsBegin ==
    ASSUME Strong, Begin, pc' = "dual", Strong', Standing', NoFreeGiven, ~FreeColumnsCost, ~SlacksShifted'
    PROVE  Signs'
<1> DEFINE b == StartBasis
           f == Factorized(fact, BasisMatrix(b.basic))
           y0 == DualValues(b, f, c)
           R == ReducedCosts(b, c, y0)
           s == Shifts(b, R)
           costs == [v \in Vars |-> c[v] + s[v]]
           z == y'
           h == d'
<1>1. /\ pc = "start" /\ lp.m # 0 /\ basis' = b /\ UNCHANGED args
      /\ c' = costs /\ shift' = s /\ z = DualValues(b, f, costs) /\ h = ReducedCosts(b, costs, z)
  BY DEF Begin
<1>2. IsProgram(lp) /\ RightStart /\ c = Costs /\ Costs \in [Vars -> Int]
  BY <1>1, CostsWhole DEF Strong, WorkConsistent, TypeOK
<1>3. Partition(b) /\ StatusesFit(b)
  BY <1>2, SlackBasisFits DEF StartBasis, RightStart
<1>4. lp' = lp /\ Vars' = Vars /\ Rows' = Rows
  BY <1>1 DEF args, Vars, Rows
<1>5. s \in [Vars -> Int]
  <2>1. Working'
    BY DEF Working
  <2>2. (shift \in [Vars -> Int])'
    BY <2>1 DEF Strong, WorkConsistent
  <2> QED BY <1>1, <1>4, <2>2
<1>6. \A i \in Rows : s[Slack(i)] = 0
  <2>1. \A i \in Rows : shift'[Slack(i)] = 0
    BY <1>4 DEF SlacksShifted, Slack
  <2> QED BY <1>1, <2>1
<1>7. Describes(Current', b, costs, z, h, BasicObjective')
  <2>1. Describes(Current', basis', c', y', d', BasicObjective')
    BY <1>1, StandingThen
  <2> QED BY <1>1, <2>1
<1>8. ColumnCosts(costs)
  <2> HIDE DEF s
  <2> QED BY <1>2, <1>5, <1>6, ShiftedColumns
<1>9. /\ z \in [Rows -> Int] /\ \A i \in Rows : Dot(Column(b.basic[i]), z) = costs[b.basic[i]]
      /\ h \in [Vars -> Int] /\ \A v \in Vars : h[v] = costs[v] - Dot(Column(v), z)
  <2> HIDE DEF costs, z, h
  <2> QED BY <1>7, <1>8 DEF Describes
<1>10. \A i \in Rows : s[b.basic[i]] = 0 /\ b.basic[i] \in Vars /\ costs[b.basic[i]] = c[b.basic[i]]
  <2>1. \A i \in Rows : s[b.basic[i]] = 0 /\ b.basic[i] \in Vars
    BY <1>3 DEF Shifts, Partition, IsValid
  <2> HIDE DEF s, b
  <2> QED BY <1>2, <2>1
<1>11. z = y0
  <2> HIDE DEF costs, z, b, f
  <2> QED BY <1>1, <1>10 DEF DualValues
<1> HIDE DEF y0, z, h
<1>12. \A v \in Vars : costs[v] = c[v] + s[v] /\ c[v] \in Int /\ s[v] \in Int
  <2> HIDE DEF s
  <2> QED BY <1>2, <1>5
<1>13. \A v \in b.nonbasic : s[v] = IF WrongSign(b.status[v], R[v]) THEN -R[v] ELSE 0
  <2>1. \A v \in b.nonbasic : v \in Vars
    BY <1>3 DEF Partition
  <2> QED BY <2>1 DEF Shifts
<1> HIDE DEF costs, s, R
<1>14. ASSUME NEW v \in b.nonbasic
       PROVE  v \in Vars /\ R[v] = c[v] - Dot(Column(v), z) /\ R[v] \in Int
  <2>1. v \in Vars /\ b.status[v] # "Basic"
    BY <1>3 DEF Partition
  <2>2. R[v] = IF IsCol(v) THEN c[v] - Dot(Column(v), z) ELSE z[v - lp.n]
    BY <1>11, <2>1 DEF R, ReducedCosts
  <2>3. Dot(Column(v), z) \in Int /\ c[v] \in Int
    BY <1>2, <1>9, <1>12, <2>1, DotIsSum
  <2>4. ASSUME ~IsCol(v)
        PROVE  Dot(Column(v), z) = -z[v - lp.n] /\ c[v] = 0 /\ z[v - lp.n] \in Int
    BY <1>2, <1>9, <2>1, <2>4, SlackDot, CostsWhole, Shape
  <2> QED BY <2>1, <2>2, <2>3, <2>4
<1>15. ASSUME NEW v \in b.nonbasic, b.status[v] = "Free"
       PROVE  R[v] = 0
  <2>1. b = SlackBasis
    BY <1>3, <1>14, <1>15 DEF StartBasis, NoFreeGiven
  <2>2. v \in Cols /\ b.status[v] = RestAt(v)
    BY <1>2, <1>14, <2>1, Shape DEF SlackBasis
  <2>3. ~Finite(lp.lo[v]) /\ ~Finite(lp.up[v])
    <3>1. ~Finite(Low(v)) /\ ~Finite(Up(v))
      BY <1>15, <2>2 DEF RestAt
    <3> QED BY <1>2, <2>2, <3>1, Shape DEF Low, Up
  <2>4. c[v] = 0
    BY <1>2, <2>2, <2>3, CostsWhole DEF FreeColumnsCost
  <2>5. \A i \in Rows : z[i] = 0
    <3> SUFFICES ASSUME NEW i \in Rows
                 PROVE  z[i] = 0
      OBVIOUS
    <3>1. b.basic[i] = Slack(i)
      BY <2>1 DEF SlackBasis
    <3>2. Slack(i) \in Vars /\ ~IsCol(Slack(i)) /\ Slack(i) - lp.n = i
      BY <1>2, Shape
    <3>3. Dot(Column(Slack(i)), z) = 0
      BY <1>2, <1>9, <1>10, <3>1, <3>2, CostsWhole
    <3>4. Dot(Column(Slack(i)), z) = -z[i] /\ z[i] \in Int
      BY <1>2, <1>9, <3>2, SlackDot
    <3> QED BY <3>3, <3>4
  <2>6. Dot(Column(v), z) = 0
    BY <1>2, <1>9, <1>14, <1>15, <2>5, ZeroDot
  <2> QED BY <1>14, <1>15, <2>4, <2>6
<1>16. ASSUME NEW v \in b.nonbasic
       PROVE  Allows(b.status[v], h[v])
  <2>1. h[v] = R[v] + s[v]
    <3>1. Dot(Column(v), z) \in Int
      BY <1>2, <1>9, <1>14, DotIsSum
    <3> QED BY <1>9, <1>12, <1>14, <3>1
  <2>2. Allows(b.status[v], R[v] + s[v])
    BY <1>13, <1>14, <1>15, ShiftAllows
  <2> QED BY <2>1, <2>2
<1> HIDE DEF b
<1> QED BY <1>1, <1>16 DEF Signs, Allows, h

LEMMA AtDual ==
    ASSUME Strong, pc = "dual", ~SlacksShifted
    PROVE  Working /\ IsProgram(lp) /\ Partition(basis) /\ StatusesFit(basis) /\ ColumnCosts(c)
<1>1. Working
  BY DEF Working
<1>2. /\ IsProgram(lp) /\ Partition(basis) /\ StatusesFit(basis)
      /\ shift \in [Vars -> Int] /\ c = [v \in Vars |-> Costs[v] + shift[v]]
  BY <1>1, AtWork
<1>3. \A i \in Rows : shift[Slack(i)] = 0
  BY DEF SlacksShifted
<1>4. ColumnCosts(c)
  BY <1>2, <1>3, ShiftedColumns
<1> QED BY <1>1, <1>2, <1>4

LEMMA SignsPivot ==
    ASSUME Strong, SolvesRight, Standing, Standing', DualPivot, pc' = "dual", Signs, ~SlacksShifted, HasSolution
    PROVE  Signs'
<1>1. pc = "dual" /\ UNCHANGED args /\ c' = c
  BY DEF DualPivot
<1>2. IsProgram(lp) /\ Partition(basis) /\ StatusesFit(basis) /\ ColumnCosts(c)
  BY <1>1, AtDual
<1>3. PICK r \in [Cols -> Int] : FeasiblePoint(r)
  BY DEF HasSolution
<1>4. \E p, pi, alpha, s : Chosen(p, pi, alpha, s) /\ basis' = After(p, alpha, s)
  BY DualPivotMade
<1>5. PICK p, pi, alpha, s : Chosen(p, pi, alpha, s) /\ basis' = After(p, alpha, s)
  BY <1>4
<1> DEFINE X == Current'
           z == y'
           h == d'
           obj == BasicObjective'
<1>6. Describes(X, After(p, alpha, s), c, z, h, obj)
  <2>1. Describes(Current', basis', c', y', d', BasicObjective')
    BY <1>1, StandingThen
  <2> QED BY <1>1, <1>5, <2>1
<1> HIDE DEF X, z, h, obj
<1>7. \A v \in After(p, alpha, s).nonbasic : Allows(After(p, alpha, s).status[v], h[v])
  BY <1>2, <1>3, <1>5, <1>6, SignsMove
<1> QED BY <1>5, <1>7 DEF Signs, Allows, h

LEMMA SameModel ==
    ASSUME UNCHANGED args
    PROVE  /\ lp' = lp /\ FreeColumnsCost' = FreeColumnsCost /\ HasSolution' = HasSolution /\ NoFreeGiven' = NoFreeGiven
           /\ shift' = shift => SlacksShifted' = SlacksShifted
<1>1. lp' = lp /\ initial' = initial
  BY DEF args
<1>2. FreeColumnsCost' = FreeColumnsCost
  BY <1>1 DEF FreeColumnsCost, Cols
<1>3. HasSolution' = HasSolution
  <2>1. \A r, q : Activity(r, q)' = Activity(r, q)
    BY <1>1 DEF Activity, Total, Cols
  <2>2. \A q : FeasiblePoint(q)' = FeasiblePoint(q)
    BY <1>1, <2>1 DEF FeasiblePoint, Cols, Rows
  <2> QED BY <1>1, <2>2 DEF HasSolution, Cols
<1>4. NoFreeGiven' = NoFreeGiven
  BY <1>1 DEF NoFreeGiven, IsValid, NoBasis, Rows, Vars
<1>5. shift' = shift => SlacksShifted' = SlacksShifted
  BY <1>1 DEF SlacksShifted, Rows, Slack
<1> QED BY <1>1, <1>2, <1>3, <1>4, <1>5

LEMMA SignsStep ==
    ASSUME Strong, Strong', SolvesRight, Working => Standing, (Working => Standing)', NoFreeGiven, DualSigned, [Next]_vars
    PROVE  DualSigned' /\ NoFreeGiven'
<1>1. UNCHANGED args
  BY DEF Next, NoRows, NoColumns, Begin, PrimalFeasible, OutOfTime, DualPivot, DualUnbounded, RestoreCosts,
         CleanupEnds, PrimalPivot, PrimalFlip, PrimalUnbounded, Assemble, vars, args
<1>2. NoFreeGiven' /\ lp' = lp /\ FreeColumnsCost' = FreeColumnsCost /\ HasSolution' = HasSolution
  BY <1>1, SameModel
<1> SUFFICES ASSUME pc' = "dual", ~FreeColumnsCost', ~SlacksShifted', HasSolution'
             PROVE  Signs'
  BY <1>2 DEF DualSigned
<1>3. Standing'
  BY DEF Working
<1>4. CASE Begin
  BY <1>2, <1>3, <1>4, SignsBegin
<1>5. CASE DualPivot
  <2>1. pc = "dual" /\ shift' = shift
    BY <1>5 DEF DualPivot
  <2>2. ~SlacksShifted /\ Standing /\ Signs
    <3>1. ~SlacksShifted
      BY <1>1, <2>1, SameModel
    <3> QED BY <1>2, <2>1, <3>1 DEF DualSigned, Working
  <2> QED BY <1>2, <1>3, <1>5, <2>2, SignsPivot
<1>6. CASE UNCHANGED vars
  <2>1. pc' = pc /\ shift' = shift /\ basis' = basis /\ d' = d
    BY <1>6 DEF vars
  <2>2. Signs
    <3>1. ~SlacksShifted
      BY <1>1, <2>1, SameModel
    <3> QED BY <1>2, <2>1, <3>1 DEF DualSigned
  <2> QED BY <2>1, <2>2 DEF Signs, Allows
<1>7. CASE ~Begin /\ ~DualPivot /\ Next
  <2>1. pc' # "dual"
    BY <1>7 DEF Next, NoRows, NoColumns, PrimalFeasible, OutOfTime, DualUnbounded, RestoreCosts,
         CleanupEnds, PrimalPivot, PrimalFlip, PrimalUnbounded, Assemble, CleaningUp
  <2> QED BY <2>1
<1> QED BY <1>4, <1>5, <1>6, <1>7

LEMMA AlwaysStands == WarmSpec /\ []SolvesRight => [](Working => Standing)
<1>1. Strong /\ SolvesRight => (Working => Standing)
  BY StandsAtWork
<1> QED BY <1>1, AlwaysStrong, PTL

LEMMA AlwaysSigned == WarmSpec /\ NoFreeGiven /\ []SolvesRight => []DualSigned
<1>1. WarmInit => DualSigned
  BY DEF WarmInit, Start, DualSigned
<1>2. Strong /\ Strong' /\ SolvesRight /\ (Working => Standing) /\ (Working => Standing)' /\ NoFreeGiven /\ DualSigned
        /\ [Next]_vars => DualSigned' /\ NoFreeGiven'
  BY SignsStep
<1> QED BY <1>1, <1>2, AlwaysStrong, AlwaysStands, PTL DEF WarmSpec

\* Where a point of the grid is feasible the model has a solution.
LEMMA GridSolves ==
    ASSUME Grid # {}
    PROVE  HasSolution
<1>1. Halves \subseteq Int
  BY OneAssumption DEF Halves
<1>2. UNION {GridSide(j) : j \in Cols} \subseteq Int
  BY <1>1 DEF GridSide
<1> QED BY <1>2 DEF Grid, HasSolution

LEMMA ColdGivesNothing == Spec => NoFreeGiven
<1>1. Init => NoFreeGiven
  BY DEF Init, NoFreeGiven
<1> QED BY <1>1, PTL DEF Spec

\* solve(), lines 216 to 470: cold or from a basis that leaves no free column out, the
\* dual iterations keep the shifted problem dual feasible through every pivot, every
\* number of flips and every refactorization, in any model that has a solution whose
\* entries are whole units.
THEOREM SignsStand == (Spec \/ WarmSpec) /\ NoFreeGiven /\ []SolvesRight => []DualSigned
BY AlwaysSigned, ColdIsWarm, PTL

\* The same as the run states it.
THEOREM DualFeasibilityStands == (Spec \/ (WarmSpec /\ NoFreeGiven)) /\ []SolvesRight => []DualFeasibleKept
<1>1. Strong /\ (Working => Standing) /\ DualSigned => DualFeasibleKept
  <2> SUFFICES ASSUME Strong, Working => Standing, DualSigned, pc = "dual", ~FreeColumnsCost, ~SlacksShifted, Grid # {}, NEW v \in basis.nonbasic
               PROVE  ~WrongSign(basis.status[v], d[v]) /\ (basis.status[v] = "Free" => d[v] = 0)
    BY DEF DualFeasibleKept
  <2>1. Allows(basis.status[v], d[v])
    BY GridSolves DEF DualSigned, Signs
  <2>2. Standing /\ ColumnCosts(c) /\ v \in Vars
    BY AtDual DEF Partition
  <2>3. d[v] \in Int
    BY <2>2 DEF Standing, Describes
  <2> QED BY <2>1, <2>3 DEF Allows, WrongSign
<1> QED BY <1>1, AlwaysStrong, AlwaysStands, AlwaysSigned, ColdIsWarm, ColdGivesNothing, PTL

-----------------------------------------------------------------------------
(* The objective value, from one dual iteration to the next.               *)

LEMMA MovedValue ==
    ASSUME NEW g \in Int, NEW u \in Int, NEW z \in Int, NEW w \in Int, NEW e \in Int, w - z = e
    PROVE  g * ((u * w) - (u * z)) = (g * u) * e
<1>1. (u * w) - (u * z) = u * (w - z)
  OBVIOUS
<1>2. g * (u * e) = (g * u) * e
  OBVIOUS
<1> QED BY <1>1, <1>2

\* What the leaving variable gains ...
LEMMA LeavingGains ==
    ASSUME NEW g \in Int, NEW u \in Int, NEW t \in Int, NEW m \in Int, NEW k \in Int, k = 1 \/ k = -1,
           NEW n \in Int, NEW z \in Int, NEW w \in Int,
           g * u = t * (k * m), w - z = k * n
    PROVE  t * (m * n) = g * ((u * w) - (u * z))
<1>1. k * n \in Int
  OBVIOUS
<1>2. g * ((u * w) - (u * z)) = (g * u) * (k * n)
  BY <1>1, MovedValue
<1>3. CASE k = 1
  <2>1. g * u = t * m /\ k * n = n
    BY <1>3
  <2>2. (t * m) * n = t * (m * n)
    OBVIOUS
  <2> QED BY <1>2, <2>1, <2>2
<1>4. CASE k = -1
  <2>1. g * u = -(t * m) /\ k * n = -n
    BY <1>4
  <2>2. (-(t * m)) * (-n) = t * (m * n)
    OBVIOUS
  <2> QED BY <1>2, <2>1, <2>2
<1> QED BY <1>3, <1>4

\* ... is at least what a flip loses.
LEMMA FlipLoses ==
    ASSUME NEW g \in Int, g > 0, NEW t \in Int, t >= 0, NEW hv \in Int, NEW dv \in Int, NEW u \in Int,
           g * hv = (g * dv) - (t * u), NEW R \in Int, R >= 0, NEW z \in Int, NEW w \in Int,
           \/ dv >= 0 /\ u >= 0 /\ w - z = R
           \/ dv <= 0 /\ u <= 0 /\ w - z = -R
    PROVE  t * (-(Magnitude(u) * R)) <= g * ((hv * w) - (hv * z))
<1>1. CASE dv >= 0 /\ u >= 0 /\ w - z = R
  <2>1. g * ((hv * w) - (hv * z)) = (g * hv) * R
    BY <1>1, MovedValue
  <2>2. ((g * dv) - (t * u)) * R = ((g * dv) * R) - (t * (u * R))
    OBVIOUS
  <2>3. g * dv \in Int /\ g * dv >= 0
    BY <1>1, ProductSign
  <2>4. (g * dv) * R >= 0 /\ (g * dv) * R \in Int
    BY <2>3, ProductSign
  <2>5. Magnitude(u) = u
    BY <1>1 DEF Magnitude
  <2>6. t * (-(u * R)) = -(t * (u * R)) /\ t * (u * R) \in Int
    OBVIOUS
  <2> QED BY <2>1, <2>2, <2>4, <2>5, <2>6
<1>2. CASE dv <= 0 /\ u <= 0 /\ w - z = -R
  <2>1. g * ((hv * w) - (hv * z)) = (g * hv) * (-R)
    BY <1>2, MovedValue
  <2>2. ((g * dv) - (t * u)) * (-R) = ((g * (-dv)) * R) - (t * ((-u) * R))
    OBVIOUS
  <2>3. g * (-dv) \in Int /\ g * (-dv) >= 0
    <3>1. -dv \in Int /\ -dv >= 0
      BY <1>2
    <3> QED BY <3>1, ProductSign
  <2>4. (g * (-dv)) * R >= 0 /\ (g * (-dv)) * R \in Int
    BY <2>3, ProductSign
  <2>5. Magnitude(u) = -u
    BY <1>2 DEF Magnitude
  <2>6. t * (-((-u) * R)) = -(t * ((-u) * R)) /\ t * ((-u) * R) \in Int
    OBVIOUS
  <2> QED BY <2>1, <2>2, <2>4, <2>5, <2>6
<1> QED BY <1>1, <1>2

\* Sums whose terms, multiplied, are no less than those of a positive balance.
LEMMA GainsAddUp ==
    ASSUME NEW S, IsFiniteSet(S), NEW f, IntegerOn(f, S), NEW e, IntegerOn(e, S), NEW B, IntegerOn(B, S),
           NEW g \in Int, g > 0, NEW t \in Int, t >= 0, Sum(B, S) >= 0,
           \A v \in S : t * B[v] <= g * (f[v] - e[v])
    PROVE  Sum(e, S) <= Sum(f, S)
<1> DEFINE w == [v \in S |-> f[v] - e[v]]
           m == [v \in S |-> t * B[v]]
           n == [v \in S |-> g * w[v]]
<1>1. \A v \in S : f[v] \in Int /\ e[v] \in Int /\ B[v] \in Int
  BY DEF IntegerOn
<1>2. \A v \in S : w[v] = f[v] - e[v] /\ w[v] \in Int
  BY <1>1
<1>3. \A v \in S : m[v] = t * B[v] /\ m[v] \in Int
  BY <1>1
<1> HIDE DEF w, m
<1>4. \A v \in S : n[v] = g * w[v] /\ n[v] \in Int
  BY <1>2
<1> HIDE DEF n
<1>5. IntegerOn(w, S) /\ IntegerOn(m, S) /\ IntegerOn(n, S)
  BY <1>2, <1>3, <1>4 DEF IntegerOn
<1>6. \A v \in S : m[v] <= n[v]
  BY <1>2, <1>3, <1>4
<1>7. Sum(m, S) <= Sum(n, S)
  BY <1>5, <1>6, SumAtMost
<1>8. Sum(m, S) = t * Sum(B, S)
  <2>1. \A v \in S : 1 * m[v] = t * B[v]
    BY <1>3
  <2>2. 1 * Sum(m, S) = t * Sum(B, S)
    BY <1>5, <2>1, SumScaled
  <2> QED BY <1>5, <2>2, SumInteger
<1>9. Sum(n, S) = g * Sum(w, S)
  <2>1. \A v \in S : 1 * n[v] = g * w[v]
    BY <1>4
  <2>2. 1 * Sum(n, S) = g * Sum(w, S)
    BY <1>5, <2>1, SumScaled
  <2> QED BY <1>5, <2>2, SumInteger
<1>10. 1 * Sum(w, S) = (1 * Sum(f, S)) + ((-1) * Sum(e, S))
  <2>1. Combines(w, f, e, 1, 1, -1, S)
    <3> SUFFICES ASSUME NEW v \in S
                 PROVE  1 * w[v] = (1 * f[v]) + ((-1) * e[v])
      BY DEF Combines
    <3> QED BY <1>1, <1>2
  <2> QED BY <1>5, <2>1, SumCombines
<1>11. Sum(f, S) \in Int /\ Sum(e, S) \in Int /\ Sum(B, S) \in Int /\ Sum(w, S) \in Int
  BY <1>5, SumInteger
<1>12. t * Sum(B, S) >= 0
  BY <1>11, ProductSign
<1>13. g * Sum(w, S) >= 0
  <2>1. t * Sum(B, S) \in Int /\ g * Sum(w, S) \in Int
    BY <1>11, ProductSign
  <2> QED BY <1>7, <1>8, <1>9, <1>12, <2>1
<1>14. Sum(w, S) >= 0
  BY <1>11, <1>13, FactorSign
<1> QED BY <1>10, <1>11, <1>14

\* Every variable's part in the change of the objective value.
LEMMA TermGains ==
    ASSUME IsProgram(lp), Partition(basis), StatusesFit(basis), Standing, ColumnCosts(c), Signs,
           \A w \in Vars : Low(w) <= Up(w),
           NEW p, NEW pi, NEW alpha, NEW s, Chosen(p, pi, alpha, s),
           NEW X, NEW z, NEW h, NEW obj, Describes(X, After(p, alpha, s), c, z, h, obj),
           NEW v \in Vars
    PROVE  Slope(Enters(p, alpha, s))
             * Balance(FlippedOnes(p, alpha, s), alpha, basis.basic[p], Violation(basis.basic[p], Current))[v]
             <= Magnitude(alpha[Enters(p, alpha, s)]) * ((h[v] * X[v]) - (h[v] * Current[v]))
<1> DEFINE q == Enters(p, alpha, s)
           S == FlippedOnes(p, alpha, s)
           o == basis.basic[p]
           b == After(p, alpha, s)
           a == alpha[q]
           g == Magnitude(a)
           t == Slope(q)
           u == Dot(Column(v), pi)
           n == Violation(o, Current)
           B == Balance(S, alpha, o, n)
           hv == h[v]
           dv == d[v]
           xv == X[v]
           cv == Current[v]
<1>1. /\ Kernel(Current) /\ Current \in [Vars -> Int]
      /\ \A w \in basis.nonbasic : Current[w] = RestingValue(basis, w)
      /\ \A w \in Vars : basis.status[w] = "Basic" => d[w] = 0
  BY DEF Standing, Describes, Kernel
<1>2. /\ Kernel(X) /\ X \in [Vars -> Int]
      /\ \A w \in b.nonbasic : X[w] = RestingValue(b, w)
      /\ \A w \in Vars : b.status[w] = "Basic" => h[w] = 0
  BY DEF Describes, Kernel
<1>3. /\ q \in Candidates(alpha)
      /\ \A w \in Vars : b.status[w] = IF w = q THEN "Basic" ELSE IF w = o THEN Leaving(p)
                                       ELSE IF w \in S THEN Opposite[basis.status[w]] ELSE basis.status[w]
      /\ \A w \in S : w \in Candidates(alpha) /\ basis.status[w] \in {"AtLower", "AtUpper"}
      /\ b.nonbasic = {w \in Vars : b.status[w] # "Basic"}
  BY <1>1, AfterPivot
<1>4. /\ dv \in Int /\ hv \in Int /\ u \in Int /\ a \in Int /\ d[q] \in Int
      /\ a * hv = (a * dv) - (d[q] * u)
  BY DualsMove
<1>5. /\ o \in Vars /\ o \notin basis.nonbasic /\ basis.status[o] = "Basic"
      /\ Priced(pi)[o] = -(Side(o) * One) /\ \A w \in Vars : Priced(pi)[w] = Dot(Column(w), pi)
      /\ \A w \in basis.nonbasic : alpha[w] = Priced(pi)[w] /\ alpha[w] \in Int
      /\ n \in Int
  BY <1>1, ChosenRow
<1>6. Helps(q, a) /\ q \in basis.nonbasic /\ Allows(basis.status[q], d[q])
  BY <1>3 DEF Candidates, Signs
<1>7. g \in Int /\ g > 0 /\ t \in Int /\ t >= 0 /\ g * hv = (g * dv) - (t * u)
  <2> HIDE DEF a, hv, dv, u
  <2> QED BY <1>4, <1>6, PivotSlope
<1>8. B[v] = IF v = o THEN One * n ELSE IF v \in S THEN -Relief(v, alpha) ELSE 0
  BY DEF Balance
<1>9. xv \in Int /\ cv \in Int /\ One \in Int /\ Low(v) \in Int /\ Up(v) \in Int /\ Low(v) <= Up(v)
  BY <1>1, <1>2, Bounds, OneAssumption
<1>10. (Below(o, Current) \/ Above(o, Current))
  BY DEF Chosen
<1> HIDE DEF q, S, o, b, g, t, u, n, hv, dv, a, B, xv, cv
<1>11. CASE v = o
  <2>1. v # q /\ v \notin S
    BY <1>3, <1>5, <1>6, <1>11 DEF Candidates
  <2>2. b.status[v] = Leaving(p) /\ dv = 0 /\ u = -(Side(o) * One)
    BY <1>1, <1>3, <1>5, <1>11, <2>1 DEF dv, u
  <2>3. b.status[v] # "Basic"
    BY <2>2 DEF Leaving
  <2>4. xv = RestingValue(b, v)
    BY <1>2, <1>3, <2>3 DEF xv
  <2>5. (Side(o) = 1 \/ Side(o) = -1) /\ xv - cv = Side(o) * n
    <3>1. CASE Below(o, Current)
      <4>1. b.status[v] = "AtLower" /\ Side(o) = 1
        BY <2>2, <3>1 DEF Leaving, Side, o
      <4>2. xv = Low(v)
        BY <2>4, <4>1 DEF RestingValue
      <4>3. n = Low(v) - cv
        BY <1>11, <3>1 DEF n, Violation, cv
      <4> QED BY <1>5, <1>9, <4>1, <4>2, <4>3
    <3>2. CASE ~Below(o, Current)
      <4>1. b.status[v] = "AtUpper" /\ Side(o) = -1
        BY <2>2, <3>2 DEF Leaving, Side, o
      <4>2. xv = Up(v)
        BY <2>4, <4>1 DEF RestingValue
      <4>3. n = cv - Up(v)
        BY <1>11, <3>2 DEF n, Violation, cv
      <4> QED BY <1>5, <1>9, <4>1, <4>2, <4>3
    <3> QED BY <3>1, <3>2
  <2>6. g * hv = t * (Side(o) * One)
    <3>1. g * dv = 0
      BY <1>7, <2>2
    <3>2. Side(o) * One \in Int
      BY <1>9, <2>5
    <3> DEFINE k == Side(o) * One
    <3>3. k \in Int /\ u = -k
      BY <2>2, <3>2
    <3> HIDE DEF k
    <3>4. g * hv = t * k
      BY <1>7, <3>1, <3>3
    <3> QED BY <3>4 DEF k
  <2>7. t * (One * n) = g * ((hv * xv) - (hv * cv))
    <3> DEFINE k == Side(o)
    <3>1. (k = 1 \/ k = -1) /\ k \in Int /\ xv - cv = k * n /\ g * hv = t * (k * One)
      BY <2>5, <2>6
    <3> HIDE DEF k
    <3> QED BY <1>4, <1>5, <1>7, <1>9, <3>1, LeavingGains
  <2>8. B[v] = One * n
    BY <1>8, <1>11
  <2>9. t * B[v] <= g * ((hv * xv) - (hv * cv))
    <3>1. t * (One * n) \in Int
      BY <1>5, <1>7, <1>9
    <3> QED BY <2>7, <2>8, <3>1
  <2> QED BY <2>9 DEF q, S, o, g, t, n, hv, a, B, xv, cv
<1>12. CASE v # o /\ v \in S /\ v # q
  <2>1. b.status[v] = Opposite[basis.status[v]] /\ v \in basis.nonbasic /\ Helps(v, alpha[v])
        /\ basis.status[v] \in {"AtLower", "AtUpper"}
    BY <1>3, <1>12 DEF Candidates
  <2>2. alpha[v] = u /\ Allows(basis.status[v], dv)
    BY <1>5, <2>1 DEF u, Signs, dv
  <2>3. cv = RestingValue(basis, v)
    BY <1>1, <2>1 DEF cv
  <2>4. b.status[v] # "Basic" /\ xv = RestingValue(b, v)
    <3>1. b.status[v] # "Basic"
      BY <2>1 DEF Opposite
    <3> QED BY <1>2, <1>3, <3>1 DEF xv
  <2> DEFINE R == Up(v) - Low(v)
  <2>5. R \in Int /\ R >= 0
    BY <1>9
  <2>6. \/ dv >= 0 /\ u >= 0 /\ xv - cv = R
        \/ dv <= 0 /\ u <= 0 /\ xv - cv = -R
    <3>1. CASE basis.status[v] = "AtLower"
      <4>1. xv = Up(v) /\ cv = Low(v)
        BY <2>1, <2>3, <2>4, <3>1 DEF RestingValue, Opposite
      <4>2. dv >= 0 /\ u > 0
        BY <2>1, <2>2, <3>1 DEF Allows, Helps
      <4> QED BY <1>4, <1>9, <4>1, <4>2
    <3>2. CASE basis.status[v] = "AtUpper"
      <4>1. xv = Low(v) /\ cv = Up(v)
        BY <2>1, <2>3, <2>4, <3>2 DEF RestingValue, Opposite
      <4>2. dv <= 0 /\ u < 0
        BY <2>1, <2>2, <3>2 DEF Allows, Helps
      <4> QED BY <1>4, <1>9, <4>1, <4>2
    <3> QED BY <2>1, <3>1, <3>2
  <2>7. B[v] = -(Magnitude(u) * R)
    BY <1>8, <1>12, <2>2 DEF Relief
  <2> HIDE DEF R
  <2>8. t * B[v] <= g * ((hv * xv) - (hv * cv))
    BY <1>4, <1>7, <1>9, <2>5, <2>6, <2>7, FlipLoses
  <2> QED BY <2>8 DEF q, S, o, g, t, n, hv, a, B, xv, cv
<1>13. CASE v # o /\ (v \notin S \/ v = q)
  <2>1. (hv * xv) - (hv * cv) = 0
    <3>1. CASE b.status[v] = "Basic"
      <4>1. hv = 0
        BY <1>2, <3>1 DEF hv
      <4> QED BY <1>9, <4>1
    <3>2. CASE b.status[v] # "Basic"
      <4>1. v # q /\ v \notin S /\ b.status[v] = basis.status[v]
        BY <1>3, <1>13, <3>2
      <4>2. v \in basis.nonbasic /\ v \in b.nonbasic
        BY <1>3, <3>2, <4>1 DEF Partition
      <4>3. xv = cv
        BY <1>1, <1>2, <4>1, <4>2 DEF RestingValue, xv, cv
      <4> QED BY <1>4, <1>9, <4>3
    <3> QED BY <3>1, <3>2
  <2>2. B[v] = 0 \/ (v \in S /\ v = q)
    BY <1>8, <1>13
  <2>3. t * B[v] <= 0
    <3>1. CASE B[v] = 0
      BY <1>7, <3>1
    <3>2. CASE v \in S /\ v = q
      <4>1. u \in Int /\ B[v] = -Relief(v, alpha) /\ alpha[v] \in Int
        BY <1>4, <1>5, <1>6, <1>8, <1>13, <3>2
      <4>2. Magnitude(alpha[v]) \in Int /\ Magnitude(alpha[v]) >= 0 /\ Up(v) - Low(v) >= 0 /\ Up(v) - Low(v) \in Int
        BY <1>9, <4>1 DEF Magnitude
      <4>3. Relief(v, alpha) >= 0 /\ Relief(v, alpha) \in Int
        BY <4>2, ProductSign DEF Relief
      <4>4. B[v] <= 0 /\ B[v] \in Int
        BY <4>1, <4>3
      <4> QED BY <1>7, <4>4, ProductSign
    <3> QED BY <2>2, <3>1, <3>2
  <2>4. g * 0 = 0
    BY <1>7
  <2>5. t * B[v] <= g * ((hv * xv) - (hv * cv))
    BY <2>1, <2>3, <2>4
  <2> QED BY <2>5 DEF q, S, o, g, t, n, hv, a, B, xv, cv
<1> QED BY <1>11, <1>12, <1>13

LEMMA SlopeSign ==
    ASSUME NEW q, d[q] \in Int, NEW a \in Int, Helps(q, a)
    PROVE  Magnitude(a) \in Int /\ Magnitude(a) > 0 /\ Slope(q) \in Int /\ Slope(q) >= 0
<1>1. a # 0
  BY DEF Helps
<1>2. Magnitude(a) \in Int /\ Magnitude(a) > 0
  BY <1>1 DEF Magnitude
<1>3. Slope(q) \in Int /\ Slope(q) >= 0
  BY DEF Slope, Larger
<1> QED BY <1>2, <1>3

LEMMA ObjectiveRises ==
    ASSUME IsProgram(lp), Partition(basis), StatusesFit(basis), Standing, ColumnCosts(c), Signs,
           \A w \in Vars : Low(w) <= Up(w),
           NEW p, NEW pi, NEW alpha, NEW s, Chosen(p, pi, alpha, s),
           NEW X, NEW z, NEW h, NEW obj, Describes(X, After(p, alpha, s), c, z, h, obj)
    PROVE  BasicObjective <= obj
<1> DEFINE q == Enters(p, alpha, s)
           S == FlippedOnes(p, alpha, s)
           o == basis.basic[p]
           a == alpha[q]
           g == Magnitude(a)
           t == Slope(q)
           n == Violation(o, Current)
           B == Balance(S, alpha, o, n)
           f == Weighted(h, X)
           e == Weighted(h, Current)
<1>1. /\ Kernel(Current) /\ Current \in [Vars -> Int]
      /\ c \in [Vars -> Int] /\ y \in [Rows -> Int] /\ d \in [Vars -> Int]
      /\ \A v \in Vars : d[v] = c[v] - Dot(Column(v), y)
      /\ BasicObjective = Sum(Weighted(d, Current), Vars)
  BY DEF Standing, Describes, Kernel
<1>2. /\ Kernel(X) /\ X \in [Vars -> Int]
      /\ z \in [Rows -> Int] /\ h \in [Vars -> Int]
      /\ \A v \in Vars : h[v] = c[v] - Dot(Column(v), z)
      /\ obj = Sum(f, Vars)
  BY DEF Describes, Kernel
<1>3. BasicObjective = Sum(e, Vars)
  <2>1. Sum(Weighted(c, Current), Vars) = Sum(Weighted(d, Current), Vars)
    BY <1>1, CostsPriced
  <2>2. Sum(Weighted(c, Current), Vars) = Sum(Weighted(h, Current), Vars)
    BY <1>1, <1>2, CostsPriced
  <2> QED BY <1>1, <2>1, <2>2
<1>4. /\ IntegerOn(f, Vars) /\ IntegerOn(e, Vars)
      /\ \A v \in Vars : f[v] = h[v] * X[v] /\ e[v] = h[v] * Current[v]
  BY <1>1, <1>2, WeightedIsInteger
<1>5. /\ o \in Vars /\ o \notin basis.nonbasic /\ n \in Int /\ n > 0
      /\ \A v \in basis.nonbasic : v \in Vars /\ alpha[v] \in Int
  BY <1>1, ChosenRow
<1>6. q \in Candidates(alpha) /\ s \in ByRatio(alpha) /\ s # <<>>
  <2>1. q \in Candidates(alpha)
    BY <1>1, AfterPivot
  <2> QED BY <2>1 DEF Chosen
<1>7. IntegerOn(B, Vars) /\ Sum(B, Vars) > 0
  <2>1. S = FirstOf(s, Flips(s, alpha, n))
    BY DEF FlippedOnes, FlipCount
  <2> HIDE DEF n, o, S
  <2> QED BY <1>5, <1>6, <2>1, BalancePositive
<1>8. g \in Int /\ g > 0 /\ t \in Int /\ t >= 0
  <2>1. Helps(q, a) /\ Allows(basis.status[q], d[q]) /\ a \in Int /\ q \in Vars /\ d[q] \in Int
    BY <1>1, <1>5, <1>6 DEF Candidates, Signs
  <2> HIDE DEF a, q
  <2> QED BY <2>1, SlopeSign
<1>9. \A v \in Vars : t * B[v] <= g * (f[v] - e[v])
  <2>1. \A v \in Vars : t * B[v] <= g * ((h[v] * X[v]) - (h[v] * Current[v]))
    BY TermGains
  <2> HIDE DEF t, B, g, f, e
  <2> QED BY <1>4, <2>1
<1>10. IsFiniteSet(Vars)
  BY Shape
<1> HIDE DEF t, B, g, f, e
<1>11. Sum(e, Vars) <= Sum(f, Vars)
  <2>1. Sum(B, Vars) >= 0
    <3>1. Sum(B, Vars) \in Int
      BY <1>7, <1>10, SumInteger
    <3> QED BY <1>7, <3>1
  <2> QED BY <1>4, <1>7, <1>8, <1>9, <1>10, <2>1, GainsAddUp
<1> QED BY <1>2, <1>3, <1>11

\* In a model with a solution no bounds cross.
LEMMA BoundsOrdered ==
    ASSUME IsProgram(lp), HasSolution
    PROVE  \A v \in Vars : Low(v) <= Up(v)
<1>1. PICK r \in [Cols -> Int] : FeasiblePoint(r)
  BY DEF HasSolution
<1>2. \A v \in Vars : Extended(r)[v] \in Int /\ Low(v) <= Extended(r)[v] /\ Extended(r)[v] <= Up(v)
  BY <1>1, ExtendedSolves DEF Kernel
<1>3. \A v \in Vars : Low(v) \in Int /\ Up(v) \in Int
  BY Bounds
<1> QED BY <1>2, <1>3

LEMMA DualPivotRises ==
    ASSUME Strong, SolvesRight, Standing, Standing', DualPivot, pc' = "dual", Signs, ~SlacksShifted, HasSolution
    PROVE  BasicObjective' >= BasicObjective
<1>1. pc = "dual" /\ UNCHANGED args /\ c' = c
  BY DEF DualPivot
<1>2. IsProgram(lp) /\ Partition(basis) /\ StatusesFit(basis) /\ ColumnCosts(c)
  BY <1>1, AtDual
<1>3. \A v \in Vars : Low(v) <= Up(v)
  BY <1>2, BoundsOrdered
<1>4. \E p, pi, alpha, s : Chosen(p, pi, alpha, s) /\ basis' = After(p, alpha, s)
  BY DualPivotMade
<1>5. PICK p, pi, alpha, s : Chosen(p, pi, alpha, s) /\ basis' = After(p, alpha, s)
  BY <1>4
<1> DEFINE X == Current'
           z == y'
           h == d'
           obj == BasicObjective'
<1>6. Describes(X, After(p, alpha, s), c, z, h, obj)
  <2>1. Describes(Current', basis', c', y', d', BasicObjective')
    BY <1>1, StandingThen
  <2> QED BY <1>1, <1>5, <2>1
<1> HIDE DEF X, z, h, obj
<1>7. BasicObjective <= obj
  BY <1>2, <1>3, <1>5, <1>6, ObjectiveRises
<1>8. BasicObjective \in Int /\ obj \in Int
  <2>1. /\ IntegerOn(Weighted(d, Current), Vars) /\ BasicObjective = Sum(Weighted(d, Current), Vars)
        /\ IntegerOn(Weighted(h, X), Vars) /\ obj = Sum(Weighted(h, X), Vars)
    BY <1>2, <1>6, WeightedIsInteger DEF Standing, Describes, Kernel
  <2> QED BY <1>2, <2>1, SumInteger, Shape
<1>9. obj >= BasicObjective
  BY <1>7, <1>8
<1> QED BY <1>9 DEF obj

-----------------------------------------------------------------------------
(* The objective value, from one cleanup iteration to the next.            *)

\* When only q leaves its place, the objective value changes by what q's reduced cost
\* makes of it.
LEMMA OneMoves ==
    ASSUME IsProgram(lp), Partition(basis), Standing, ColumnCosts(c),
           NEW X, NEW b, NEW z, NEW h, NEW obj, Describes(X, b, c, z, h, obj),
           NEW q \in basis.nonbasic, \A v \in basis.nonbasic \ {q} : X[v] = Current[v]
    PROVE  /\ obj \in Int /\ BasicObjective \in Int /\ X[q] \in Int /\ Current[q] \in Int /\ d[q] \in Int
           /\ obj - BasicObjective = d[q] * (X[q] - Current[q])
<1> DEFINE f == Weighted(d, X)
           e == Weighted(d, Current)
           R == Vars \ {q}
<1>1. /\ Kernel(Current) /\ Current \in [Vars -> Int]
      /\ c \in [Vars -> Int] /\ y \in [Rows -> Int] /\ d \in [Vars -> Int]
      /\ \A v \in Vars : d[v] = c[v] - Dot(Column(v), y)
      /\ \A v \in Vars : basis.status[v] = "Basic" => d[v] = 0
      /\ BasicObjective = Sum(e, Vars)
  BY DEF Standing, Describes, Kernel
<1>2. /\ Kernel(X) /\ X \in [Vars -> Int]
      /\ z \in [Rows -> Int] /\ h \in [Vars -> Int]
      /\ \A v \in Vars : h[v] = c[v] - Dot(Column(v), z)
      /\ obj = Sum(Weighted(h, X), Vars)
  BY DEF Describes, Kernel
<1>3. obj = Sum(f, Vars)
  <2>1. Sum(Weighted(c, X), Vars) = Sum(Weighted(d, X), Vars)
    BY <1>1, <1>2, CostsPriced
  <2>2. Sum(Weighted(c, X), Vars) = Sum(Weighted(h, X), Vars)
    BY <1>1, <1>2, CostsPriced
  <2> QED BY <1>2, <2>1, <2>2
<1>4. /\ IntegerOn(f, Vars) /\ IntegerOn(e, Vars)
      /\ \A v \in Vars : f[v] = d[v] * X[v] /\ e[v] = d[v] * Current[v]
  BY <1>1, <1>2, WeightedIsInteger
<1>5. q \in Vars /\ IsFiniteSet(Vars) /\ IsFiniteSet(R)
  BY Shape, FS_Subset DEF Partition
<1> HIDE DEF f, e
<1>6. \A v \in R : f[v] = e[v]
  <2> SUFFICES ASSUME NEW v \in R
               PROVE  f[v] = e[v]
    OBVIOUS
  <2>1. CASE basis.status[v] = "Basic"
    <3>1. d[v] = 0 /\ X[v] \in Int /\ Current[v] \in Int /\ v \in Vars
      BY <1>1, <1>2, <2>1
    <3> QED BY <1>4, <3>1
  <2>2. CASE basis.status[v] # "Basic"
    BY <1>4, <2>2 DEF Partition
  <2> QED BY <2>1, <2>2
<1>7. Sum(f, Vars) = f[q] + Sum(f, R) /\ Sum(e, Vars) = e[q] + Sum(e, R)
  BY <1>4, <1>5, SumTakes
<1>8. Sum(f, R) = Sum(e, R)
  BY <1>5, <1>6, SumAgrees
<1>9. Sum(e, R) \in Int /\ Sum(f, Vars) \in Int /\ Sum(e, Vars) \in Int
  <2>1. IntegerOn(e, R)
    BY <1>4 DEF IntegerOn
  <2> QED BY <1>4, <1>5, <2>1, SumInteger
<1> DEFINE dq == d[q]
           xq == X[q]
           cq == Current[q]
<1>10. dq \in Int /\ xq \in Int /\ cq \in Int /\ f[q] = dq * xq /\ e[q] = dq * cq
  BY <1>1, <1>2, <1>4, <1>5
<1> HIDE DEF dq, xq, cq, R
<1>11. obj - BasicObjective = dq * (xq - cq)
  <2>1. dq * (xq - cq) = (dq * xq) - (dq * cq) /\ dq * xq \in Int /\ dq * cq \in Int
    BY <1>10
  <2> QED BY <1>1, <1>3, <1>7, <1>8, <1>9, <1>10, <2>1
<1> QED BY <1>1, <1>3, <1>9, <1>10, <1>11 DEF dq, xq, cq

\* The entry of the entering column in row p is what the multipliers that see row p alone
\* make of it.
LEMMA ColumnSeen ==
    ASSUME IsProgram(lp), NEW k, \A i \in Rows : k[i] \in Vars, NEW p \in Rows, NEW q \in Vars,
           NEW v, Makes(k, v, [r \in Rows |-> Column(q)[r] * One]),
           NEW pi \in [Rows -> Int], \A i \in Rows : Dot(Column(k[i]), pi) = Unit(p, One)[i]
    PROVE  v[p] \in Int /\ v[p] = Dot(Column(q), pi)
<1> DEFINE m == Unit(p, One)
           rhs == [r \in Rows |-> Column(q)[r] * One]
           f == [r \in Rows |-> Column(q)[r] * pi[r]]
           g == [r \in Rows |-> rhs[r] * pi[r]]
           D == Dot(Column(q), pi)
<1>1. v \in [Rows -> Int] /\ rhs \in [Rows -> Int] /\ One \in Int /\ One > 0
  BY OneAssumption DEF Makes
<1>2. m \in [Rows -> Int]
  BY <1>1 DEF Unit
<1>3. Sum([i \in Rows |-> m[i] * v[i]], Rows) = Sum(g, Rows)
  <2> HIDE DEF m, rhs
  <2>1. Makes(k, v, rhs) /\ \A i \in Rows : Dot(Column(k[i]), pi) = m[i]
    BY DEF m, rhs
  <2> QED BY <1>2, <2>1, SeenBothWays
<1>4. Sum([i \in Rows |-> m[i] * v[i]], Rows) = One * v[p]
  BY <1>1, UnitSum
<1>5. D = Sum(f, Rows) /\ IntegerOn(f, Rows) /\ D \in Int
  BY DotIsSum
<1>6. \A r \in Rows : Column(q)[r] \in Int /\ pi[r] \in Int /\ rhs[r] = Column(q)[r] * One
  BY Entries
<1>7. \A r \in Rows : f[r] = Column(q)[r] * pi[r] /\ g[r] = rhs[r] * pi[r]
  OBVIOUS
<1> HIDE DEF rhs, f, g, D, m
<1>8. ASSUME NEW r \in Rows
      PROVE  1 * g[r] = One * f[r] /\ g[r] \in Int
  <2> DEFINE a == Column(q)[r]
             w == pi[r]
  <2>1. a \in Int /\ w \in Int /\ g[r] = (a * One) * w /\ f[r] = a * w
    BY <1>6, <1>7
  <2> HIDE DEF a, w
  <2>2. (a * One) * w = One * (a * w) /\ a * w \in Int
    BY <1>1, <2>1
  <2> QED BY <1>1, <2>1, <2>2
<1>9. 1 * Sum(g, Rows) = One * Sum(f, Rows)
  <2>1. IntegerOn(g, Rows) /\ IsFiniteSet(Rows)
    BY <1>8, Shape DEF IntegerOn
  <2>2. \A r \in Rows : 1 * g[r] = One * f[r]
    BY <1>8
  <2> QED BY <1>1, <1>5, <2>1, <2>2, SumScaled
<1>10. v[p] \in Int /\ One * v[p] = One * D
  <2>1. One * D \in Int /\ v[p] \in Int /\ Sum(g, Rows) \in Int
    <3>1. IntegerOn(g, Rows) /\ IsFiniteSet(Rows)
      BY <1>8, Shape DEF IntegerOn
    <3> QED BY <1>1, <1>5, <3>1, SumInteger
  <2> QED BY <1>3, <1>4, <1>5, <1>9, <2>1
<1>11. v[p] = D
  <2> DEFINE w == v[p]
  <2>3. w \in Int /\ One * w = One * D
    BY <1>10
  <2> HIDE DEF w
  <2>1. w \in Int /\ w - D \in Int /\ One * (w - D) = 0
    <3>1. One * (w - D) = (One * w) - (One * D) /\ One * D \in Int
      BY <1>1, <1>5, <2>3
    <3> QED BY <1>5, <2>3, <3>1
  <2>2. w - D = 0
    BY <1>1, <1>5, <2>1, FactorSign
  <2> QED BY <1>5, <2>1, <2>2 DEF w
<1> QED BY <1>10, <1>11 DEF D

\* The basic variable o of row p and the entering q, which alone leave their places, move
\* in the proportion the entering column says.
LEMMA RowMoves ==
    ASSUME IsProgram(lp), Partition(basis), Kernel(Current),
           NEW X, Kernel(X), NEW q \in basis.nonbasic, \A v \in basis.nonbasic \ {q} : X[v] = Current[v],
           NEW p \in Rows, NEW pi \in [Rows -> Int], \A i \in Rows : Dot(Column(basis.basic[i]), pi) = Unit(p, One)[i],
           NEW k \in Int, k = Dot(Column(q), pi)
    PROVE  One * (X[basis.basic[p]] - Current[basis.basic[p]]) = -(k * (X[q] - Current[q]))
<1> DEFINE o == basis.basic[p]
           P == Priced(pi)
           f == Weighted(P, X)
           e == Weighted(P, Current)
           w == [v \in Vars |-> f[v] - e[v]]
           R == Vars \ {q}
           N == R \ {o}
<1>1. /\ o \in Vars /\ basis.status[o] = "Basic" /\ q \in Vars /\ basis.status[q] # "Basic" /\ o # q
      /\ X \in [Vars -> Int] /\ Current \in [Vars -> Int]
  BY DEF Partition, IsValid, Kernel
<1>2. P \in [Vars -> Int] /\ Sum(f, Vars) = 0 /\ Sum(e, Vars) = 0
  BY Combination
<1>3. \A v \in Vars : P[v] = Dot(Column(v), pi)
  BY DEF Priced
<1>4. P[o] = One /\ P[q] = k
  BY <1>1, <1>3 DEF Unit
<1>5. \A v \in Vars \ {o} : basis.status[v] = "Basic" => P[v] = 0
  <2> SUFFICES ASSUME NEW v \in Vars \ {o}, basis.status[v] = "Basic"
               PROVE  P[v] = 0
    OBVIOUS
  <2>1. basis.place[v] \in Rows /\ basis.basic[basis.place[v]] = v
    BY DEF Partition
  <2>2. basis.place[v] # p
    BY <2>1
  <2> QED BY <1>3, <2>1, <2>2 DEF Unit
<1>6. /\ IntegerOn(f, Vars) /\ IntegerOn(e, Vars)
      /\ \A v \in Vars : f[v] = P[v] * X[v] /\ e[v] = P[v] * Current[v]
  BY <1>1, <1>2, WeightedIsInteger
<1>7. IsFiniteSet(Vars) /\ IsFiniteSet(R) /\ IsFiniteSet(N)
  BY Shape, FS_Subset
<1> HIDE DEF P, f, e, o
<1>8. \A v \in Vars : w[v] = f[v] - e[v] /\ w[v] \in Int
  BY <1>6 DEF IntegerOn
<1> HIDE DEF w
<1>9. 1 * Sum(w, Vars) = (1 * Sum(f, Vars)) + ((-1) * Sum(e, Vars))
  <2>1. Combines(w, f, e, 1, 1, -1, Vars)
    <3> SUFFICES ASSUME NEW v \in Vars
                 PROVE  1 * w[v] = (1 * f[v]) + ((-1) * e[v])
      BY DEF Combines
    <3>1. w[v] = f[v] - e[v] /\ f[v] \in Int /\ e[v] \in Int
      BY <1>6, <1>8 DEF IntegerOn
    <3> QED BY <3>1
  <2>2. IntegerOn(w, Vars)
    BY <1>8 DEF IntegerOn
  <2> QED BY <1>6, <1>7, <2>1, <2>2, SumCombines
<1>10. IntegerOn(w, Vars) /\ IntegerOn(w, R) /\ IntegerOn(w, N)
  BY <1>8 DEF IntegerOn
<1>11. Sum(w, Vars) = w[q] + Sum(w, R)
  BY <1>1, <1>7, <1>10, SumTakes
<1>12. Sum(w, R) = w[o] + Sum(w, N)
  <2>1. o \in R
    BY <1>1
  <2> HIDE DEF R
  <2> QED BY <1>7, <1>10, <2>1, SumTakes
<1>13. Sum(w, N) = 0
  <2>1. \A v \in N \ {} : w[v] = 0
    <3> SUFFICES ASSUME NEW v \in N
                 PROVE  w[v] = 0
      OBVIOUS
    <3>1. v \in Vars /\ v # q /\ v # o
      OBVIOUS
    <3>2. CASE basis.status[v] = "Basic"
      <4>1. P[v] = 0 /\ X[v] \in Int /\ Current[v] \in Int
        BY <1>1, <1>5, <3>1, <3>2
      <4> QED BY <1>6, <1>8, <3>1, <4>1
    <3>3. CASE basis.status[v] # "Basic"
      <4>1. X[v] = Current[v]
        BY <3>1, <3>3 DEF Partition
      <4>2. f[v] = e[v] /\ f[v] \in Int
        BY <1>6, <3>1, <4>1 DEF IntegerOn
      <4> QED BY <1>8, <3>1, <4>2
    <3> QED BY <3>2, <3>3
  <2> HIDE DEF N
  <2>2. Sum(w, N) = Sum(w, {})
    BY <1>7, <1>10, <2>1, SumWithoutZeros
  <2> QED BY <2>2, SumEmpty
<1>14. w[o] + w[q] = 0
  <2>1. Sum(w, Vars) = 0
    BY <1>2, <1>7, <1>9, <1>10, SumInteger
  <2>2. w[o] \in Int /\ w[q] \in Int
    BY <1>1, <1>8
  <2> QED BY <1>11, <1>12, <1>13, <2>1, <2>2
<1> DEFINE xo == X[o]
           co == Current[o]
           xq == X[q]
           cq == Current[q]
<1>15. /\ xo \in Int /\ co \in Int /\ xq \in Int /\ cq \in Int /\ One \in Int
       /\ w[o] = (One * xo) - (One * co) /\ w[q] = (k * xq) - (k * cq)
  BY <1>1, <1>4, <1>6, <1>8, OneAssumption
<1> HIDE DEF xo, co, xq, cq
<1>16. One * (xo - co) = (One * xo) - (One * co) /\ k * (xq - cq) = (k * xq) - (k * cq)
  BY <1>15
<1>17. (One * xo) - (One * co) \in Int /\ (k * xq) - (k * cq) \in Int
  BY <1>15
<1>18. One * (xo - co) = -(k * (xq - cq))
  BY <1>14, <1>15, <1>16, <1>17
<1> QED BY <1>18 DEF xo, co, xq, cq, o

\* Moving q the way its reduced cost asks for, or not at all, does not raise the value.
LEMMA RightWay ==
    ASSUME NEW q \in Improving, d[q] \in Int, NEW t \in Int,
           basis.status[q] = "AtLower" => t >= 0, basis.status[q] = "AtUpper" => t <= 0
    PROVE  d[q] * t <= 0
<1> DEFINE g == d[q]
<1>1. g \in Int /\ ((g < 0 /\ t >= 0) \/ (g > 0 /\ t <= 0))
  BY DEF Improving, WrongSign
<1> HIDE DEF g
<1>2. g * t <= 0
  BY <1>1, ProductSign
<1> QED BY <1>2 DEF g

\* The blocking variable goes to the bound that blocks, and q moves the right way.
LEMMA BlockedWay ==
    ASSUME NEW k \in Int, NEW a \in Int, NEW b \in Int, One * a = -(k * b),
           (k > 0 /\ a <= 0) \/ (k < 0 /\ a >= 0)
    PROVE  b >= 0
<1>1. One \in Int /\ One > 0
  BY OneAssumption
<1>2. CASE k > 0 /\ a <= 0
  <2>1. One * a <= 0 /\ One * a \in Int
    BY <1>1, <1>2, ProductSign
  <2>2. k * b >= 0
    <3>1. k * b \in Int
      OBVIOUS
    <3> QED BY <2>1, <3>1
  <2> QED BY <1>2, <2>2, FactorSign
<1>3. CASE k < 0 /\ a >= 0
  <2>1. One * a >= 0 /\ One * a \in Int
    BY <1>1, <1>3, ProductSign
  <2>2. (-k) * b >= 0 /\ -k \in Int /\ -k > 0
    <3>1. k * b \in Int /\ (-k) * b = -(k * b)
      OBVIOUS
    <3> QED BY <1>3, <2>1, <3>1
  <2> QED BY <2>2, FactorSign
<1> QED BY <1>2, <1>3

\* What a cleanup iteration starts from.
LEMMA AtCleanup ==
    ASSUME Strong, SolvesRight, pc = "cleanup", Improving # {}
    PROVE  /\ Working /\ IsProgram(lp) /\ Partition(basis) /\ StatusesFit(basis) /\ ColumnCosts(c)
           /\ Steepest \in Improving /\ Steepest \in basis.nonbasic /\ Steepest \in Vars /\ d[Steepest] \in Int
           /\ basis.status[Steepest] \in {"AtLower", "AtUpper"}
<1>1. Working
  BY DEF Working
<1>2. IsProgram(lp) /\ Partition(basis) /\ StatusesFit(basis) /\ c = Costs
  BY <1>1, AtWork
<1>3. ColumnCosts(c)
  BY <1>2, CostsWhole DEF ColumnCosts
<1>4. \A v \in Vars : d[v] \in Int
  BY <1>1, <1>2, PricedAtWork
<1>5. Steepest \in Improving
  BY <1>2, <1>4, SteepestImproves
<1>6. Steepest \in basis.nonbasic /\ Steepest \in Vars /\ basis.status[Steepest] \in {"AtLower", "AtUpper"}
  BY <1>2, <1>5 DEF Improving, WrongSign, Partition
<1> QED BY <1>1, <1>2, <1>3, <1>4, <1>5, <1>6

\* A move of the entering variable the right way lowers the objective value.
LEMMA Falls ==
    ASSUME IsProgram(lp), Partition(basis), Standing, ColumnCosts(c),
           NEW X, NEW b, NEW z, NEW h, NEW obj, Describes(X, b, c, z, h, obj),
           NEW q \in Improving, q \in basis.nonbasic, \A v \in basis.nonbasic \ {q} : X[v] = Current[v],
           basis.status[q] = "AtLower" => X[q] - Current[q] >= 0,
           basis.status[q] = "AtUpper" => X[q] - Current[q] <= 0
    PROVE  obj <= BasicObjective
<1> DEFINE t == X[q] - Current[q]
<1>1. /\ obj \in Int /\ BasicObjective \in Int /\ X[q] \in Int /\ Current[q] \in Int /\ d[q] \in Int
      /\ obj - BasicObjective = d[q] * t
  BY OneMoves
<1>2. t \in Int
  BY <1>1
<1> HIDE DEF t
<1>3. d[q] * t <= 0
  <2>1. /\ basis.status[q] = "AtLower" => t >= 0
        /\ basis.status[q] = "AtUpper" => t <= 0
    BY DEF t
  <2> QED BY <1>1, <1>2, <2>1, RightWay
<1> QED BY <1>1, <1>3

LEMMA FlipFalls ==
    ASSUME Strong, SolvesRight, Standing, Standing', PrimalFlip, \A v \in Vars : Low(v) <= Up(v)
    PROVE  BasicObjective' <= BasicObjective
<1> DEFINE q == Steepest
           b == Flipped(basis, {q})
           X == Current'
           z == y'
           h == d'
           obj == BasicObjective'
<1>1. pc = "cleanup" /\ Improving # {} /\ UNCHANGED args /\ c' = c /\ basis' = b
  BY DEF PrimalFlip, CleaningUp
<1>2. /\ IsProgram(lp) /\ Partition(basis) /\ ColumnCosts(c)
      /\ q \in Improving /\ q \in basis.nonbasic /\ q \in Vars /\ basis.status[q] \in {"AtLower", "AtUpper"}
  BY <1>1, AtCleanup
<1>3. Describes(X, b, c, z, h, obj)
  <2>1. Describes(Current', basis', c', y', d', BasicObjective')
    BY <1>1, StandingThen
  <2> QED BY <1>1, <2>1
<1> HIDE DEF X, z, h, obj, q
<1>4. /\ \A v \in basis.nonbasic : Current[v] = RestingValue(basis, v)
      /\ \A v \in b.nonbasic : X[v] = RestingValue(b, v)
  BY <1>3 DEF Standing, Describes
<1>5. /\ b.nonbasic = basis.nonbasic
      /\ \A v \in Vars : b.status[v] = IF v = q THEN Opposite[basis.status[v]] ELSE basis.status[v]
  BY DEF Flipped
<1> HIDE DEF b
<1>6. \A v \in basis.nonbasic \ {q} : X[v] = Current[v]
  <2> SUFFICES ASSUME NEW v \in basis.nonbasic \ {q}
               PROVE  X[v] = Current[v]
    OBVIOUS
  <2>1. b.status[v] = basis.status[v]
    BY <1>2, <1>5 DEF Partition
  <2> QED BY <1>4, <1>5, <2>1 DEF RestingValue
<1>7. Low(q) \in Int /\ Up(q) \in Int /\ Low(q) <= Up(q)
  BY <1>2, Bounds
<1>8. /\ basis.status[q] = "AtLower" => X[q] = Up(q) /\ Current[q] = Low(q)
      /\ basis.status[q] = "AtUpper" => X[q] = Low(q) /\ Current[q] = Up(q)
  BY <1>2, <1>4, <1>5 DEF RestingValue, Opposite
<1>9. /\ basis.status[q] = "AtLower" => X[q] - Current[q] >= 0
      /\ basis.status[q] = "AtUpper" => X[q] - Current[q] <= 0
  BY <1>7, <1>8
<1>10. obj <= BasicObjective
  BY <1>2, <1>3, <1>6, <1>9, Falls
<1> QED BY <1>10 DEF obj

LEMMA PivotFalls ==
    ASSUME Strong, SolvesRight, Standing, Standing', PrimalPivot, InfeasibleRows(Current) = {}
    PROVE  BasicObjective' <= BasicObjective
<1> DEFINE q == Steepest
           v == PrimalColumn
           p == Blocking(q, v, Current)
           o == basis.basic[p]
           leaving == IF Rate(q, v, p) > 0 THEN "AtLower" ELSE "AtUpper"
           b == Swap(basis, p, q, leaving)
           pi == Btran(fact, Unit(p, One))
           X == Current'
           z == y'
           h == d'
           obj == BasicObjective'
<1>1. pc = "cleanup" /\ Improving # {} /\ UNCHANGED args /\ c' = c /\ p # 0 /\ basis' = b
  BY DEF PrimalPivot, CleaningUp
<1>2. /\ Working /\ IsProgram(lp) /\ Partition(basis) /\ ColumnCosts(c)
      /\ q \in Improving /\ q \in basis.nonbasic /\ q \in Vars /\ basis.status[q] \in {"AtLower", "AtUpper"}
  BY <1>1, AtCleanup
<1>3. Describes(X, b, c, z, h, obj)
  <2>1. Describes(Current', basis', c', y', d', BasicObjective')
    BY <1>1, StandingThen
  <2> QED BY <1>1, <2>1
<1>4. Answers(v, [r \in Rows |-> Column(q)[r] * One])
  BY <1>2 DEF SolvesRight, PrimalColumn
<1>5. v \in [Rows -> Int] /\ Kernel(Current) /\ Current \in [Vars -> Int]
  BY <1>4 DEF Answers, Standing, Describes, Kernel
<1> HIDE DEF X, z, h, obj, q, v
<1>6. p \in Rows /\ Rate(q, v, p) # 0
  BY <1>1, <1>2, <1>5, BlocksSomewhere
<1> HIDE DEF p
<1>7. pi \in [Rows -> Int] /\ \A i \in Rows : Dot(Column(basis.basic[i]), pi) = Unit(p, One)[i]
  <2>1. Prices(Btran(fact, Unit(p, One)), Unit(p, One))
    BY <1>2, <1>6 DEF SolvesRight
  <2> QED BY <2>1 DEF Prices
<1> HIDE DEF pi
<1>8. v[p] \in Int /\ v[p] = Dot(Column(q), pi)
  <2> DEFINE rhs == [r \in Rows |-> Column(q)[r] * One]
  <2>1. \A i \in Rows : basis.basic[i] \in Vars
    BY <1>2 DEF Partition, IsValid
  <2>2. \A r \in Rows : Column(q)[r] * One \in Int
    <3>1. One \in Int /\ \A r \in Rows : Column(q)[r] \in Int
      BY <1>2, Entries, OneAssumption
    <3> QED BY <3>1
  <2>3. rhs \in [Rows -> Int]
    BY <2>2
  <2>4. \A r \in Rows : Sum([i \in Rows |-> Column(basis.basic[i])[r] * v[i]], Rows) = rhs[r]
    BY <1>4 DEF Answers, Total, SumFunction, Sum
  <2>5. Makes(basis.basic, v, rhs)
    BY <1>5, <2>3, <2>4 DEF Makes
  <2> QED BY <1>2, <1>6, <1>7, <2>1, <2>5, ColumnSeen
<1>9. /\ o \in Vars /\ o \notin basis.nonbasic /\ o # q /\ leaving \in {"AtLower", "AtUpper"}
      /\ Low(o) <= Current[o] /\ Current[o] <= Up(o)
  <2>1. o \in Vars /\ basis.status[o] = "Basic" /\ o \notin basis.nonbasic
    BY <1>2, <1>6 DEF Partition, IsValid
  <2>2. ~Below(o, Current) /\ ~Above(o, Current)
    BY <1>6 DEF InfeasibleRows
  <2>3. Low(o) \in Int /\ Up(o) \in Int /\ Current[o] \in Int
    BY <1>2, <1>5, <2>1, Bounds
  <2> QED BY <1>2, <2>1, <2>2, <2>3 DEF Below, Above
<1>10. /\ b.nonbasic = {w \in Vars : b.status[w] # "Basic"}
       /\ \A w \in Vars : b.status[w] = IF w = q THEN "Basic" ELSE IF w = o THEN leaving ELSE basis.status[w]
  <2>1. DOMAIN basis.status = Vars
    BY <1>2 DEF Partition, IsValid
  <2> HIDE DEF leaving
  <2> QED BY <1>9, <2>1 DEF Swap
<1> HIDE DEF b
<1>11. /\ \A w \in basis.nonbasic : Current[w] = RestingValue(basis, w)
       /\ \A w \in b.nonbasic : X[w] = RestingValue(b, w)
       /\ Kernel(X) /\ X \in [Vars -> Int]
  BY <1>3 DEF Standing, Describes, Kernel
<1> HIDE DEF leaving, o
<1>12. \A w \in basis.nonbasic \ {q} : X[w] = Current[w]
  <2> SUFFICES ASSUME NEW w \in basis.nonbasic \ {q}
               PROVE  X[w] = Current[w]
    OBVIOUS
  <2>1. w \in Vars /\ basis.status[w] # "Basic" /\ w # o
    BY <1>2, <1>9 DEF Partition
  <2>2. b.status[w] = basis.status[w] /\ w \in b.nonbasic
    BY <1>10, <2>1
  <2> QED BY <1>11, <2>2 DEF RestingValue
<1>13. X[o] = IF leaving = "AtLower" THEN Low(o) ELSE Up(o)
  <2>1. b.status[o] = leaving /\ o \in b.nonbasic
    BY <1>9, <1>10
  <2> QED BY <1>9, <1>11, <2>1 DEF RestingValue
<1> DEFINE k == v[p]
           a == X[o] - Current[o]
           t == X[q] - Current[q]
<1>14. k \in Int /\ a \in Int /\ t \in Int /\ One * a = -(k * t)
  <2>1. X[o] \in Int /\ Current[o] \in Int /\ X[q] \in Int /\ Current[q] \in Int
    BY <1>2, <1>5, <1>9, <1>11
  <2> DEFINE m == v[p]
  <2>2. m \in Int /\ m = Dot(Column(q), pi)
    BY <1>8
  <2> HIDE DEF m
  <2>3. One * (X[basis.basic[p]] - Current[basis.basic[p]]) = -(m * (X[q] - Current[q]))
    BY <1>2, <1>5, <1>6, <1>7, <1>11, <1>12, <2>2, RowMoves
  <2> QED BY <1>8, <2>1, <2>3 DEF m, o
<1>15. (leaving = "AtLower" => a <= 0) /\ (leaving = "AtUpper" => a >= 0)
  <2>1. X[o] \in Int /\ Current[o] \in Int /\ Low(o) \in Int /\ Up(o) \in Int
    BY <1>2, <1>5, <1>9, <1>11, Bounds
  <2> QED BY <1>9, <1>13, <2>1
<1> HIDE DEF a, t
<1>16. basis.status[q] = "AtLower" => t >= 0
  <2> SUFFICES ASSUME basis.status[q] = "AtLower"
               PROVE  t >= 0
    OBVIOUS
  <2>1. Rate(q, v, p) = k
    BY DEF Rate
  <2> HIDE DEF k
  <2>2. (k > 0 /\ a <= 0) \/ (k < 0 /\ a >= 0)
    BY <1>6, <1>14, <1>15, <2>1 DEF leaving
  <2> QED BY <1>14, <2>2, BlockedWay
<1>17. basis.status[q] = "AtUpper" => t <= 0
  <2> SUFFICES ASSUME basis.status[q] = "AtUpper"
               PROVE  t <= 0
    OBVIOUS
  <2>1. Rate(q, v, p) = -k
    BY DEF Rate
  <2> HIDE DEF k
  <2> DEFINE m == -k
             s == -t
  <2>2. m \in Int /\ s \in Int /\ One * a = -(m * s)
    <3>1. (-k) * (-t) = k * t
      BY <1>14
    <3> QED BY <1>14, <3>1
  <2>3. (m > 0 /\ a <= 0) \/ (m < 0 /\ a >= 0)
    BY <1>6, <1>14, <1>15, <2>1 DEF leaving
  <2> HIDE DEF m
  <2>4. s >= 0
    <3> HIDE DEF s
    <3> QED BY <1>14, <2>2, <2>3, BlockedWay
  <2> QED BY <1>14, <2>4
<1>18. obj <= BasicObjective
  BY <1>2, <1>3, <1>12, <1>16, <1>17, Falls DEF t
<1> QED BY <1>18 DEF obj

LEMMA StepMonotone ==
    ASSUME Strong, SolvesRight, Working => Standing, (Working => Standing)', DualSigned, Next
    PROVE  ObjectiveMoves
<1>1. ASSUME pc = "dual", pc' = "dual", ~FreeColumnsCost, ~SlacksShifted, Grid # {}
      PROVE  BasicObjective' >= BasicObjective
  <2>1. DualPivot
    BY <1>1 DEF Next, NoRows, NoColumns, Begin, PrimalFeasible, OutOfTime, DualUnbounded, RestoreCosts,
         CleanupEnds, PrimalPivot, PrimalFlip, PrimalUnbounded, Assemble, CleaningUp
  <2>2. HasSolution
    BY <1>1, GridSolves
  <2>3. Signs /\ Standing /\ Standing'
    BY <1>1, <2>2 DEF DualSigned, Working
  <2> QED BY <1>1, <2>1, <2>2, <2>3, DualPivotRises
<1>2. ASSUME pc = "cleanup", pc' = "cleanup", InfeasibleRows(Current) = {}, \A v \in Vars : Low(v) <= Up(v)
      PROVE  BasicObjective' <= BasicObjective
  <2>1. PrimalPivot \/ PrimalFlip
    BY <1>2 DEF Next, NoRows, NoColumns, Begin, PrimalFeasible, OutOfTime, DualPivot, DualUnbounded, RestoreCosts,
         CleanupEnds, PrimalUnbounded, Assemble, CleaningUp
  <2>2. Standing /\ Standing'
    BY <1>2 DEF Working
  <2> QED BY <1>2, <2>1, <2>2, FlipFalls, PivotFalls
<1> QED BY <1>1, <1>2 DEF ObjectiveMoves

\* solve(), dual and primal loop: no dual iteration lowers the objective value, however
\* many candidates it flips, and no cleanup iteration raises it.
THEOREM ObjectiveStands == (Spec \/ (WarmSpec /\ NoFreeGiven)) /\ []SolvesRight => ObjectiveMonotone
<1>1. Strong /\ SolvesRight /\ (Working => Standing) /\ (Working => Standing)' /\ DualSigned /\ [Next]_vars
        => [ObjectiveMoves]_vars
  BY StepMonotone
<1> QED BY <1>1, AlwaysStrong, AlwaysStands, AlwaysSigned, ColdIsWarm, ColdGivesNothing, PTL
        DEF ObjectiveMonotone, WarmSpec

=============================================================================
