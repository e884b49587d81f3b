----------------------------- MODULE GomoryProofs -----------------------------
(***************************************************************************)
(* The cuts of the root relaxation, proved: no point that is feasible and  *)
(* whole in the integer columns is cut off, whatever the model, the basis  *)
(* and the number of cuts, provided that the integer columns have whole    *)
(* bounds and no column outside the basis is without a bound, which the    *)
(* code takes for granted.                                                 *)
(***************************************************************************)
EXTENDS GomoryCuts, SimplexProofs

-----------------------------------------------------------------------------
(* Numbers.                                                                *)

\* A quotient that comes out even.
LEMMA RatioWhole ==
    ASSUME NEW n \in Int, NEW k \in Nat, k > 0, n % k = 0
    PROVE  Ratio(n, k) \in Int /\ k * Ratio(n, k) = n
<1> DEFINE q == n \div k
<1>1. q \in Int /\ n = q * k /\ k * q = n
  OBVIOUS
<1>2. Magnitude(k) = k /\ ~(k < 0)
  BY DEF Magnitude
<1>3. Ratio(n, k) = CHOOSE e \in {q} : e * k = n
  BY <1>2 DEF Ratio
<1> HIDE DEF q
<1> QED BY <1>1, <1>3

LEMMA TimesWhole ==
    ASSUME NEW a \in Int, NEW b \in Int, (a * b) % One = 0
    PROVE  Times(a, b) \in Int /\ One * Times(a, b) = a * b
<1>1. One \in Nat /\ One > 0
  BY OneAssumption
<1> DEFINE n == a * b
<1>2. n \in Int /\ n % One = 0 /\ Times(a, b) = Ratio(n, One)
  BY DEF Times
<1> HIDE DEF n
<1>3. Ratio(n, One) \in Int /\ One * Ratio(n, One) = n
  BY <1>1, <1>2, RatioWhole
<1> QED BY <1>2, <1>3 DEF n

LEMMA WholeAndFraction ==
    ASSUME NEW v \in Int
    PROVE  /\ FractionOf(v) \in 0..(One - 1) /\ v \div One \in Int
           /\ v = (One * (v \div One)) + FractionOf(v)
<1>1. One \in Nat /\ One > 0
  BY OneAssumption
<1> DEFINE q == v \div One
<1>2. q \in Int /\ q * One <= v /\ v < (q * One) + One
  BY <1>1
<1>3. FractionOf(v) = v - (q * One)
  BY DEF FractionOf, WholePart
<1> HIDE DEF q
<1>4. q * One = One * q /\ q * One \in Int
  BY <1>1, <1>2
<1> QED BY <1>1, <1>2, <1>3, <1>4 DEF q

\* What a value is beyond a whole number of whole steps: the coefficient the cut rounds to.
Nearest(int, alpha, f0) ==
    IF ~int THEN alpha
    ELSE IF FractionOf(alpha) <= f0 THEN FractionOf(alpha) ELSE FractionOf(alpha) - One
Steps(int, alpha, f0) ==
    IF ~int THEN 0
    ELSE IF FractionOf(alpha) <= f0 THEN alpha \div One ELSE (alpha \div One) + 1

LEMMA Rounded ==
    ASSUME NEW int \in BOOLEAN, NEW alpha \in Int, NEW f0 \in 0..(One - 1)
    PROVE  /\ Nearest(int, alpha, f0) \in Int /\ Steps(int, alpha, f0) \in Int
           /\ alpha = Nearest(int, alpha, f0) + (One * Steps(int, alpha, f0))
           /\ int \/ Steps(int, alpha, f0) = 0
           /\ GammaProduct(int, alpha, f0) \in Int
           /\ GammaProduct(int, alpha, f0) >= (One - f0) * Nearest(int, alpha, f0)
           /\ GammaProduct(int, alpha, f0) >= (-f0) * Nearest(int, alpha, f0)
<1> DEFINE f == FractionOf(alpha)
           k == alpha \div One
           g == One - f0
           e == Nearest(int, alpha, f0)
           t == Steps(int, alpha, f0)
           p == GammaProduct(int, alpha, f0)
           Fits == /\ e \in Int /\ t \in Int /\ p \in Int
                   /\ alpha = e + (One * t) /\ (int \/ t = 0)
                   /\ p >= g * e /\ p >= (-f0) * e
<1>1. One \in Nat /\ One > 0 /\ f0 \in Int /\ f0 >= 0 /\ f0 < One /\ g \in Int /\ g > 0
  BY OneAssumption
<1>2. f \in 0..(One - 1) /\ k \in Int /\ alpha = (One * k) + f
  BY WholeAndFraction
<1>e. e = IF ~int THEN alpha ELSE IF f <= f0 THEN f ELSE f - One
  BY DEF Nearest
<1>t. t = IF ~int THEN 0 ELSE IF f <= f0 THEN k ELSE k + 1
  BY DEF Steps
<1>p. p = IF int THEN IF f <= f0 THEN f * g ELSE (One - f) * f0
          ELSE IF alpha >= 0 THEN alpha * g ELSE (-alpha) * f0
  BY DEF GammaProduct
<1> SUFFICES Fits
  OBVIOUS
<1> HIDE DEF f, k, g, e, t, p
<1>3. CASE int /\ f <= f0
  <2>1. e = f /\ t = k /\ p = f * g
    BY <1>3, <1>e, <1>t, <1>p
  <2>2. f * g \in Int /\ f * g = g * f /\ f * g >= 0 /\ (-f0) * f <= 0
    BY <1>1, <1>2
  <2>3. alpha = f + (One * k)
    BY <1>1, <1>2
  <2> QED BY <1>1, <1>2, <1>3, <2>1, <2>2, <2>3
<1>4. CASE int /\ ~(f <= f0)
  <2> DEFINE u == One - f
  <2>1. e = -u /\ t = k + 1 /\ p = u * f0 /\ u \in Int /\ u > 0
    BY <1>1, <1>2, <1>4, <1>e, <1>t, <1>p
  <2>2. alpha = (-u) + (One * (k + 1))
    BY <1>1, <1>2
  <2> HIDE DEF u
  <2>3. u * f0 \in Int /\ u * f0 = (-f0) * (-u) /\ u * f0 >= 0 /\ g * (-u) <= 0
    BY <1>1, <2>1
  <2> QED BY <1>1, <1>2, <1>4, <2>1, <2>2, <2>3
<1>5. CASE ~int /\ alpha >= 0
  <2>1. e = alpha /\ t = 0 /\ p = alpha * g
    BY <1>5, <1>e, <1>t, <1>p
  <2>2. alpha * g \in Int /\ alpha * g = g * alpha /\ alpha * g >= 0 /\ (-f0) * alpha <= 0
    BY <1>1, <1>5
  <2> QED BY <1>1, <1>5, <2>1, <2>2
<1>6. CASE ~int /\ ~(alpha >= 0)
  <2> DEFINE u == -alpha
  <2>1. e = alpha /\ t = 0 /\ p = u * f0 /\ u \in Int /\ u > 0 /\ alpha = -u
    BY <1>6, <1>e, <1>t, <1>p
  <2> HIDE DEF u
  <2>2. u * f0 \in Int /\ u * f0 = (-f0) * (-u) /\ u * f0 >= 0 /\ g * (-u) <= 0
    BY <1>1, <2>1
  <2> QED BY <1>1, <1>6, <2>1, <2>2
<1> QED BY <1>3, <1>4, <1>5, <1>6

\* One term: what rounding leaves of it, the whole steps it takes, and gamma above both of
\* its bounds.
LEMMA TermRounded ==
    ASSUME NEW int \in BOOLEAN, NEW alpha \in Int, NEW f0 \in 0..(One - 1),
           NEW g \in Int, One * g = GammaProduct(int, alpha, f0),
           NEW dist \in Int, dist >= 0, int => dist % One = 0
    PROVE  LET e == Nearest(int, alpha, f0) * dist
               z == Steps(int, alpha, f0) * (dist \div One)
           IN /\ e \in Int /\ z \in Int
              /\ alpha * dist = e + ((One * One) * z)
              /\ One * (g * dist) >= (One - f0) * e
              /\ One * (g * dist) >= (-f0) * e
<1> DEFINE r == Nearest(int, alpha, f0)
           t == Steps(int, alpha, f0)
           p == GammaProduct(int, alpha, f0)
           q == dist \div One
           h == One - f0
<1>1. One \in Nat /\ One > 0 /\ f0 \in Int /\ h \in Int
  BY OneAssumption
<1>2. /\ r \in Int /\ t \in Int /\ p \in Int /\ alpha = r + (One * t) /\ (int \/ t = 0)
      /\ p >= h * r /\ p >= (-f0) * r
  BY Rounded
<1>3. q \in Int /\ (int => dist = One * q)
  BY <1>1
<1>4. One * g = p
  OBVIOUS
<1> HIDE DEF r, t, p, q, h
<1>5. t * dist = One * (t * q)
  <2>1. CASE int
    BY <1>1, <1>2, <1>3, <2>1
  <2>2. CASE t = 0
    BY <1>1, <1>3, <2>2
  <2> QED BY <1>2, <2>1, <2>2
<1>6. alpha * dist = (r * dist) + ((One * One) * (t * q))
  <2>1. alpha * dist = (r * dist) + (One * (t * dist))
    BY <1>1, <1>2
  <2> DEFINE z == t * q
  <2>2. z \in Int /\ t * dist = One * z
    BY <1>2, <1>3, <1>5
  <2> HIDE DEF z
  <2>3. One * (One * z) = (One * One) * z
    BY <1>1, <2>2
  <2> QED BY <2>1, <2>2, <2>3 DEF z
<1>7. One * (g * dist) = p * dist
  BY <1>1, <1>2, <1>4
<1>8. ASSUME NEW w \in Int, p >= w * r
      PROVE  p * dist >= w * (r * dist)
  <2> DEFINE k == w * r
  <2>1. k \in Int /\ p - k \in Int /\ p - k >= 0
    BY <1>2, <1>8
  <2>2. w * (r * dist) = k * dist
    BY <1>2
  <2> HIDE DEF k
  <2>3. (p - k) * dist >= 0 /\ (p - k) * dist = (p * dist) - (k * dist)
    BY <1>2, <2>1
  <2>4. p * dist \in Int /\ k * dist \in Int
    BY <1>2, <2>1
  <2> QED BY <2>2, <2>3, <2>4
<1>9. p * dist >= h * (r * dist) /\ p * dist >= (-f0) * (r * dist)
  BY <1>1, <1>2, <1>8
<1>10. r * dist \in Int /\ t * q \in Int
  BY <1>2, <1>3
<1> QED BY <1>6, <1>7, <1>9, <1>10 DEF r, t, q, h

\* A whole number of steps away from f0, the sum of what rounding leaves is too large on one
\* side or too small on the other.
LEMMA EitherSide ==
    ASSUME NEW f0 \in 0..(One - 1), NEW n \in Int, NEW e \in Int, NEW total \in Int,
           e + ((One * One) * n) = One * f0,
           One * total >= (One - f0) * e, One * total >= (-f0) * e
    PROVE  total >= f0 * (One - f0)
<1> DEFINE h == One - f0
           m == f0 * h
<1>1. One \in Nat /\ One > 0 /\ f0 \in Int /\ f0 >= 0 /\ h \in Int /\ h > 0 /\ m \in Int
  BY OneAssumption
<1>2. One * total >= One * m
  <2>1. CASE n <= 0
    <3>1. (One * One) * n <= 0
      <4>1. One * One \in Int /\ One * One > 0
        BY <1>1
      <4> DEFINE o == One * One
      <4> HIDE DEF o
      <4>2. o * n <= 0
        BY <4>1, <2>1 DEF o
      <4> QED BY <4>2 DEF o
    <3>2. e >= One * f0
      <4> DEFINE o == (One * One) * n
                 w == One * f0
      <4>1. o \in Int /\ w \in Int /\ o <= 0 /\ e + o = w
        BY <1>1, <3>1
      <4> HIDE DEF o, w
      <4>2. e >= w
        BY <4>1
      <4> QED BY <4>2 DEF w
    <3> DEFINE w == One * f0
    <3>3. w \in Int /\ e - w \in Int /\ e - w >= 0
      BY <1>1, <3>2
    <3>4. One * m = h * w
      BY <1>1
    <3>5. One * total >= h * e
      OBVIOUS
    <3> HIDE DEF w, h, m
    <3>6. h * (e - w) >= 0 /\ h * (e - w) = (h * e) - (h * w) /\ h * e \in Int /\ h * w \in Int
      BY <1>1, <3>3
    <3> QED BY <1>1, <3>4, <3>5, <3>6
  <2>2. CASE n > 0
    <3> DEFINE o == One * One
               w == One * f0
    <3>1. o \in Int /\ o > 0 /\ w \in Int /\ o - w = One * h /\ e + (o * n) = w
      BY <1>1
    <3>2. o * n >= o /\ o * n \in Int
      <4> HIDE DEF o
      <4> QED BY <2>2, <3>1
    <3> DEFINE u == w - o
               k == -e
    <3>3. u \in Int /\ k \in Int /\ k >= -u /\ -u = One * h
      <4> HIDE DEF o, w, h
      <4> QED BY <3>1, <3>2
    <3>4. One * total >= f0 * k
      <4>1. (-f0) * e = f0 * k
        BY <1>1
      <4> QED BY <4>1
    <3>5. f0 * (One * h) = One * m
      BY <1>1
    <3> HIDE DEF o, w, u, k, h, m
    <3> DEFINE i == One * h
    <3>6. i \in Int /\ k - i >= 0
      BY <1>1, <3>3
    <3>7. f0 * i = One * m
      BY <3>5
    <3> HIDE DEF i
    <3>8. f0 * (k - i) >= 0 /\ f0 * (k - i) = (f0 * k) - (f0 * i) /\ f0 * k \in Int /\ f0 * i \in Int
      BY <1>1, <3>3, <3>6
    <3> QED BY <1>1, <3>4, <3>7, <3>8
  <2> QED BY <2>1, <2>2
<1> HIDE DEF m
<1>3. total >= m
  <2> DEFINE k == total - m
  <2>1. k \in Int /\ One * k = (One * total) - (One * m) /\ One * total \in Int /\ One * m \in Int
    BY <1>1
  <2>2. One * k >= 0
    BY <1>2, <2>1
  <2> HIDE DEF k
  <2>3. k >= 0
    BY <1>1, <2>1, <2>2
  <2> QED BY <1>1, <2>3 DEF k
<1> QED BY <1>3 DEF m, h

\* What outweighs term by term outweighs in sum.
LEMMA SumOutweighs ==
    ASSUME NEW S, IsFiniteSet(S), NEW f, IntegerOn(f, S), NEW g, IntegerOn(g, S), NEW a \in Int, NEW b \in Int,
           \A v \in S : a * g[v] >= b * f[v]
    PROVE  a * Sum(g, S) >= b * Sum(f, S)
<1> DEFINE l == [v \in S |-> b * f[v]]
           r == [v \in S |-> a * g[v]]
<1>1. \A v \in S : f[v] \in Int /\ g[v] \in Int
  BY DEF IntegerOn
<1>2. IntegerOn(l, S) /\ IntegerOn(r, S)
  BY <1>1 DEF IntegerOn
<1>3. \A v \in S : l[v] <= r[v] /\ 1 * l[v] = b * f[v] /\ 1 * r[v] = a * g[v]
  BY <1>1
<1> HIDE DEF l, r
<1>4. Sum(l, S) <= Sum(r, S)
  BY <1>2, <1>3, SumAtMost
<1>5. 1 * Sum(l, S) = b * Sum(f, S) /\ 1 * Sum(r, S) = a * Sum(g, S)
  BY <1>2, <1>3, SumScaled
<1>6. Sum(l, S) \in Int /\ Sum(r, S) \in Int
  BY <1>2, SumInteger
<1> QED BY <1>4, <1>5, <1>6

\* The terms of a cut: al are the tableau entries, ga the weights, dist the distances from
\* the bounds.
Weighed(S, I, al, ga, dist, f0) ==
    \A v \in S : /\ al[v] \in Int /\ ga[v] \in Int /\ dist[v] \in Int
                 /\ dist[v] >= 0 /\ (v \in I => dist[v] % One = 0)
                 /\ One * ga[v] = GammaProduct(v \in I, al[v], f0)

\* A basic value that is u whole steps less the fraction f0 away from where the row puts it.
OnLine(S, al, dist, f0, u) == (One * ((One * u) - f0)) + Sum([v \in S |-> al[v] * dist[v]], S) = 0

\* The cut's left-hand side at such a point.
LEMMA SumRounded ==
    ASSUME NEW S, IsFiniteSet(S), NEW I, NEW al, NEW ga, NEW dist, NEW f0 \in 0..(One - 1), NEW u \in Int,
           Weighed(S, I, al, ga, dist, f0), OnLine(S, al, dist, f0, u)
    PROVE  /\ IntegerOn([v \in S |-> ga[v] * dist[v]], S)
           /\ Sum([v \in S |-> ga[v] * dist[v]], S) >= f0 * (One - f0)
<1> DEFINE ad == [v \in S |-> al[v] * dist[v]]
           gd == [v \in S |-> ga[v] * dist[v]]
           e == [v \in S |-> Nearest(v \in I, al[v], f0) * dist[v]]
           z == [v \in S |-> Steps(v \in I, al[v], f0) * (dist[v] \div One)]
           h == One - f0
           oo == One * One
<1>1. One \in Nat /\ One > 0 /\ f0 \in Int /\ h \in Int /\ oo \in Int
  BY OneAssumption
<1>2. ASSUME NEW v \in S
      PROVE  /\ ad[v] \in Int /\ gd[v] \in Int /\ e[v] \in Int /\ z[v] \in Int
             /\ 1 * ad[v] = (1 * e[v]) + (oo * z[v])
             /\ One * gd[v] >= h * e[v] /\ One * gd[v] >= (-f0) * e[v]
  <2>1. al[v] \in Int /\ ga[v] \in Int /\ dist[v] \in Int
    BY DEF Weighed
  <2>2. ad[v] \in Int /\ gd[v] \in Int
    BY <2>1
  <2>3. /\ e[v] \in Int /\ z[v] \in Int /\ ad[v] = e[v] + (oo * z[v])
        /\ One * gd[v] >= h * e[v] /\ One * gd[v] >= (-f0) * e[v]
    <3> DEFINE int == v \in I
               r == Nearest(int, al[v], f0) * dist[v]
               t == Steps(int, al[v], f0) * (dist[v] \div One)
    <3>1. int \in BOOLEAN /\ dist[v] >= 0 /\ (int => dist[v] % One = 0) /\ One * ga[v] = GammaProduct(int, al[v], f0)
      BY DEF Weighed
    <3>2. r = e[v] /\ t = z[v] /\ al[v] * dist[v] = ad[v] /\ ga[v] * dist[v] = gd[v]
      OBVIOUS
    <3> HIDE DEF int, ad, gd, e, z, h, oo
    <3>3. /\ r \in Int /\ t \in Int /\ al[v] * dist[v] = r + ((One * One) * t)
          /\ One * (ga[v] * dist[v]) >= (One - f0) * r /\ One * (ga[v] * dist[v]) >= (-f0) * r
      BY <2>1, <3>1, TermRounded
    <3> HIDE DEF r, t
    <3> QED BY <3>2, <3>3 DEF h, oo
  <2> HIDE DEF ad, gd, e, z, h, oo
  <2> QED BY <1>1, <2>2, <2>3
<1>3. IntegerOn(ad, S) /\ IntegerOn(gd, S) /\ IntegerOn(e, S) /\ IntegerOn(z, S)
  BY <1>2 DEF IntegerOn
<1> DEFINE A == Sum(ad, S)
           E == Sum(e, S)
           Z == Sum(z, S)
           G == Sum(gd, S)
<1>4. (One * ((One * u) - f0)) + A = 0
  BY DEF OnLine
<1> SUFFICES IntegerOn(gd, S) /\ G >= f0 * (One - f0)
  OBVIOUS
<1> HIDE DEF ad, gd, e, z
<1>5. A \in Int /\ E \in Int /\ Z \in Int /\ G \in Int
  BY <1>3, SumInteger
<1>6. 1 * A = (1 * E) + (oo * Z)
  <2>1. Combines(ad, e, z, 1, 1, oo, S)
    BY <1>2 DEF Combines
  <2> HIDE DEF oo
  <2> QED BY <1>1, <1>3, <2>1, SumCombines
<1>7. One * G >= h * E /\ One * G >= (-f0) * E
  <2> HIDE DEF h, oo
  <2> HIDE DEF A, E, Z, G
  <2>1. -f0 \in Int /\ One \in Int
    BY <1>1
  <2>2. \A v \in S : One * gd[v] >= h * e[v]
    BY <1>2
  <2>3. \A v \in S : One * gd[v] >= (-f0) * e[v]
    BY <1>2
  <2>4. One * Sum(gd, S) >= h * Sum(e, S)
    BY <1>1, <1>3, <2>1, <2>2, SumOutweighs
  <2>5. One * Sum(gd, S) >= (-f0) * Sum(e, S)
    BY <1>3, <2>1, <2>3, SumOutweighs
  <2> QED BY <2>4, <2>5 DEF E, G
<1> HIDE DEF A, E, Z, G
<1>8. E + (oo * (u + Z)) = One * f0
  <2>1. oo * (u + Z) = (oo * u) + (oo * Z) /\ oo * u \in Int /\ oo * Z \in Int
    <3> HIDE DEF oo
    <3> QED BY <1>1, <1>5, Distributes
  <2>2. One * ((One * u) - f0) = (oo * u) - (One * f0) /\ One * f0 \in Int
    BY <1>1
  <2> HIDE DEF oo
  <2> DEFINE p == oo * u
             q == oo * Z
             r == One * f0
             t == One * ((One * u) - f0)
  <2>3. p \in Int /\ q \in Int /\ r \in Int /\ t = p - r /\ t + A = 0 /\ A = E + q /\ oo * (u + Z) = p + q
    BY <1>4, <1>5, <1>6, <2>1, <2>2
  <2> HIDE DEF p, q, r, t
  <2>4. E + (p + q) = r
    BY <1>5, <2>3
  <2> QED BY <2>3, <2>4 DEF r
<1>9. u + Z \in Int
  BY <1>5
<1> QED BY <1>3, <1>5, <1>7, <1>8, <1>9, EitherSide

-----------------------------------------------------------------------------
(* A row of the tableau.                                                   *)

\* How far from its bound a nonbasic variable the cut takes is at a point.
Away(v, P) == IF basis.status[v] = "AtLower" THEN P[v] - x[v] ELSE x[v] - P[v]

\* A basis the relaxation ended with: the factors answer for it, the point is its own.
Resting ==
    /\ IsProgram(lp) /\ Partition(basis) /\ StatusesFit(basis) /\ AtTheirBounds /\ Kernel(x)
    /\ \A i \in Rows : Prices(Btran(fact, Unit(i, One)), Unit(i, One))

\* A point of the rows between the bounds.
Inside(P) == Kernel(P) /\ \A v \in Vars : Low(v) <= P[v] /\ P[v] <= Up(v)

LEMMA AwayInside ==
    ASSUME Resting, NEW P, Inside(P), NEW v \in AtBound
    PROVE  /\ v \in Vars /\ basis.status[v] # "Basic"
           /\ x[v] \in Int /\ P[v] \in Int /\ Away(v, P) \in Int /\ Away(v, P) >= 0
           /\ x[v] = IF basis.status[v] = "AtLower" THEN Low(v) ELSE Up(v)
<1>1. v \in basis.nonbasic /\ v \in Vars /\ basis.status[v] # "Basic" /\ basis.status[v] \in {"AtLower", "AtUpper"}
  BY DEF AtBound, Resting, Partition
<1>2. P[v] \in Int /\ x[v] \in Int /\ Low(v) <= P[v] /\ P[v] <= Up(v)
  BY <1>1 DEF Inside, Kernel, Resting
<1>3. x[v] = RestingValue(basis, v)
  BY <1>1 DEF Resting, AtTheirBounds
<1>4. x[v] = IF basis.status[v] = "AtLower" THEN Low(v) ELSE Up(v)
  BY <1>1, <1>3 DEF RestingValue
<1> QED BY <1>1, <1>2, <1>4 DEF Away

\* The basic variable moves from its value by what the others' distances make it.
LEMMA TableauLine ==
    ASSUME Resting, NoFreeOutside, NEW P, Inside(P), NEW i \in Rows,
           NEW pi, pi = Btran(fact, Unit(i, One))
    PROVE  /\ basis.basic[i] \in Vars /\ x[basis.basic[i]] \in Int /\ P[basis.basic[i]] \in Int
           /\ IsFiniteSet(AtBound)
           /\ \A v \in AtBound : FromBound(v, pi) \in Int
           /\ (One * (P[basis.basic[i]] - x[basis.basic[i]]))
                + Sum([v \in AtBound |-> FromBound(v, pi) * Away(v, P)], AtBound) = 0
<1> DEFINE b == basis.basic[i]
           h == Priced(pi)
           m == [v \in Vars |-> h[v] * (P[v] - x[v])]
           B == AtBound
           f == [v \in B |-> FromBound(v, pi) * Away(v, P)]
<1>1. /\ IsProgram(lp) /\ Partition(basis) /\ StatusesFit(basis) /\ Kernel(x) /\ Kernel(P)
      /\ Prices(pi, Unit(i, One)) /\ pi \in [Rows -> Int]
  BY DEF Resting, Inside, Prices
<1>2. x \in [Vars -> Int] /\ P \in [Vars -> Int]
  BY <1>1 DEF Kernel
<1>3. /\ h \in [Vars -> Int]
      /\ Sum(Weighted(h, P), Vars) = 0 /\ Sum(Weighted(h, x), Vars) = 0
  BY <1>1, Combination
<1>4. IsFiniteSet(Vars) /\ One \in Int
  BY <1>1, Shape, OneAssumption
<1>5. \A k \in Rows : h[basis.basic[k]] = IF k = i THEN One ELSE 0
  <2>1. \A k \in Rows : basis.basic[k] \in Vars
    BY <1>1 DEF Partition, IsValid
  <2>2. \A k \in Rows : Dot(Column(basis.basic[k]), pi) = Unit(i, One)[k]
    BY <1>1 DEF Prices
  <2> QED BY <2>1, <2>2 DEF Unit, Priced
<1>6. b \in Vars /\ basis.status[b] = "Basic" /\ h[b] = One
  BY <1>1, <1>5 DEF Partition, IsValid
<1>7. \A v \in Vars : basis.status[v] = "Basic" /\ v # b => h[v] = 0
  <2> SUFFICES ASSUME NEW v \in Vars, basis.status[v] = "Basic", v # b
               PROVE  h[v] = 0
    OBVIOUS
  <2>1. basis.place[v] \in Rows /\ basis.basic[basis.place[v]] = v
    BY <1>1 DEF Partition
  <2>2. basis.place[v] # i
    BY <2>1
  <2> HIDE DEF h, b
  <2> QED BY <1>5, <2>1, <2>2
<1>8. B \subseteq Vars /\ b \notin B /\ IsFiniteSet(B) /\ B \subseteq basis.nonbasic
  <2>1. B \subseteq basis.nonbasic /\ basis.nonbasic \subseteq Vars /\ b \notin B
    BY <1>1, <1>6 DEF AtBound, Partition
  <2> QED BY <1>4, <2>1, FS_Subset
<1>9. \A v \in Vars : basis.status[v] # "Basic" /\ v \notin B => P[v] = x[v]
  <2> SUFFICES ASSUME NEW v \in Vars, basis.status[v] # "Basic", v \notin B
               PROVE  P[v] = x[v]
    OBVIOUS
  <2>1. v \in basis.nonbasic
    BY <1>1 DEF Partition
  <2>2. basis.status[v] = "Fixed"
    BY <1>1, <2>1 DEF AtBound, NoFreeOutside, StatusesFit
  <2>3. Low(v) <= P[v] /\ P[v] <= Up(v) /\ P[v] \in Int
    BY <1>2 DEF Inside
  <2>4. x[v] = RestingValue(basis, v)
    BY <2>1 DEF Resting, AtTheirBounds
  <2> QED BY <1>1, <2>2, <2>3, <2>4, RestsBeside
<1>10. \A v \in Vars : h[v] \in Int /\ P[v] \in Int /\ x[v] \in Int
  <2> HIDE DEF h
  <2> QED BY <1>2, <1>3
<1>11. IntegerOn(m, Vars) /\ \A v \in Vars : m[v] = h[v] * (P[v] - x[v])
  <2> HIDE DEF h
  <2> QED BY <1>10 DEF IntegerOn
<1>12. Sum(m, Vars) = 0
  <2> DEFINE wp == Weighted(h, P)
             wx == Weighted(h, x)
  <2>1. /\ IntegerOn(wp, Vars) /\ IntegerOn(wx, Vars)
        /\ \A v \in Vars : wp[v] = h[v] * P[v] /\ wx[v] = h[v] * x[v]
    BY <1>2, <1>3, WeightedIsInteger
  <2> HIDE DEF wp, wx, h
  <2>2. Combines(m, wp, wx, 1, 1, -1, Vars)
    <3> SUFFICES ASSUME NEW v \in Vars
                 PROVE  1 * m[v] = (1 * wp[v]) + ((-1) * wx[v])
      BY DEF Combines
    <3>1. m[v] = (h[v] * P[v]) - (h[v] * x[v]) /\ h[v] * P[v] \in Int /\ h[v] * x[v] \in Int
      BY <1>10
    <3> QED BY <2>1, <3>1
  <2> HIDE DEF m
  <2>3. 1 * Sum(m, Vars) = (1 * Sum(wp, Vars)) + ((-1) * Sum(wx, Vars))
    BY <1>4, <1>11, <2>1, <2>2, SumCombines
  <2>4. Sum(m, Vars) \in Int
    BY <1>4, <1>11, SumInteger
  <2> QED BY <1>3, <2>3, <2>4 DEF wp, wx
<1>13. ASSUME NEW v \in B
       PROVE  FromBound(v, pi) \in Int /\ m[v] = f[v]
  <2>1. v \in Vars /\ h[v] = Dot(Column(v), pi) /\ h[v] \in Int
    BY <1>8, <1>10 DEF Priced
  <2>2. /\ FromBound(v, pi) = IF basis.status[v] = "AtLower" THEN h[v] ELSE -h[v]
        /\ Away(v, P) = IF basis.status[v] = "AtLower" THEN P[v] - x[v] ELSE x[v] - P[v]
    BY <2>1 DEF FromBound, Away
  <2>3. m[v] = h[v] * (P[v] - x[v]) /\ f[v] = FromBound(v, pi) * Away(v, P)
    BY <1>11, <2>1
  <2> HIDE DEF h, m, f
  <2> QED BY <1>10, <2>1, <2>2, <2>3
<1>14. Sum(m, Vars) = (One * (P[b] - x[b])) + Sum(f, B)
  <2> DEFINE W == B \cup {b}
  <2>1. W \subseteq Vars /\ b \in W /\ W \ {b} = B
    BY <1>6, <1>8
  <2>2. \A v \in Vars \ W : m[v] = 0
    <3> SUFFICES ASSUME NEW v \in Vars, v \notin B, v # b
                 PROVE  m[v] = 0
      OBVIOUS
    <3>1. h[v] = 0 \/ P[v] - x[v] = 0
      <4> HIDE DEF h
      <4> QED BY <1>7, <1>9, <1>10
    <3>2. m[v] = h[v] * (P[v] - x[v])
      BY <1>11
    <3> HIDE DEF h, m
    <3> QED BY <1>10, <3>1, <3>2
  <2>3. m[b] = One * (P[b] - x[b])
    <3>1. m[b] = h[b] * (P[b] - x[b])
      BY <1>6, <1>11
    <3> HIDE DEF h, m, b
    <3> QED BY <1>6, <3>1
  <2>4. IsFiniteSet(W)
    BY <1>4, <2>1, FS_Subset
  <2> HIDE DEF W, m, f, h, b, B
  <2>5. Sum(m, Vars) = Sum(m, W)
    BY <1>4, <1>11, <2>1, <2>2, SumWithoutZeros
  <2>6. IntegerOn(m, W)
    BY <1>11, <2>1 DEF IntegerOn
  <2>7. Sum(m, W) = m[b] + Sum(m, B)
    BY <2>1, <2>4, <2>6, SumTakes
  <2>8. Sum(m, B) = Sum(f, B)
    BY <1>8, <1>13, SumAgrees
  <2> QED BY <2>3, <2>5, <2>7, <2>8
<1>15. (One * (P[b] - x[b])) + Sum(f, B) = 0
  <2> HIDE DEF m, f, b, B
  <2> QED BY <1>12, <1>14
<1> QED BY <1>6, <1>8, <1>10, <1>13, <1>15

-----------------------------------------------------------------------------
(* A cut.                                                                  *)

\* v in the columns: a slack is the activity of its row.
InColumns(v, j) == IF IsCol(v) THEN IF v = j THEN 1 ELSE 0 ELSE lp.a[v - lp.n][j]
\* A point with whole values in the integer columns.
WholeAt(P) == \A j \in Ints : FractionOf(P[j]) = 0

LEMMA GammaWhole ==
    ASSUME NEW v, NEW alpha \in Int, NEW f0 \in 0..(One - 1), GammaProduct(v \in Ints, alpha, f0) % One = 0
    PROVE  Gamma(v, alpha, f0) \in Int /\ One * Gamma(v, alpha, f0) = GammaProduct(v \in Ints, alpha, f0)
<1> DEFINE f == FractionOf(alpha)
           h == One - f0
           k == One - f
           l == -alpha
           p == GammaProduct(v \in Ints, alpha, f0)
           g == Gamma(v, alpha, f0)
<1>1. One \in Nat /\ f0 \in Int /\ h \in Int /\ f \in Int /\ k \in Int /\ l \in Int
  BY OneAssumption, WholeAndFraction
<1>2. p = IF v \in Ints THEN IF f <= f0 THEN f * h ELSE k * f0 ELSE IF alpha >= 0 THEN alpha * h ELSE l * f0
  BY DEF GammaProduct
<1>3. g = IF v \in Ints THEN IF f <= f0 THEN Times(f, h) ELSE Times(k, f0)
          ELSE IF alpha >= 0 THEN Times(alpha, h) ELSE Times(l, f0)
  BY DEF Gamma
<1>4. p % One = 0
  OBVIOUS
<1> SUFFICES g \in Int /\ One * g = p
  OBVIOUS
<1> HIDE DEF f, h, k, l, p, g
<1>5. CASE v \in Ints /\ f <= f0
  <2>1. p = f * h /\ g = Times(f, h)
    BY <1>2, <1>3, <1>5
  <2> QED BY <1>1, <1>4, <2>1, TimesWhole
<1>6. CASE v \in Ints /\ ~(f <= f0)
  <2>1. p = k * f0 /\ g = Times(k, f0)
    BY <1>2, <1>3, <1>6
  <2> QED BY <1>1, <1>4, <2>1, TimesWhole
<1>7. CASE v \notin Ints /\ alpha >= 0
  <2>1. p = alpha * h /\ g = Times(alpha, h)
    BY <1>2, <1>3, <1>7
  <2> QED BY <1>1, <1>4, <2>1, TimesWhole
<1>8. CASE v \notin Ints /\ ~(alpha >= 0)
  <2>1. p = l * f0 /\ g = Times(l, f0)
    BY <1>2, <1>3, <1>8
  <2> QED BY <1>1, <1>4, <2>1, TimesWhole
<1> QED BY <1>5, <1>6, <1>7, <1>8

LEMMA WholeIsMultiple ==
    ASSUME NEW v \in Int
    PROVE  FractionOf(v) = 0 <=> v % One = 0
<1>1. One \in Nat /\ One > 0
  BY OneAssumption
<1>2. v % One = v - (One * (v \div One))
  BY <1>1
<1>3. FractionOf(v) = v - (One * (v \div One))
  <2> DEFINE q == v \div One
  <2>1. q \in Int /\ FractionOf(v) = v - (q * One)
    BY <1>1 DEF FractionOf, WholePart
  <2> HIDE DEF q
  <2>2. q * One = One * q
    BY <1>1, <2>1
  <2> QED BY <2>1, <2>2 DEF q
<1> QED BY <1>2, <1>3

\* The distances of integer columns from their bounds are whole.
LEMMA AwayWhole ==
    ASSUME Resting, WholeBounds, NEW P, Inside(P), WholeAt(P), NEW v \in AtBound, v \in Ints
    PROVE  Away(v, P) % One = 0
<1>1. /\ v \in Vars /\ v \in Cols /\ x[v] \in Int /\ P[v] \in Int
      /\ x[v] = IF basis.status[v] = "AtLower" THEN Low(v) ELSE Up(v)
  BY AwayInside DEF WholeBounds
<1>2. IsCol(v)
  BY <1>1, Shape DEF Resting
<1>3. x[v] % One = 0
  <2>1. basis.status[v] \in {"AtLower", "AtUpper"}
    BY DEF AtBound
  <2>2. CASE basis.status[v] = "AtLower"
    <3>1. Finite(Low(v)) /\ Low(v) = lp.lo[v] /\ x[v] = Low(v)
      BY <1>1, <1>2, <2>2 DEF Resting, StatusesFit, Low
    <3> QED BY <3>1 DEF WholeBounds
  <2>3. CASE basis.status[v] = "AtUpper"
    <3>1. Finite(Up(v)) /\ Up(v) = lp.up[v] /\ x[v] = Up(v)
      BY <1>1, <1>2, <2>3 DEF Resting, StatusesFit, Up
    <3> QED BY <3>1 DEF WholeBounds
  <2> QED BY <2>1, <2>2, <2>3
<1>4. P[v] % One = 0
  BY <1>1, WholeIsMultiple DEF WholeAt
<1>5. One \in Nat /\ One > 0
  BY OneAssumption
<1> DEFINE p == P[v] \div One
           q == x[v] \div One
<1>6. p \in Int /\ q \in Int /\ P[v] = One * p /\ x[v] = One * q
  BY <1>1, <1>3, <1>4, <1>5
<1> HIDE DEF p, q
<1>7. ASSUME NEW e \in Int
      PROVE  (One * e) % One = 0
  BY <1>5
<1>8. P[v] - x[v] = One * (p - q) /\ x[v] - P[v] = One * (q - p)
  BY <1>5, <1>6
<1>9. (P[v] - x[v]) % One = 0 /\ (x[v] - P[v]) % One = 0
  BY <1>6, <1>7, <1>8
<1> QED BY <1>9 DEF Away

\* The mixed-integer cut over the distances.
LEMMA CutHolds ==
    ASSUME Resting, NoFreeOutside, WholeBounds, NEW P, Inside(P), WholeAt(P),
           NEW i \in Rows, basis.basic[i] \in Ints, EvenCut(i)
    PROVE  /\ Fraction0(i) \in 0..(One - 1)
           /\ \A v \in AtBound : Weight(i, v) \in Int
           /\ IntegerOn([v \in AtBound |-> Weight(i, v) * Away(v, P)], AtBound)
           /\ Sum([v \in AtBound |-> Weight(i, v) * Away(v, P)], AtBound) >= Fraction0(i) * (One - Fraction0(i))
<1> DEFINE b == basis.basic[i]
           pi == Btran(fact, Unit(i, One))
           f0 == Fraction0(i)
           B == AtBound
           al == [v \in B |-> Entry(i, v)]
           ga == [v \in B |-> Weight(i, v)]
           dist == [v \in B |-> Away(v, P)]
<1>1. /\ b \in Vars /\ x[b] \in Int /\ P[b] \in Int /\ IsFiniteSet(B)
      /\ \A v \in B : FromBound(v, pi) \in Int
      /\ (One * (P[b] - x[b])) + Sum([v \in B |-> FromBound(v, pi) * Away(v, P)], B) = 0
  BY TableauLine
<1>2. One \in Nat /\ One > 0
  BY OneAssumption
<1>3. f0 \in 0..(One - 1) /\ x[b] = (One * (x[b] \div One)) + f0 /\ x[b] \div One \in Int
  <2>1. f0 = FractionOf(x[b])
    BY DEF Fraction0, Fraction
  <2> QED BY <1>1, <2>1, WholeAndFraction
<1>4. P[b] = One * (P[b] \div One) /\ P[b] \div One \in Int
  <2>1. FractionOf(P[b]) = 0
    BY DEF WholeAt
  <2>2. P[b] = (One * (P[b] \div One)) + FractionOf(P[b]) /\ P[b] \div One \in Int
    BY <1>1, WholeAndFraction
  <2> HIDE DEF b
  <2> QED BY <1>2, <2>1, <2>2
<1> DEFINE u == (P[b] \div One) - (x[b] \div One)
<1>5. u \in Int /\ P[b] - x[b] = (One * u) - f0
  <2> DEFINE p == P[b] \div One
             q == x[b] \div One
  <2>1. p \in Int /\ q \in Int /\ P[b] = One * p /\ x[b] = (One * q) + f0 /\ u = p - q /\ f0 \in Int
    BY <1>3, <1>4
  <2> HIDE DEF p, q, u, f0, b
  <2>2. One * u = (One * p) - (One * q) /\ One * p \in Int /\ One * q \in Int
    BY <1>2, <2>1
  <2> QED BY <2>1, <2>2
<1>6. ASSUME NEW v \in B
      PROVE  /\ al[v] \in Int /\ ga[v] \in Int /\ dist[v] \in Int
             /\ dist[v] >= 0 /\ (v \in Ints => dist[v] % One = 0)
             /\ One * ga[v] = GammaProduct(v \in Ints, al[v], f0)
  <2>1. al[v] = FromBound(v, pi) /\ al[v] = Entry(i, v) /\ ga[v] = Gamma(v, al[v], f0) /\ dist[v] = Away(v, P)
    BY DEF Entry, Weight
  <2>2. al[v] \in Int
    BY <1>1, <2>1
  <2>3. GammaProduct(v \in Ints, al[v], f0) % One = 0
    BY <2>1 DEF EvenCut
  <2>4. dist[v] \in Int /\ dist[v] >= 0
    BY <2>1, AwayInside
  <2>5. v \in Ints => dist[v] % One = 0
    BY <2>1, AwayWhole
  <2> HIDE DEF al, ga, dist, f0
  <2>6. ga[v] \in Int /\ One * ga[v] = GammaProduct(v \in Ints, al[v], f0)
    BY <1>3, <2>1, <2>2, <2>3, GammaWhole
  <2> QED BY <2>2, <2>4, <2>5, <2>6
<1>7. (One * ((One * u) - f0)) + Sum([v \in B |-> al[v] * dist[v]], B) = 0
  <2>1. [v \in B |-> al[v] * dist[v]] = [v \in B |-> FromBound(v, pi) * Away(v, P)]
    BY DEF Entry
  <2> HIDE DEF al, dist, u, f0, b, pi, B
  <2> QED BY <1>1, <1>5, <2>1
<1>8. [v \in B |-> ga[v] * dist[v]] = [v \in B |-> Weight(i, v) * Away(v, P)]
  OBVIOUS
<1>9. \A v \in B : Weight(i, v) \in Int
  BY <1>6
<1> HIDE DEF al, ga, dist, u, f0, b, pi, B
<1> DEFINE I == Ints
<1>10. Weighed(B, I, al, ga, dist, f0) /\ OnLine(B, al, dist, f0, u)
  BY <1>6, <1>7 DEF Weighed, OnLine
<1>11. IsFiniteSet(B) /\ f0 \in 0..(One - 1) /\ u \in Int
  BY <1>1, <1>3, <1>5
<1> HIDE DEF I
<1>12. /\ IntegerOn([v \in B |-> ga[v] * dist[v]], B)
       /\ Sum([v \in B |-> ga[v] * dist[v]], B) >= f0 * (One - f0)
  BY <1>10, <1>11, SumRounded
<1> QED BY <1>3, <1>8, <1>9, <1>12 DEF f0, B

-----------------------------------------------------------------------------
(* The cut in the columns.                                                 *)

\* Rows M[v] weighted with w, and a point p read along one of them.
Mixed(w, M, R, j) == [v \in R |-> w[v] * M[v][j]]
Taken(M, p, S, v) == [j \in S |-> M[v][j] * p[j]]

\* Weighting the rows first gives a, reading the point first e.
BothWays(R, S, w, p, M, a, e) ==
    /\ \A v \in R, j \in S : M[v][j] \in Int
    /\ a = [j \in S |-> Sum(Mixed(w, M, R, j), R)]
    /\ e = [v \in R |-> Sum(Taken(M, p, S, v), S)]

\* Either way the total is the same.
LEMMA SumThrough ==
    ASSUME NEW R, IsFiniteSet(R), NEW S, IsFiniteSet(S), NEW w, IntegerOn(w, R), NEW p, IntegerOn(p, S),
           NEW M, NEW a, NEW e, BothWays(R, S, w, p, M, a, e)
    PROVE  /\ IntegerOn(a, S) /\ IntegerOn(e, R)
           /\ Sum([j \in S |-> a[j] * p[j]], S) = Sum([v \in R |-> w[v] * e[v]], R)
<1> DEFINE q == [v \in R |-> [j \in S |-> (w[v] * M[v][j]) * p[j]]]
           ap == [j \in S |-> a[j] * p[j]]
           we == [v \in R |-> w[v] * e[v]]
<1>1. ASSUME NEW v \in R, NEW j \in S
      PROVE  /\ w[v] \in Int /\ M[v][j] \in Int /\ p[j] \in Int
             /\ Mixed(w, M, R, j)[v] = w[v] * M[v][j] /\ Mixed(w, M, R, j)[v] \in Int
             /\ Taken(M, p, S, v)[j] = M[v][j] * p[j] /\ Taken(M, p, S, v)[j] \in Int
             /\ q[v][j] = (w[v] * M[v][j]) * p[j] /\ q[v][j] \in Int
  <2>1. w[v] \in Int /\ M[v][j] \in Int /\ p[j] \in Int
    BY DEF IntegerOn, BothWays
  <2>2. w[v] * M[v][j] \in Int /\ M[v][j] * p[j] \in Int /\ (w[v] * M[v][j]) * p[j] \in Int
    BY <2>1
  <2> QED BY <2>1, <2>2 DEF Mixed, Taken
<1> HIDE DEF q
<1>2. ASSUME NEW j \in S
      PROVE  a[j] \in Int /\ ap[j] \in Int /\ Sum(Slice(q, R, j), R) = ap[j]
  <2> DEFINE f == Mixed(w, M, R, j)
             h == Slice(q, R, j)
             k == p[j]
  <2>1. k \in Int
    BY DEF IntegerOn
  <2>2. IntegerOn(f, R) /\ IntegerOn(h, R)
    BY <1>1 DEF IntegerOn, Slice
  <2>3. \A v \in R : 1 * h[v] = k * f[v]
    <3> TAKE v \in R
    <3> DEFINE m == w[v] * M[v][j]
    <3>1. h[v] = m * k /\ f[v] = m /\ m \in Int
      BY <1>1 DEF Slice
    <3> HIDE DEF h, f, m, k
    <3> QED BY <2>1, <3>1
  <2>4. a[j] = Sum(f, R) /\ ap[j] = a[j] * k
    BY DEF BothWays
  <2> HIDE DEF f, h, k, ap
  <2>5. 1 * Sum(h, R) = k * Sum(f, R) /\ Sum(f, R) \in Int /\ Sum(h, R) \in Int
    BY <2>1, <2>2, <2>3, SumScaled, SumInteger
  <2>6. Sum(h, R) = ap[j] /\ ap[j] \in Int /\ a[j] \in Int
    BY <2>1, <2>4, <2>5
  <2> QED BY <2>6 DEF h
<1>3. ASSUME NEW v \in R
      PROVE  e[v] \in Int /\ we[v] \in Int /\ Sum(Line(q, S, v), S) = we[v]
  <2> DEFINE f == Taken(M, p, S, v)
             h == Line(q, S, v)
             k == w[v]
  <2>1. k \in Int
    BY DEF IntegerOn
  <2>2. IntegerOn(f, S) /\ IntegerOn(h, S)
    BY <1>1 DEF IntegerOn, Line
  <2>3. \A j \in S : 1 * h[j] = k * f[j]
    <3> TAKE j \in S
    <3>1. h[j] = (k * M[v][j]) * p[j] /\ f[j] = M[v][j] * p[j] /\ M[v][j] \in Int /\ p[j] \in Int
      BY <1>1 DEF Line
    <3> DEFINE s == M[v][j]
               t == p[j]
    <3>2. h[j] = (k * s) * t /\ f[j] = s * t /\ s \in Int /\ t \in Int
      BY <3>1
    <3> HIDE DEF h, f, k, s, t
    <3>3. (k * s) * t = k * (s * t)
      BY <2>1, <3>2
    <3> QED BY <2>1, <3>2, <3>3
  <2>4. e[v] = Sum(f, S) /\ we[v] = k * e[v]
    BY DEF BothWays
  <2> HIDE DEF f, h, k, we
  <2>5. 1 * Sum(h, S) = k * Sum(f, S) /\ Sum(f, S) \in Int /\ Sum(h, S) \in Int
    BY <2>1, <2>2, <2>3, SumScaled, SumInteger
  <2>6. Sum(h, S) = we[v] /\ we[v] \in Int /\ e[v] \in Int
    BY <2>1, <2>4, <2>5
  <2> QED BY <2>6 DEF h
<1> HIDE DEF ap, we
<1>4. Sum(ByCols(q, R, S, R), S) = Sum(ByRows(q, R, S), R)
  BY <1>1, SumExchange
<1>5. Sum(ByCols(q, R, S, R), S) = Sum(ap, S)
  <2>1. \A j \in S : ByCols(q, R, S, R)[j] = ap[j]
    BY <1>2 DEF ByCols
  <2> QED BY <2>1, SumAgrees
<1>6. Sum(ByRows(q, R, S), R) = Sum(we, R)
  <2>1. \A v \in R : ByRows(q, R, S)[v] = we[v]
    BY <1>3 DEF ByRows
  <2> QED BY <2>1, SumAgrees
<1>7. IntegerOn(a, S) /\ IntegerOn(e, R)
  BY <1>2, <1>3 DEF IntegerOn, BothWays
<1> QED BY <1>4, <1>5, <1>6, <1>7 DEF ap, we

\* A variable, read in the columns: a column is itself, a slack the activity of its row.
LEMMA ReadInColumns ==
    ASSUME IsProgram(lp), NEW p \in [Cols -> Int], NEW v \in Vars
    PROVE  /\ \A j \in Cols : InColumns(v, j) \in Int
           /\ Extended(p)[v] = Sum([j \in Cols |-> InColumns(v, j) * p[j]], Cols)
<1> DEFINE f == [j \in Cols |-> InColumns(v, j) * p[j]]
<1>1. Extended(p)[v] = IF IsCol(v) THEN p[v] ELSE Activity(v - lp.n, p)
  BY DEF Extended
<1>2. IsFiniteSet(Cols)
  BY Shape
<1>3. CASE IsCol(v)
  <2>1. v \in Cols /\ \A j \in Cols : InColumns(v, j) = IF v = j THEN 1 ELSE 0
    BY <1>3, Shape DEF InColumns
  <2>2. \A j \in Cols : f[j] = IF v = j THEN p[j] ELSE 0
    <3> TAKE j \in Cols
    <3>1. p[j] \in Int
      OBVIOUS
    <3>2. 1 * p[j] = p[j] /\ 0 * p[j] = 0
      BY <3>1
    <3> QED BY <2>1, <3>2
  <2>3. IntegerOn(f, Cols) /\ f[v] = p[v] /\ p[v] \in Int
    BY <2>1, <2>2 DEF IntegerOn
  <2> HIDE DEF f
  <2>4. Sum(f, Cols) = Sum(f, {v})
    <3>1. {v} \subseteq Cols /\ \A j \in Cols \ {v} : f[j] = 0
      BY <2>1, <2>2
    <3> QED BY <1>2, <2>3, <3>1, SumWithoutZeros
  <2>5. Sum(f, {v}) = f[v] + Sum(f, {v} \ {v})
    <3>1. IsFiniteSet({v}) /\ IntegerOn(f, {v}) /\ v \in {v}
      BY <2>3, FS_Singleton DEF IntegerOn
    <3> QED BY <3>1, SumTakes
  <2>6. {v} \ {v} = {} /\ Sum(f, {}) = 0
    BY SumEmpty
  <2>7. Sum(f, Cols) = p[v]
    BY <2>3, <2>4, <2>5, <2>6
  <2> QED BY <1>1, <1>3, <2>1, <2>7 DEF f
<1>4. CASE ~IsCol(v)
  <2>1. v - lp.n \in Rows /\ \A j \in Cols : InColumns(v, j) = lp.a[v - lp.n][j]
    BY <1>4, Shape DEF InColumns
  <2>2. f = [j \in Cols |-> lp.a[v - lp.n][j] * p[j]]
    BY <2>1
  <2>3. Activity(v - lp.n, p) = Sum(f, Cols)
    BY <2>1, <2>2, ActivityIsSum
  <2>4. \A j \in Cols : InColumns(v, j) \in Int
    BY <2>1, Entries, Shape
  <2> QED BY <1>1, <1>4, <2>3, <2>4
<1> QED BY <1>3, <1>4

\* What generate_gomory_cuts computes, in these terms.
RawRow(i) == [j \in Cols |-> Sum([v \in AtBound |-> Signed(i, v) * InColumns(v, j)], AtBound)]
RawSide(i) == Times(Fraction0(i), One - Fraction0(i))
                + Sum([v \in AtBound |-> Times(Signed(i, v), BoundOf(v))], AtBound)

LEMMA RawCutIs ==
    ASSUME NEW i
    PROVE  RawCut(i) = [a |-> RawRow(i), rlo |-> One * RawSide(i)]
<1> DEFINE g == [v \in AtBound |-> (IF basis.status[v] = "AtLower" THEN 1 ELSE -1)
                                     * Gamma(v, FromBound(v, Btran(fact, Unit(i, One))), Fraction(basis.basic[i]))]
<1>1. \A v \in AtBound : g[v] = Signed(i, v)
  BY DEF Signed, Weight, Entry, Fraction0
<1>2. RawCut(i) =
        [a |-> [j \in Cols |-> Sum([v \in AtBound |-> g[v] * InColumns(v, j)], AtBound)],
         rlo |-> One * (Times(Fraction0(i), One - Fraction0(i))
                          + Sum([v \in AtBound |-> Times(g[v], BoundOf(v))], AtBound))]
  BY DEF RawCut, Total, SumFunction, Sum, AtBound, InColumns, BoundOf, Fraction0
<1>3. \A j : [v \in AtBound |-> g[v] * InColumns(v, j)] = [v \in AtBound |-> Signed(i, v) * InColumns(v, j)]
  BY <1>1
<1>4. [v \in AtBound |-> Times(g[v], BoundOf(v))] = [v \in AtBound |-> Times(Signed(i, v), BoundOf(v))]
  BY <1>1
<1> HIDE DEF g
<1> QED BY <1>2, <1>3, <1>4 DEF RawRow, RawSide

\* One term of the cut: the weighted distance from the bound is the weighted value less the
\* weighted bound.
LEMMA TermInColumns ==
    ASSUME Resting, NEW P, Inside(P), NEW i, NEW v \in AtBound, Weight(i, v) \in Int,
           (Signed(i, v) * BoundOf(v)) % One = 0
    PROVE  /\ Signed(i, v) \in Int /\ Times(Signed(i, v), BoundOf(v)) \in Int /\ P[v] \in Int
           /\ Weight(i, v) * Away(v, P) \in Int /\ Signed(i, v) * P[v] \in Int
           /\ Signed(i, v) * P[v] = (Weight(i, v) * Away(v, P)) + (One * Times(Signed(i, v), BoundOf(v)))
<1> DEFINE w == Weight(i, v)
           s == Signed(i, v)
           b == BoundOf(v)
           t == Times(s, b)
           e == Away(v, P)
<1>1. P[v] \in Int /\ x[v] \in Int /\ e \in Int /\ b = x[v] /\ w \in Int
  BY AwayInside DEF BoundOf
<1>2. \/ s = 1 * w /\ e = P[v] - b
      \/ s = (-1) * w /\ e = b - P[v]
  BY <1>1 DEF Signed, Away
<1>3. (s * b) % One = 0
  OBVIOUS
<1> DEFINE z == P[v]
<1>4. z \in Int
  BY <1>1
<1> SUFFICES s \in Int /\ t \in Int /\ z \in Int /\ w * e \in Int /\ s * z \in Int /\ s * z = (w * e) + (One * t)
  OBVIOUS
<1> HIDE DEF w, s, b, e, z
<1>5. s \in Int /\ b \in Int
  BY <1>1, <1>2
<1>6. t \in Int /\ One * t = s * b
  BY <1>3, <1>5, TimesWhole
<1> HIDE DEF t
<1>7. s * z = (w * e) + (s * b)
  <2>1. CASE s = 1 * w /\ e = P[v] - b
    <3>1. s = w /\ e = z - b
      BY <1>1, <2>1 DEF z
    <3>2. w * z = (w * (z - b)) + (w * b)
      BY <1>1, <1>4, <1>5
    <3> QED BY <3>1, <3>2
  <2>2. CASE s = (-1) * w /\ e = b - P[v]
    <3>1. s = -w /\ e = b - z
      BY <1>1, <2>2 DEF z
    <3>2. (-w) * z = (w * (b - z)) + ((-w) * b)
      BY <1>1, <1>4, <1>5
    <3> QED BY <3>1, <3>2
  <2> QED BY <1>2, <2>1, <2>2
<1>8. w * e \in Int /\ s * z \in Int
  BY <1>1, <1>4, <1>5
<1> QED BY <1>4, <1>5, <1>6, <1>7, <1>8

\* The cut as a row over the columns holds at a point of the program that is whole in the
\* integer columns.
LEMMA RawCutHolds ==
    ASSUME Resting, NoFreeOutside, WholeBounds, NEW p \in [Cols -> Int], FeasiblePoint(p), WholeAt(p),
           NEW i \in Rows, basis.basic[i] \in Ints, EvenCut(i)
    PROVE  /\ RawRow(i) \in [Cols -> Int] /\ RawSide(i) \in Int
           /\ Sum([j \in Cols |-> RawRow(i)[j] * p[j]], Cols) >= One * RawSide(i)
<1> DEFINE P == Extended(p)
           B == AtBound
           f0 == Fraction0(i)
           s == [v \in B |-> Signed(i, v)]
           M == [v \in B |-> [j \in Cols |-> InColumns(v, j)]]
           a == RawRow(i)
           e == [v \in B |-> P[v]]
           se == [v \in B |-> s[v] * e[v]]
           we == [v \in B |-> Weight(i, v) * Away(v, P)]
           t == [v \in B |-> Times(Signed(i, v), BoundOf(v))]
           ap == [j \in Cols |-> a[j] * p[j]]
<1>1. IsProgram(lp) /\ One \in Nat /\ One > 0 /\ IsFiniteSet(Cols)
  BY OneAssumption, Shape DEF Resting
<1>2. Inside(P)
  BY <1>1, ExtendedSolves DEF Inside
<1>3. WholeAt(P)
  <2>1. \A j \in Ints : P[j] = p[j]
    BY <1>1, Shape DEF Extended, WholeBounds
  <2> QED BY <2>1 DEF WholeAt
<1>4. /\ f0 \in 0..(One - 1) /\ \A v \in B : Weight(i, v) \in Int
      /\ IntegerOn(we, B) /\ Sum(we, B) >= f0 * (One - f0)
  BY <1>2, <1>3, CutHolds
<1>5. IsFiniteSet(B) /\ B \subseteq Vars
  BY <1>1, Shape, FS_Subset DEF AtBound, Resting, Partition
<1>6. ASSUME NEW v \in B
      PROVE  /\ s[v] \in Int /\ t[v] \in Int /\ se[v] \in Int
             /\ se[v] = we[v] + (One * t[v])
             /\ e[v] = Sum(Taken(M, p, Cols, v), Cols)
             /\ \A j \in Cols : M[v][j] \in Int
  <2>1. (Signed(i, v) * BoundOf(v)) % One = 0 /\ Weight(i, v) \in Int
    BY <1>4 DEF EvenCut
  <2>2. /\ Signed(i, v) \in Int /\ Times(Signed(i, v), BoundOf(v)) \in Int /\ P[v] \in Int
        /\ Signed(i, v) * P[v] \in Int
        /\ Signed(i, v) * P[v] = (Weight(i, v) * Away(v, P)) + (One * Times(Signed(i, v), BoundOf(v)))
    BY <1>2, <2>1, TermInColumns
  <2>3. /\ \A j \in Cols : InColumns(v, j) \in Int
        /\ P[v] = Sum([j \in Cols |-> InColumns(v, j) * p[j]], Cols)
    BY <1>1, <1>5, ReadInColumns
  <2>4. Taken(M, p, Cols, v) = [j \in Cols |-> InColumns(v, j) * p[j]]
    BY DEF Taken
  <2> QED BY <2>2, <2>3, <2>4
<1>7. a = [j \in Cols |-> Sum(Mixed(s, M, B, j), B)]
  <2>1. \A j \in Cols : Mixed(s, M, B, j) = [v \in B |-> Signed(i, v) * InColumns(v, j)]
    BY DEF Mixed
  <2> QED BY <2>1 DEF RawRow
<1>8. e = [v \in B |-> Sum(Taken(M, p, Cols, v), Cols)]
  BY <1>6
<1>9. /\ IntegerOn(s, B) /\ IntegerOn(t, B) /\ IntegerOn(se, B) /\ IntegerOn(p, Cols)
      /\ BothWays(B, Cols, s, p, M, a, e)
  BY <1>6, <1>7, <1>8 DEF IntegerOn, BothWays
<1>10. \A v \in B : se[v] = we[v] + (One * t[v])
  BY <1>6
<1>11. RawSide(i) = Times(f0, One - f0) + Sum(t, B)
  BY DEF RawSide
<1>12. (f0 * (One - f0)) % One = 0
  BY DEF EvenCut
<1> HIDE DEF s, M, a, e, t, we, f0, B, P
<1>13. IntegerOn(a, Cols) /\ Sum(ap, Cols) = Sum(se, B)
  BY <1>1, <1>5, <1>9, SumThrough
<1> HIDE DEF se, ap
<1>14. 1 * Sum(se, B) = (1 * Sum(we, B)) + (One * Sum(t, B))
  <2>1. \A v \in B : se[v] \in Int /\ we[v] \in Int /\ t[v] \in Int
    BY <1>4, <1>9 DEF IntegerOn
  <2>2. Combines(se, we, t, 1, 1, One, B)
    BY <1>1, <1>10, <2>1 DEF Combines
  <2> QED BY <1>1, <1>4, <1>5, <1>9, <2>2, SumCombines
<1>15. Sum(se, B) \in Int /\ Sum(we, B) \in Int /\ Sum(t, B) \in Int
  BY <1>4, <1>5, <1>9, SumInteger
<1>16. Times(f0, One - f0) \in Int /\ One * Times(f0, One - f0) = f0 * (One - f0)
  <2>1. f0 \in Int /\ One - f0 \in Int
    BY <1>1, <1>4
  <2> QED BY <1>12, <2>1, TimesWhole
<1>17. RawSide(i) \in Int /\ One * RawSide(i) = (f0 * (One - f0)) + (One * Sum(t, B))
  <2> DEFINE k == Times(f0, One - f0)
             m == Sum(t, B)
  <2>1. k \in Int /\ m \in Int /\ RawSide(i) = k + m /\ One * k = f0 * (One - f0)
    BY <1>11, <1>15, <1>16
  <2> HIDE DEF k, m
  <2>2. One * (k + m) = (One * k) + (One * m)
    BY <1>1, <2>1
  <2> QED BY <2>1, <2>2 DEF m
<1>18. Sum(ap, Cols) >= One * RawSide(i)
  <2> DEFINE u == Sum(we, B)
             m == One * Sum(t, B)
             k == f0 * (One - f0)
  <2>1. u \in Int /\ m \in Int /\ k \in Int /\ u >= k /\ Sum(se, B) = u + m /\ One * RawSide(i) = k + m
    BY <1>1, <1>4, <1>14, <1>15, <1>17
  <2> HIDE DEF u, m, k
  <2> QED BY <1>13, <2>1
<1>19. a \in [Cols -> Int]
  BY <1>7, <1>13 DEF IntegerOn
<1> QED BY <1>17, <1>18, <1>19 DEF a, ap

LEMMA MultiplesDivide ==
    ASSUME NEW k \in Nat, k > 0, NEW e \in Int
    PROVE  (k * e) % k = 0
  OBVIOUS

\* What Reduced divides by divides every coefficient.
LEMMA DivisorDivides ==
    ASSUME NEW cut, \A j \in Cols : cut.a[j] \in Int
    PROVE  /\ Divisor(cut) \in Nat /\ Divisor(cut) > 0
           /\ \A j \in Cols : cut.a[j] % Divisor(cut) = 0
<1> DEFINE D == {e \in 1..(4 * One) : \A j \in Cols : Magnitude(cut.a[j]) % e = 0}
           S == {1} \cup D
           k == Divisor(cut)
<1>1. One \in Nat
  BY OneAssumption
<1>2. IsFiniteSet(S)
  <2>1. IsFiniteSet(1..(4 * One)) /\ D \subseteq 1..(4 * One)
    BY <1>1, FS_Interval
  <2> HIDE DEF D
  <2>2. IsFiniteSet(D) /\ IsFiniteSet({1})
    BY <2>1, FS_Subset, FS_Singleton
  <2> QED BY <2>2, FS_Union
<1>3. S \subseteq Int /\ S # {} /\ 1 \in S
  BY <1>1
<1>4. k = Max(S)
  BY DEF Divisor
<1>5. k \in S
  <2> HIDE DEF S, k
  <2> QED BY <1>2, <1>3, <1>4, HasGreatest
<1>6. k \in Nat /\ k > 0
  BY <1>1, <1>5
<1>7. ASSUME NEW j \in Cols
      PROVE  cut.a[j] % k = 0
  <2> DEFINE n == cut.a[j]
  <2>1. n \in Int /\ Magnitude(n) = (IF n < 0 THEN -n ELSE n) /\ (k = 1 \/ Magnitude(n) % k = 0)
    BY <1>5 DEF Magnitude
  <2> HIDE DEF n, k
  <2>2. CASE k = 1
    BY <2>1, <2>2
  <2>3. CASE Magnitude(n) % k = 0
    <3> DEFINE w == Magnitude(n)
               q == Ratio(w, k)
    <3>1. w \in Int /\ w % k = 0 /\ (w = n \/ w = -n)
      BY <2>1, <2>3
    <3> HIDE DEF w
    <3>2. q \in Int /\ w = k * q
      BY <1>6, <2>1, <3>1, RatioWhole
    <3> HIDE DEF q
    <3>3. n = k * q \/ n = k * (-q)
      BY <1>6, <2>1, <3>1, <3>2
    <3>4. (k * q) % k = 0 /\ (k * (-q)) % k = 0
      <4>1. -q \in Int
        BY <3>2
      <4> QED BY <1>6, <3>2, <4>1, MultiplesDivide
    <3>5. n % k = 0
      BY <3>3, <3>4
    <3> QED BY <3>5 DEF n
  <2> QED BY <2>1, <2>2, <2>3 DEF n
<1> QED BY <1>6, <1>7

\* The reduced row bounds the same half-space.
LEMMA ReducedHolds ==
    ASSUME NEW cut, cut.a \in [Cols -> Int], cut.rlo \in Int, cut.rlo % Divisor(cut) = 0, IsFiniteSet(Cols),
           NEW p \in [Cols -> Int], Sum([j \in Cols |-> cut.a[j] * p[j]], Cols) >= cut.rlo
    PROVE  /\ Reduced(cut).a \in [Cols -> Int] /\ Reduced(cut).rlo \in Int
           /\ Sum([j \in Cols |-> Reduced(cut).a[j] * p[j]], Cols) >= Reduced(cut).rlo
<1> DEFINE k == Divisor(cut)
           a == Reduced(cut).a
           b == Reduced(cut).rlo
           f == [j \in Cols |-> cut.a[j] * p[j]]
           g == [j \in Cols |-> a[j] * p[j]]
<1>1. a = [j \in Cols |-> Ratio(cut.a[j], k)] /\ b = Ratio(cut.rlo, k)
  BY DEF Reduced, Divisor
<1>2. k \in Nat /\ k > 0 /\ \A j \in Cols : cut.a[j] \in Int /\ cut.a[j] % k = 0
  BY DivisorDivides
<1>3. b \in Int /\ k * b = cut.rlo
  <2>1. cut.rlo % k = 0
    OBVIOUS
  <2> HIDE DEF k, b
  <2> QED BY <1>1, <1>2, <2>1, RatioWhole
<1>4. ASSUME NEW j \in Cols
      PROVE  a[j] \in Int /\ f[j] \in Int /\ g[j] \in Int /\ 1 * f[j] = k * g[j]
  <2> DEFINE n == cut.a[j]
             m == a[j]
             t == p[j]
  <2>1. n \in Int /\ n % k = 0 /\ m = Ratio(n, k) /\ t \in Int /\ f[j] = n * t /\ g[j] = m * t
    BY <1>1, <1>2
  <2> HIDE DEF n, m, t, k, f, g, a
  <2>2. m \in Int /\ k * m = n
    BY <1>2, <2>1, RatioWhole
  <2>3. (k * m) * t = k * (m * t) /\ n * t \in Int /\ m * t \in Int
    BY <1>2, <2>1, <2>2
  <2> QED BY <2>1, <2>2, <2>3 DEF m
<1>5. a \in [Cols -> Int]
  BY <1>1, <1>4
<1>6. Sum(f, Cols) >= cut.rlo
  OBVIOUS
<1> HIDE DEF f, g, k, a, b
<1>7. IntegerOn(f, Cols) /\ IntegerOn(g, Cols) /\ \A j \in Cols : 1 * f[j] = k * g[j]
  BY <1>4 DEF IntegerOn
<1>8. 1 * Sum(f, Cols) = k * Sum(g, Cols) /\ Sum(f, Cols) \in Int /\ Sum(g, Cols) \in Int
  BY <1>2, <1>7, SumScaled, SumInteger
<1>9. Sum(g, Cols) >= b
  <2> DEFINE u == Sum(g, Cols)
  <2>1. u \in Int /\ k * u >= k * b
    BY <1>2, <1>3, <1>6, <1>8
  <2> HIDE DEF u
  <2>2. CASE u < b
    <3>1. b >= u + 1
      BY <1>3, <2>1, <2>2
    <3>2. k * b >= k * (u + 1)
      <4> DEFINE r == b - (u + 1)
      <4>1. r \in Int /\ r >= 0 /\ b = (u + 1) + r
        BY <1>3, <2>1, <3>1
      <4> HIDE DEF r
      <4>2. k * b = (k * (u + 1)) + (k * r) /\ k * r >= 0 /\ k * r \in Int /\ k * (u + 1) \in Int
        BY <1>2, <2>1, <4>1
      <4> QED BY <4>2
    <3>3. k * (u + 1) = (k * u) + k /\ k * u \in Int
      BY <1>2, <2>1
    <3> QED BY <1>2, <1>3, <2>1, <3>2, <3>3
  <2>3. CASE ~(u < b)
    BY <1>3, <2>1, <2>3 DEF u
  <2> QED BY <2>2, <2>3
<1> QED BY <1>3, <1>5, <1>9 DEF g, a, b

-----------------------------------------------------------------------------
(* The rows that are added.                                                *)

LEMMA NthExists ==
    ASSUME NEW U, IsFiniteSet(U), U \subseteq Int, NEW k \in 1..Cardinality(U)
    PROVE  NthRow(U, k) \in U
<1> DEFINE Under(T, i) == {l \in T : l < i}
           Counted(T) == \A n \in 1..Cardinality(T) : \E i \in T : Cardinality(Under(T, i)) = n - 1
           D == {T \in SUBSET U : ~Counted(T)}
<1>1. D = {}
  <2> SUFFICES ASSUME D # {}  PROVE FALSE
    OBVIOUS
  <2>1. PICK T \in D : \A V \in D : V \subseteq T => V = T
    <3>1. IsFiniteSet(U) /\ D \subseteq SUBSET U /\ D # {}
      OBVIOUS
    <3> HIDE DEF D
    <3> QED BY ONLY <3>1, LeastSubset
  <2>2. T \subseteq U /\ ~Counted(T) /\ IsFiniteSet(T) /\ T \subseteq Int
    BY <2>1, FS_Subset
  <2>3. T # {}
    <3> SUFFICES ASSUME T = {} PROVE FALSE
      OBVIOUS
    <3>1. Cardinality(T) = 0
      BY FS_EmptySet
    <3>2. 1..Cardinality(T) = {}
      BY <3>1
    <3> QED BY <2>2, <3>2
  <2> DEFINE m == Max(T)
             V == T \ {m}
  <2>4. m \in T /\ \A l \in T : m >= l
    BY <2>2, <2>3, HasGreatest
  <2> HIDE DEF m
  <2>5. /\ IsFiniteSet(V) /\ Cardinality(V) = Cardinality(T) - 1
        /\ Cardinality(T) \in Nat /\ V \subseteq T /\ V # T /\ V \subseteq U
    BY <2>2, <2>4, FS_RemoveElement, FS_CardinalityType
  <2>6. Counted(V)
    BY <2>1, <2>5
  <2>7. ASSUME NEW n \in 1..Cardinality(T)
        PROVE  \E i \in T : Cardinality(Under(T, i)) = n - 1
    <3>1. CASE n = Cardinality(T)
      <4>1. Under(T, m) = V
        <5>1. \A l \in T : l < m <=> l # m
          <6> TAKE l \in T
          <6>1. l \in Int /\ m \in Int /\ m >= l
            BY <2>2, <2>4
          <6> QED BY <6>1
        <5> QED BY <5>1
      <4> QED BY <2>4, <2>5, <3>1, <4>1
    <3>2. CASE n # Cardinality(T)
      <4>1. n \in 1..Cardinality(V)
        BY <2>5, <3>2
      <4>2. PICK i \in V : Cardinality(Under(V, i)) = n - 1
        BY <2>6, <4>1
      <4>3. Under(T, i) = Under(V, i)
        <5>1. i \in T /\ i \in Int /\ m \in Int /\ m >= i /\ ~(m < i)
          BY <2>2, <2>4, <4>2
        <5> QED BY <5>1
      <4> QED BY <4>2, <4>3
    <3> QED BY <3>1, <3>2
  <2> QED BY <2>2, <2>7
<1>2. Counted(U)
  BY <1>1
<1>3. \E i \in U : Cardinality({l \in U : l < i}) = k - 1
  BY <1>2
<1> QED BY <1>3 DEF NthRow

\* The rows Cuts chooses from, and how many it takes.
Used == {i \in CutRows : \E j \in Cols : RawCut(i).a[j] # 0}
CutCount == Smaller(MaxCuts, Cardinality(Used))

LEMMA CutsTaken ==
    ASSUME Resting
    PROVE  /\ CutCount \in Nat
           /\ \E s \in [1..CutCount -> CutRows] : Cuts = [k \in 1..CutCount |-> Reduced(RawCut(s[k]))]
<1> DEFINE U == Used
           N == CutCount
           s == [k \in 1..N |-> NthRow(U, k)]
<1>1. IsFiniteSet(Rows) /\ Rows \subseteq Int /\ DOMAIN basis.basic = Rows
  BY Shape DEF Resting, Partition, IsValid, Rows
<1>2. U \subseteq CutRows /\ U \subseteq Rows /\ U \subseteq Int
  BY <1>1 DEF Used, CutRows
<1>3. IsFiniteSet(U) /\ Cardinality(U) \in Nat
  <2> HIDE DEF U
  <2> QED BY <1>1, <1>2, FS_Subset, FS_CardinalityType
<1>4. N \in Nat /\ N <= Cardinality(U)
  BY <1>3, LimitsAssumption DEF CutCount, Smaller
<1>5. \A k \in 1..N : NthRow(U, k) \in CutRows
  <2> SUFFICES ASSUME NEW k \in 1..N
               PROVE  NthRow(U, k) \in CutRows
    OBVIOUS
  <2> HIDE DEF U, N
  <2>1. k \in 1..Cardinality(U)
    BY <1>3, <1>4
  <2>2. NthRow(U, k) \in U
    BY <1>2, <1>3, <2>1, NthExists
  <2> QED BY <1>2, <2>2
<1>6. Cuts = [k \in 1..N |-> Reduced(RawCut(s[k]))]
  <2> DEFINE all == [i \in CutRows |-> RawCut(i)]
  <2>1. Used = {i \in CutRows : \E j \in Cols : all[i].a[j] # 0}
    BY DEF Used
  <2>2. Cuts = [k \in 1..N |-> Reduced(all[NthRow(U, k)])]
    BY <2>1 DEF Cuts, CutCount
  <2>3. \A k \in 1..N : all[NthRow(U, k)] = RawCut(s[k])
    BY <1>5
  <2> HIDE DEF all, s, U, N
  <2> QED BY <2>2, <2>3
<1>7. s \in [1..N -> CutRows]
  BY <1>5
<1> HIDE DEF s, N
<1>8. \E t \in [1..N -> CutRows] : Cuts = [k \in 1..N |-> Reduced(RawCut(t[k]))]
  BY <1>6, <1>7
<1> QED BY <1>4, <1>8 DEF N

\* Every row that is added holds at every point of the program that is whole in the
\* integer columns.
LEMMA CutsHold ==
    ASSUME Resting, CutsFit, NEW k \in 1..CutCount,
           NEW p \in [Cols -> Int], FeasiblePoint(p), WholeAt(p)
    PROVE  /\ Cuts[k].a \in [Cols -> Int] /\ Cuts[k].rlo \in Int
           /\ Sum([j \in Cols |-> Cuts[k].a[j] * p[j]], Cols) >= Cuts[k].rlo
<1>1. PICK s \in [1..CutCount -> CutRows] : Cuts = [l \in 1..CutCount |-> Reduced(RawCut(s[l]))]
  BY CutsTaken
<1> DEFINE i == s[k]
           cut == RawCut(i)
<1>2. i \in CutRows /\ Cuts[k] = Reduced(cut)
  BY <1>1
<1>3. IsFiniteSet(Cols) /\ One \in Nat /\ DOMAIN basis.basic = Rows
  BY OneAssumption, Shape DEF Resting, Partition, IsValid
<1> HIDE DEF i
<1>4. i \in Rows /\ basis.basic[i] \in Ints /\ EvenCut(i) /\ NoFreeOutside /\ WholeBounds
  BY <1>2, <1>3 DEF CutRows, CutsFit
<1>5. cut.a = RawRow(i) /\ cut.rlo = One * RawSide(i)
  BY RawCutIs
<1>6. cut.rlo % Divisor(cut) = 0
  BY <1>4 DEF EvenCut
<1> HIDE DEF cut
<1>7. /\ RawRow(i) \in [Cols -> Int] /\ RawSide(i) \in Int
      /\ Sum([j \in Cols |-> RawRow(i)[j] * p[j]], Cols) >= One * RawSide(i)
  BY <1>4, RawCutHolds
<1>8. cut.a \in [Cols -> Int] /\ cut.rlo \in Int /\ Sum([j \in Cols |-> cut.a[j] * p[j]], Cols) >= cut.rlo
  BY <1>3, <1>5, <1>7
<1> QED BY <1>2, <1>3, <1>6, <1>8, ReducedHolds

\* One sequence after another, by index.
LEMMA Appended ==
    ASSUME NEW S, NEW m \in Nat, NEW n \in Nat, NEW s \in [1..m -> S], NEW t \in [1..n -> S]
    PROVE  /\ \A r \in 1..m : (s \o t)[r] = s[r]
           /\ \A k \in 1..n : (s \o t)[m + k] = t[k]
<1>1. s \in Seq(S) /\ t \in Seq(S) /\ Len(s) = m /\ Len(t) = n
  OBVIOUS
<1>2. \A i \in 1..(m + n) : (s \o t)[i] = IF i <= m THEN s[i] ELSE t[i - m]
  BY <1>1, ConcatProperties
<1>3. \A r \in 1..m : r \in 1..(m + n) /\ r <= m
  OBVIOUS
<1>4. \A k \in 1..n : m + k \in 1..(m + n) /\ ~(m + k <= m) /\ (m + k) - m = k
  OBVIOUS
<1> QED BY <1>2, <1>3, <1>4

\* The program with the cuts: the old rows first, then the new ones, which bound from below.
LEMMA RowsAppended ==
    ASSUME Resting, NEW q, q = WithCuts(Cuts)
    PROVE  /\ q.n = lp.n /\ q.lo = lp.lo /\ q.up = lp.up /\ q.m = lp.m + CutCount
           /\ \A r \in 1..lp.m : q.a[r] = lp.a[r] /\ q.rlo[r] = lp.rlo[r] /\ q.rup[r] = lp.rup[r]
           /\ \A k \in 1..CutCount : /\ q.a[lp.m + k] = Cuts[k].a /\ q.rlo[lp.m + k] = Cuts[k].rlo
                                     /\ q.rup[lp.m + k] = Infinity
<1> DEFINE m == lp.m
           n == CutCount
           a == [k \in 1..n |-> Cuts[k].a]
           lower == [k \in 1..n |-> Cuts[k].rlo]
           upper == [k \in 1..n |-> Infinity]
           A == {lp.a[r] : r \in 1..m} \cup {a[k] : k \in 1..n}
           L == {lp.rlo[r] : r \in 1..m} \cup {lower[k] : k \in 1..n}
           H == {lp.rup[r] : r \in 1..m} \cup {upper[k] : k \in 1..n}
<1>1. m \in Nat /\ n \in Nat
  BY CutsTaken, Shape DEF Resting
<1>2. DOMAIN Cuts = 1..n /\ Len(Cuts) = n
  <2>1. PICK s \in [1..n -> CutRows] : Cuts = [k \in 1..n |-> Reduced(RawCut(s[k]))]
    BY CutsTaken
  <2>2. DOMAIN Cuts = 1..n
    BY <2>1
  <2> HIDE DEF n
  <2>3. Len([k \in 1..n |-> Reduced(RawCut(s[k]))]) = n
    BY <1>1
  <2> QED BY <2>1, <2>2, <2>3
<1>3. /\ q.n = lp.n /\ q.lo = lp.lo /\ q.up = lp.up /\ q.m = m + n
      /\ q.a = lp.a \o a /\ q.rlo = lp.rlo \o lower /\ q.rup = lp.rup \o upper
  BY <1>2 DEF WithCuts
<1>4. /\ lp.a \in [1..m -> A] /\ lp.rlo \in [1..m -> L] /\ lp.rup \in [1..m -> H]
      /\ a \in [1..n -> A] /\ lower \in [1..n -> L] /\ upper \in [1..n -> H]
  <2>1. lp.a \in [1..m -> [1..lp.n -> Int]] /\ lp.rlo \in [1..m -> Int] /\ lp.rup \in [1..m -> Int]
    BY DEF Resting, IsProgram
  <2> HIDE DEF m, n
  <2> QED BY <2>1
<1>5. /\ \A k \in 1..n : a[k] = Cuts[k].a /\ lower[k] = Cuts[k].rlo /\ upper[k] = Infinity
  OBVIOUS
<1> HIDE DEF m, n, a, lower, upper, A, L, H
<1>6. \A r \in 1..m : (lp.a \o a)[r] = lp.a[r] /\ (lp.rlo \o lower)[r] = lp.rlo[r] /\ (lp.rup \o upper)[r] = lp.rup[r]
  BY <1>1, <1>4, Appended
<1>7. \A k \in 1..n : (lp.a \o a)[m + k] = a[k] /\ (lp.rlo \o lower)[m + k] = lower[k] /\ (lp.rup \o upper)[m + k] = upper[k]
  BY <1>1, <1>4, Appended
<1>8. \A r \in 1..m : q.a[r] = lp.a[r] /\ q.rlo[r] = lp.rlo[r] /\ q.rup[r] = lp.rup[r]
  BY <1>3, <1>6
<1>9. \A k \in 1..n : q.a[m + k] = Cuts[k].a /\ q.rlo[m + k] = Cuts[k].rlo /\ q.rup[m + k] = Infinity
  BY <1>3, <1>5, <1>7
<1> QED BY <1>3, <1>8, <1>9 DEF m, n

-----------------------------------------------------------------------------
(* What a relaxation ends with.                                            *)

\* An answer OPTIMAL is given at a basis whose point and rows of the tableau are the
\* factors' own.
Rested == Relaxed /\ Started => Resting

LEMMA PricesKept ==
    ASSUME lp' = lp, basis' = basis, fact' = fact,
           \A i \in Rows : Prices(Btran(fact, Unit(i, One)), Unit(i, One))
    PROVE  (\A i \in Rows : Prices(Btran(fact, Unit(i, One)), Unit(i, One)))'
<1>1. Rows' = Rows
  BY DEF Rows
<1> SUFFICES ASSUME NEW i \in Rows
             PROVE  Prices(Btran(fact, Unit(i, One)), Unit(i, One))'
  BY <1>1
<1> DEFINE pi == Btran(fact, Unit(i, One))
           w == Unit(i, One)
<1>2. w' = w
  BY <1>1 DEF Unit
<1>3. pi' = pi
  BY <1>2
<1>4. Prices(pi, w)
  OBVIOUS
<1>5. \A r \in Rows : (Column(basis.basic[r]))' = Column(basis.basic[r])
  BY <1>1 DEF Column, IsCol
<1> HIDE DEF pi, w
<1>6. \A r \in Rows : Dot(Column(basis.basic[r]), pi)' = Dot(Column(basis.basic[r]), pi)
  BY <1>1, <1>3, <1>5 DEF Dot, Total
<1>7. Prices(pi, w)'
  BY <1>1, <1>2, <1>3, <1>4, <1>6 DEF Prices
<1> QED BY <1>7 DEF pi, w

LEMMA AssembleRests ==
    ASSUME Strong, SolvesRight, Assemble
    PROVE  Resting'
<1>1. /\ pc = "assemble" /\ pc' = "done" /\ x' = Current
      /\ UNCHANGED <<args, basis, fact>>
  BY DEF Assemble
<1>2. Working /\ PointSolves
  BY <1>1 DEF Working, SolvesRight
<1>3. IsProgram(lp) /\ Partition(basis) /\ StatusesFit(basis) /\ AtTheirBounds
  BY <1>2, AtWork
<1>4. lp' = lp /\ basis' = basis /\ fact' = fact
  BY <1>1 DEF args
<1>5. Kernel(Current) /\ \A v \in basis.nonbasic : Current[v] = x[v]
  BY <1>2, <1>3, CurrentPoint
<1>6. \A i \in Rows : Prices(Btran(fact, Unit(i, One)), Unit(i, One))
  BY <1>2 DEF SolvesRight
<1> DEFINE X == Current
<1>7. x' = X /\ Kernel(X) /\ \A v \in basis.nonbasic : X[v] = x[v]
  BY <1>1, <1>5
<1> HIDE DEF X
<1>8. AtTheirBounds'
  <2>1. \A v \in basis.nonbasic : x'[v] = RestingValue(basis, v)
    BY <1>3, <1>7 DEF AtTheirBounds
  <2> QED BY <1>4, <2>1 DEF AtTheirBounds, RestingValue, Low, Up, IsCol
<1>9. Kernel(x)'
  BY <1>4, <1>7 DEF Kernel, RowTerms, Column, Rows, Vars, IsCol
<1>10. IsProgram(lp)' /\ Partition(basis)' /\ StatusesFit(basis)'
  BY <1>3, <1>4 DEF IsProgram, BoundsOK, Finite, Partition, IsValid, StatusesFit, Low, Up, IsCol, Vars, Rows
<1>11. (\A i \in Rows : Prices(Btran(fact, Unit(i, One)), Unit(i, One)))'
  BY <1>4, <1>6, PricesKept
<1> QED BY <1>8, <1>9, <1>10, <1>11 DEF Resting

LEMMA StutterRests ==
    ASSUME Rested, UNCHANGED vars
    PROVE  Rested'
<1>1. lp' = lp /\ basis' = basis /\ fact' = fact /\ x' = x /\ pc' = pc /\ result' = result
  BY DEF vars
<1>2. SUFFICES ASSUME Relaxed', Started'
               PROVE  Resting'
  BY DEF Rested
<1>3. Resting
  BY <1>1, <1>2 DEF Rested, Relaxed, Started, NoBasis
<1>4. AtTheirBounds' /\ Kernel(x)'
  BY <1>1, <1>3 DEF Resting, AtTheirBounds, RestingValue, Kernel, RowTerms, Column, Low, Up, Rows, Vars, IsCol
<1>5. IsProgram(lp)' /\ Partition(basis)' /\ StatusesFit(basis)'
  BY <1>1, <1>3 DEF Resting, IsProgram, BoundsOK, Finite, Partition, IsValid, StatusesFit, Low, Up, IsCol, Vars, Rows
<1>6. (\A i \in Rows : Prices(Btran(fact, Unit(i, One)), Unit(i, One)))'
  BY <1>1, <1>3, PricesKept DEF Resting
<1> QED BY <1>4, <1>5, <1>6 DEF Resting

LEMMA StepRests ==
    ASSUME Strong, SolvesRight, Rested, [Next]_vars
    PROVE  Rested'
<1>1. CASE NoRows \/ NoColumns
  <2>1. pc = "start" /\ basis' = basis
    BY <1>1 DEF NoRows, NoColumns
  <2>2. basis = NoBasis
    BY <2>1 DEF Strong, WorkConsistent
  <2> QED BY <2>1, <2>2 DEF Rested, Started, NoBasis
<1>2. CASE Begin \/ DualPivot
  <2>1. pc \in {"start", "dual"} /\ result' = result
    BY <1>2 DEF Begin, DualPivot
  <2>2. result = NoResult
    BY <2>1 DEF Strong, WorkConsistent, Working
  <2>3. ~(Relaxed')
    BY <2>1, <2>2 DEF Relaxed, NoResult
  <2> QED BY <2>3 DEF Rested
<1>3. CASE PrimalFeasible \/ OutOfTime \/ RestoreCosts \/ CleanupEnds \/ PrimalUnbounded
  <2>1. pc' # "done"
    BY <1>3 DEF PrimalFeasible, OutOfTime, RestoreCosts, CleanupEnds, PrimalUnbounded
  <2> QED BY <2>1 DEF Rested, Relaxed
<1>4. CASE PrimalPivot \/ PrimalFlip
  <2>1. pc = "cleanup" /\ pc' = pc
    BY <1>4 DEF PrimalPivot, PrimalFlip, CleaningUp
  <2> QED BY <2>1 DEF Rested, Relaxed
<1>5. CASE DualUnbounded
  <2>1. pc = "dual" /\ result' = [result EXCEPT !.status = "PRIMAL_INFEASIBLE"]
    BY <1>5 DEF DualUnbounded
  <2>2. result = NoResult
    BY <2>1 DEF Strong, WorkConsistent, Working
  <2>3. result'.status = "PRIMAL_INFEASIBLE"
    BY <2>1, <2>2 DEF NoResult
  <2> QED BY <2>3 DEF Rested, Relaxed
<1>6. CASE Assemble
  BY <1>6, AssembleRests DEF Rested
<1>7. CASE UNCHANGED vars
  BY <1>7, StutterRests
<1> QED BY <1>1, <1>2, <1>3, <1>4, <1>5, <1>6, <1>7 DEF Next

-----------------------------------------------------------------------------
(* The tree.                                                               *)

\* The points of the model as it was given that are whole in the integer columns, not only
\* those that TLC compares.
WholePoints ==
    {p \in [1..root.n -> Int] :
        /\ \A j \in 1..root.n : /\ root.lo[j] <= p[j] /\ p[j] <= root.up[j]
                                /\ j \in Ints => FractionOf(p[j]) = 0
        /\ \A r \in 1..root.m : root.rlo[r] <= Activity(r, p) /\ Activity(r, p) <= root.rup[r]}

\* A point that satisfies the program; a row of no upper bound bounds nothing above.
Kept(p) ==
    /\ \A j \in Cols : lp.lo[j] <= p[j] /\ p[j] <= lp.up[j]
    /\ \A r \in Rows : /\ lp.rlo[r] <= Activity(r, p)
                       /\ Activity(r, p) <= lp.rup[r] \/ lp.rup[r] = Infinity

LEMMA CutsKeep ==
    ASSUME Resting, CutsFit, lp = root, AddCuts
    PROVE  \A p \in WholePoints' : Kept(p)'
<1> DEFINE m == lp.m
           n == CutCount
           q == WithCuts(Cuts)
<1>1. lp' = q /\ root' = root
  BY DEF AddCuts, SolveAgain
<1>2. /\ q.n = lp.n /\ q.lo = lp.lo /\ q.up = lp.up /\ q.m = m + n /\ q.ints = lp.ints
      /\ \A r \in 1..m : q.a[r] = lp.a[r] /\ q.rlo[r] = lp.rlo[r] /\ q.rup[r] = lp.rup[r]
      /\ \A k \in 1..n : q.a[m + k] = Cuts[k].a /\ q.rlo[m + k] = Cuts[k].rlo /\ q.rup[m + k] = Infinity
  <2>1. q.ints = lp.ints
    BY DEF WithCuts
  <2>2. q = WithCuts(Cuts)
    OBVIOUS
  <2> HIDE DEF q
  <2> QED BY <2>1, <2>2, RowsAppended
<1>3. m \in Nat /\ n \in Nat /\ m = root.m /\ lp.n = root.n
  BY CutsTaken, Shape DEF Resting
<1> HIDE DEF q, n
<1>4. Cols' = Cols /\ Ints' = Ints /\ Cols = 1..root.n /\ Rows' = 1..(m + n)
  BY <1>1, <1>2, <1>3 DEF Cols, Ints, Rows
<1> SUFFICES ASSUME NEW p \in WholePoints'
             PROVE  Kept(p)'
  OBVIOUS
<1>5. /\ p \in [Cols -> Int]
      /\ \A j \in Cols : root.lo[j] <= p[j] /\ p[j] <= root.up[j] /\ (j \in Ints => FractionOf(p[j]) = 0)
      /\ \A r \in 1..m : root.rlo[r] <= Activity(r, p)' /\ Activity(r, p)' <= root.rup[r]
  BY <1>1, <1>3, <1>4 DEF WholePoints
<1>6. \A r \in 1..m : Activity(r, p)' = Activity(r, p)
  BY <1>1, <1>2, <1>4 DEF Activity, Total
<1>7. FeasiblePoint(p)
  BY <1>3, <1>5, <1>6 DEF FeasiblePoint, Rows
<1>8. WholeAt(p)
  BY <1>4, <1>5 DEF WholeAt, CutsFit, WholeBounds
<1>9. ASSUME NEW r \in Rows', r \notin 1..m
      PROVE  lp'.rlo[r] <= Activity(r, p)' /\ lp'.rup[r] = Infinity
  <2> DEFINE k == r - m
  <2>1. k \in 1..n /\ r = m + k
    BY <1>3, <1>4, <1>9
  <2> HIDE DEF k
  <2>2. lp'.a[r] = Cuts[k].a /\ lp'.rlo[r] = Cuts[k].rlo /\ lp'.rup[r] = Infinity
    BY <1>1, <1>2, <2>1
  <2>3. Activity(r, p)' = Sum([j \in Cols |-> lp'.a[r][j] * p[j]], Cols)
    BY <1>4 DEF Activity, Total, SumFunction, Sum
  <2>4. /\ Cuts[k].a \in [Cols -> Int] /\ Cuts[k].rlo \in Int
        /\ Sum([j \in Cols |-> Cuts[k].a[j] * p[j]], Cols) >= Cuts[k].rlo
    BY <1>5, <1>7, <1>8, <2>1, CutsHold DEF n
  <2>5. Sum([j \in Cols |-> Cuts[k].a[j] * p[j]], Cols) \in Int
    <3> DEFINE f == [j \in Cols |-> Cuts[k].a[j] * p[j]]
    <3>1. IntegerOn(f, Cols)
      BY <1>5, <2>4 DEF IntegerOn
    <3> HIDE DEF f
    <3>2. Sum(f, Cols) \in Int
      BY <3>1, SumInteger, Shape DEF Resting
    <3> QED BY <3>2 DEF f
  <2>6. Activity(r, p)' = Sum([j \in Cols |-> Cuts[k].a[j] * p[j]], Cols)
    BY <2>2, <2>3
  <2> QED BY <2>2, <2>4, <2>5, <2>6
<1>10. ASSUME NEW r \in Rows'
       PROVE  lp'.rlo[r] <= Activity(r, p)' /\ (Activity(r, p)' <= lp'.rup[r] \/ lp'.rup[r] = Infinity)
  <2>1. CASE r \in 1..m
    BY <1>1, <1>2, <1>5, <2>1
  <2>2. CASE r \notin 1..m
    BY <1>9, <2>2
  <2> QED BY <2>1, <2>2
<1>11. \A j \in Cols : lp'.lo[j] <= p[j] /\ p[j] <= lp'.up[j]
  BY <1>1, <1>2, <1>5
<1> QED BY <1>4, <1>10, <1>11 DEF Kept

\* When the relaxation with the cuts starts, every such point satisfies it.
KeepsAll == depth = 0 /\ cutting = "after" /\ pc = "start" => \A p \in WholePoints : Kept(p)

\* Until the cuts, the relaxation is solved as a program of its own.
Unbranched == Strong /\ Rested /\ lp = root /\ depth = 0
TreeInv == depth \in Nat /\ (cutting = "before" => Unbranched) /\ KeepsAll

\* No action of the solver returns to its start or changes what it was given.
LEMMA LeavesStart ==
    ASSUME Next
    PROVE  pc' # "start" /\ lp' = lp
<1>1. CASE NoRows
  BY <1>1 DEF NoRows, args
<1>2. CASE NoColumns
  BY <1>2 DEF NoColumns, args
<1>3. CASE Begin
  BY <1>3 DEF Begin, args
<1>4. CASE PrimalFeasible \/ OutOfTime
  BY <1>4 DEF PrimalFeasible, OutOfTime, args
<1>5. CASE DualPivot
  <2>1. pc = "dual" /\ lp' = lp /\ (pc' = "done" \/ pc' = pc)
    BY <1>5 DEF DualPivot, Pivot, args
  <2> QED BY <2>1
<1>6. CASE DualUnbounded
  BY <1>6 DEF DualUnbounded, args
<1>7. CASE RestoreCosts \/ CleanupEnds
  BY <1>7 DEF RestoreCosts, CleanupEnds, args
<1>8. CASE PrimalPivot \/ PrimalFlip \/ PrimalUnbounded
  BY <1>8 DEF PrimalPivot, PrimalFlip, PrimalUnbounded, CleaningUp, args
<1>9. CASE Assemble
  BY <1>9 DEF Assemble, args
<1> QED BY <1>1, <1>2, <1>3, <1>4, <1>5, <1>6, <1>7, <1>8, <1>9 DEF Next

\* A model answered without a basis has no rows to cut from.
LEMMA NoBasisNoCuts ==
    ASSUME ~Started
    PROVE  Cuts = <<>>
<1>1. CutRows = {}
  BY DEF Started, NoBasis, CutRows
<1> DEFINE all == [i \in CutRows |-> RawCut(i)]
           used == {i \in CutRows : \E j \in Cols : all[i].a[j] # 0}
           n == Smaller(MaxCuts, Cardinality(used))
<1>2. Cuts = [k \in 1..n |-> Reduced(all[NthRow(used, k)])]
  BY DEF Cuts
<1>3. used = {}
  BY <1>1
<1>4. Cardinality(used) = 0
  BY <1>3, FS_EmptySet
<1>5. n = 0
  <2> HIDE DEF used
  <2> QED BY <1>4, LimitsAssumption DEF Smaller
<1> HIDE DEF all, used, n
<1>6. 1..n = {}
  BY <1>5
<1> QED BY <1>2, <1>6

LEMMA TreeStarts ==
    ASSUME TreeInit
    PROVE  TreeInv
<1>1. Init /\ lp = root /\ depth = 0
  BY DEF TreeInit
<1>2. Strong
  <2>1. WarmInit
    BY <1>1 DEF Init, WarmInit, RightStart
  <2> QED BY <2>1, StartStrong
<1>3. Rested
  BY <1>1 DEF Init, Start, Rested, Started
<1>4. KeepsAll
  BY <1>1 DEF KeepsAll, WholePoints, Kept, Cols, Rows
<1> QED BY <1>1, <1>2, <1>3, <1>4 DEF TreeInv, Unbranched

LEMMA TreeSteps ==
    ASSUME TreeInv, SolvesRight, SolvesRight', CutsReady, [TreeNext]_allVars
    PROVE  TreeInv'
<1>1. depth \in Nat /\ (cutting = "before" => Unbranched) /\ KeepsAll
  BY DEF TreeInv
<1>2. CASE Next /\ UNCHANGED treeVars
  <2>1. root' = root /\ depth' = depth /\ cutting' = cutting
    BY <1>2 DEF treeVars
  <2>2. pc' # "start" /\ lp' = lp
    BY <1>2, LeavesStart
  <2>3. cutting = "before" => Strong' /\ Rested'
    BY <1>1, <1>2, StepStrong, StepRests DEF Unbranched
  <2>4. cutting' = "before" => Unbranched'
    BY <1>1, <2>1, <2>2, <2>3 DEF Unbranched
  <2>5. KeepsAll'
    BY <2>2 DEF KeepsAll
  <2> QED BY <1>1, <2>1, <2>4, <2>5 DEF TreeInv
<1>3. CASE AddCuts
  <2>1. Relaxed /\ cutting = "before" /\ Cuts # <<>> /\ cutting' = "after" /\ depth' = depth
    BY <1>3 DEF AddCuts
  <2>2. Started /\ Unbranched
    BY <1>1, <2>1, NoBasisNoCuts
  <2>3. Resting /\ CutsFit /\ lp = root
    BY <2>1, <2>2 DEF Unbranched, Rested, CutsReady
  <2>4. \A p \in WholePoints' : Kept(p)'
    BY <1>3, <2>3, CutsKeep
  <2>5. KeepsAll'
    BY <2>4 DEF KeepsAll
  <2> QED BY <1>1, <2>1, <2>5 DEF TreeInv
<1>4. CASE Branch
  <2>1. cutting' = "after" /\ depth' = depth + 1
    BY <1>4 DEF Branch
  <2>2. depth' \in Nat /\ depth' # 0
    BY <1>1, <2>1
  <2> QED BY <2>1, <2>2 DEF TreeInv, KeepsAll
<1>5. CASE UNCHANGED allVars
  <2>1. root' = root /\ depth' = depth /\ cutting' = cutting /\ UNCHANGED vars
    BY <1>5 DEF allVars, treeVars
  <2>2. lp' = lp /\ pc' = pc
    BY <2>1 DEF vars
  <2>3. cutting = "before" => Strong' /\ Rested'
    BY <1>1, <2>1, StutterRight, StutterRests DEF Unbranched
  <2>4. cutting' = "before" => Unbranched'
    BY <1>1, <2>1, <2>2, <2>3 DEF Unbranched
  <2>5. \A r, p : Activity(r, p)' = Activity(r, p)
    BY <2>2 DEF Activity, Total, Cols
  <2>6. WholePoints' = WholePoints
    BY <2>1, <2>2, <2>5 DEF WholePoints, Ints
  <2>7. \A p : Kept(p)' = Kept(p)
    BY <2>2, <2>5 DEF Kept, Cols, Rows
  <2>8. KeepsAll'
    BY <1>1, <2>1, <2>2, <2>6, <2>7 DEF KeepsAll
  <2> QED BY <1>1, <2>1, <2>4, <2>8 DEF TreeInv
<1> QED BY <1>2, <1>3, <1>4, <1>5 DEF TreeNext

-----------------------------------------------------------------------------
(* The theorems.                                                           *)

\* generate_gomory_cuts: the rows it adds remove no point of the model that is whole in
\* the integer columns, wherever in the box and however many columns and rows there are,
\* provided that no free variable is outside the basis.
THEOREM CutsValid == TreeSpec /\ []SolvesRight /\ []CutsReady => []KeepsAll
<1>1. TreeInit => TreeInv
  BY TreeStarts
<1>2. TreeInv /\ SolvesRight /\ SolvesRight' /\ CutsReady /\ [TreeNext]_allVars => TreeInv'
  BY TreeSteps
<1>3. TreeInv => KeepsAll
  BY DEF TreeInv
<1> QED BY <1>1, <1>2, <1>3, PTL DEF TreeSpec

\* generate_gomory_cuts: the same as the runs state it.
THEOREM CutsStand == TreeSpec /\ []SolvesRight /\ []CutsReady /\ []InRange => []CutsKeepSolutions
<1>1. KeepsAll /\ InRange => CutsKeepSolutions
  <2> SUFFICES ASSUME KeepsAll, InRange, depth = 0, cutting = "after", pc = "start",
                      NEW p \in IntegerPoints
               PROVE  FeasiblePoint(p)
    BY DEF CutsKeepSolutions
  <2>1. Halves \subseteq Int
    BY OneAssumption DEF Halves
  <2>2. p \in WholePoints
    BY <2>1 DEF IntegerPoints, WholePoints
  <2>3. Kept(p)
    BY <2>2 DEF KeepsAll
  <2> QED BY <2>3 DEF Kept, InRange, FeasiblePoint
<1> QED BY <1>1, CutsValid, PTL

================================================================================
