----------------------- MODULE BranchAndBoundProofs -----------------------
(***************************************************************************)
(* What BranchAndBound's search guarantees for every model, configuration  *)
(* and denominator, proved with TLAPS: the types, the split of a box, the  *)
(* shape of the search tree; the inductive invariant Inductive, and from   *)
(* it that solutions are solutions, that none is lost, what the verdicts   *)
(* Optimal and Infeasible mean, and that the search implements the         *)
(* contract of its result (MilpContract).                                  *)
(***************************************************************************)
EXTENDS BranchAndBound, FiniteSetTheorems, TLAPS

-----------------------------------------------------------------------------
(* Rounding.                                                               *)

\* The remainder by Den is what is left of v above a multiple of Den.
LEMMA Remainder ==
    ASSUME NEW v \in Int
    PROVE  /\ v % Den \in 0..(Den - 1)
           /\ v \div Den \in Int
           /\ v = (Den * (v \div Den)) + (v % Den)
  BY SizesAssumption

\* Two multiples of Den that differ are at least Den apart.
LEMMA MultiplesApart ==
    ASSUME NEW q \in Int, NEW w \in Int, q < w
    PROVE  (Den * q) + Den <= Den * w
  <1>1. Den * (q + 1) <= Den * w
    BY SizesAssumption
  <1>2. Den * (q + 1) = (Den * q) + Den
    BY SizesAssumption
  <1> QED
    BY <1>1, <1>2

\* A multiple of Den is integral.
LEMMA MultipleIntegral ==
    ASSUME NEW q \in Int
    PROVE  IsIntegral(Den * q)
  <1> DEFINE p == Den * q
             w == p \div Den
  <1>1. p \in Int
    BY SizesAssumption
  <1>2. p % Den \in 0..(Den - 1) /\ w \in Int /\ p = (Den * w) + (p % Den)
    BY <1>1, Remainder
  <1>3. CASE q < w
    BY <1>2, <1>3, MultiplesApart, SizesAssumption
  <1>4. CASE w < q
    BY <1>2, <1>4, MultiplesApart, SizesAssumption
  <1>5. CASE w = q
    BY <1>1, <1>2, <1>5, SizesAssumption DEF IsIntegral
  <1> QED
    BY <1>2, <1>3, <1>4, <1>5

\* Floor and Ceil are the integral values on either side of v.
LEMMA FloorCeil ==
    ASSUME NEW v \in Int
    PROVE  /\ Floor(v) \in Int /\ Ceil(v) \in Int
           /\ Floor(v) <= v /\ v <= Ceil(v)
           /\ ~IsIntegral(v) => Floor(v) < v /\ v < Ceil(v) /\ Ceil(v) = Floor(v) + Den
           /\ IsIntegral(Floor(v)) /\ IsIntegral(Ceil(v))
  <1>1. v % Den \in 0..(Den - 1) /\ v \div Den \in Int /\ v = (Den * (v \div Den)) + (v % Den)
    BY Remainder
  <1>2. Floor(v) = Den * (v \div Den)
    BY <1>1, SizesAssumption DEF Floor
  <1>3. Floor(v) + Den = Den * ((v \div Den) + 1)
    BY <1>1, <1>2, SizesAssumption
  <1>4. IsIntegral(Floor(v)) /\ IsIntegral(Floor(v) + Den)
    BY <1>1, <1>2, <1>3, MultipleIntegral
  <1>5. v % Den = 0 => Floor(v) = v
    BY <1>1 DEF Floor
  <1>6. IsIntegral(Ceil(v))
    BY <1>4, <1>5 DEF Ceil
  <1> QED
    BY <1>1, <1>4, <1>6, SizesAssumption DEF Floor, Ceil, IsIntegral

\* No integral value lies strictly between Floor(v) and Ceil(v).
LEMMA BetweenFloorAndCeil ==
    ASSUME NEW v \in Int, NEW p \in Int, IsIntegral(p)
    PROVE  /\ p <= Floor(v) \/ Ceil(v) <= p
           /\ p <= v => p <= Floor(v)
           /\ v <= p => Ceil(v) <= p
  <1> DEFINE q == p \div Den
             w == v \div Den
  <1>1. p = Den * q /\ q \in Int
    BY Remainder, SizesAssumption DEF IsIntegral
  <1>2. v % Den \in 0..(Den - 1) /\ w \in Int /\ v = (Den * w) + (v % Den)
    BY Remainder
  <1>3. Floor(v) = Den * w
    BY <1>2, SizesAssumption DEF Floor
  <1>4. CASE q < w
    <2>1. (Den * q) + Den <= Den * w
      BY <1>1, <1>2, <1>4, MultiplesApart
    <2> QED
      BY <2>1, <1>1, <1>2, <1>3, SizesAssumption DEF Ceil
  <1>5. CASE q = w
    BY <1>1, <1>2, <1>3, <1>5, SizesAssumption DEF Ceil
  <1>6. CASE w < q
    <2>1. (Den * w) + Den <= Den * q
      BY <1>1, <1>2, <1>6, MultiplesApart
    <2> QED
      BY <2>1, <1>1, <1>2, <1>3, SizesAssumption DEF Ceil
  <1> QED
    BY <1>1, <1>2, <1>4, <1>5, <1>6

\* std::round gives an integral value.
LEMMA RoundIntegral ==
    ASSUME NEW v \in Int
    PROVE  Round(v) \in Int /\ IsIntegral(Round(v))
  BY FloorCeil DEF Round

-----------------------------------------------------------------------------
(* The helpers of the search.                                              *)

\* The argument of solve() is one of the models, hence well formed.
LEMMA Arguments ==
    ASSUME TypeOK
    PROVE  /\ WellFormed(milp)
           /\ cfg \in Config
  BY ModelsAssumption, ConfigsAssumption DEF TypeOK

\* What the simplex returns: typed, an OPTIMAL answer at the cost of its point; the
\* point is in the box unless the solve was left at one of milp.stops, and a
\* least-cost one when every solve converges.
LEMMA SolveLPResult ==
    ASSUME TypeOK, NEW R, R \subseteq milp.rows, NEW b, NEW r \in SolveLP(R, b)
    PROVE  /\ r \in LPResult
           /\ r.status = "OPTIMAL" =>
                 /\ r.x \in Reached /\ r.x \in Points
                 /\ r.obj = milp.cost[r.x]
                 /\ StopsInside => r.x \in R /\ Within(r.x, b)
                 /\ Converges => \A p \in R : Within(p, b) => r.obj <= milp.cost[p]
  <1>1. WellFormed(milp) /\ cfg \in Config
    BY Arguments
  <1>2. CASE \E p \in IF Converges THEN Optima(R, b) ELSE Stops(R, b) :
                r = [status |-> "OPTIMAL", x |-> p, obj |-> milp.cost[p]]
    <2>1. PICK p \in IF Converges THEN Optima(R, b) ELSE Stops(R, b) :
              r = [status |-> "OPTIMAL", x |-> p, obj |-> milp.cost[p]]
      BY <1>2
    <2>2. /\ p \in Reached
          /\ StopsInside => p \in R /\ Within(p, b)
          /\ Converges => \A q \in R : Within(q, b) => milp.cost[p] <= milp.cost[q]
      BY <2>1 DEF Optima, Stops, Reached, StopsInside
    <2>3. p \in milp.rows \cup milp.stops /\ p \in Points /\ milp.cost[p] \in Int
      BY <1>1, <2>2 DEF Reached, WellFormed
    <2> QED
      BY <2>1, <2>2, <2>3 DEF LPResult, LPStatus
  <1>3. CASE \E s \in (cfg.failures \ {"OPTIMAL"}) \cup {"PRIMAL_INFEASIBLE"} :
                r = [NoLP EXCEPT !.status = s]
    <2>1. PICK s \in (cfg.failures \ {"OPTIMAL"}) \cup {"PRIMAL_INFEASIBLE"} :
              r = [NoLP EXCEPT !.status = s]
      BY <1>3
    <2>2. s \in LPStatus \ {"OPTIMAL"}
      BY <1>1 DEF Config, LPStatus
    <2>3. NoPoint \in Points
      BY DEF NoPoint, Points
    <2> QED
      BY <2>1, <2>2, <2>3 DEF NoLP, LPResult
  <1> QED
    BY <1>2, <1>3 DEF SolveLP

\* Every LP status has a verdict.
LEMMA MapStatusVerdict ==
    ASSUME NEW s
    PROVE  /\ MapStatus(s) \in Verdicts
           /\ MapStatus(s) \in {"Optimal", "Feasible"} => s = "OPTIMAL"
           /\ MapStatus(s) = "Infeasible" => s = "PRIMAL_INFEASIBLE"
  BY DEF MapStatus, Verdicts

\* The tightened bounds are inside the given ones, and keep every solution.
LEMMA Tightened ==
    ASSUME TypeOK, NEW j \in Vars
    PROVE  /\ TightLower(j) \in Int /\ TightUpper(j) \in Int
           /\ milp.lo[j] <= TightLower(j) /\ TightUpper(j) <= milp.up[j]
           /\ j \in milp.int => IsIntegral(TightLower(j)) /\ IsIntegral(TightUpper(j))
           /\ \A p \in Feasible(milp) : TightLower(j) <= p[j] /\ p[j] <= TightUpper(j)
  <1>1. WellFormed(milp)
    BY Arguments
  <1>2. /\ milp.lo[j] \in Int /\ milp.up[j] \in Int
        /\ milp.single.lo[j] \in Int /\ milp.single.up[j] \in Int
    BY <1>1 DEF WellFormed, Points, Boxes
  <1>3. ASSUME NEW p \in Feasible(milp)
        PROVE  /\ p[j] \in Int
               /\ milp.lo[j] <= p[j] /\ p[j] <= milp.up[j]
               /\ milp.single.lo[j] <= p[j] /\ p[j] <= milp.single.up[j]
               /\ j \in milp.int => IsIntegral(p[j])
    BY <1>1, <1>3 DEF WellFormed, Feasible, Within, Points, Fractional
  <1>4. CASE j \in milp.int
    <2>1. /\ TightLower(j) = Greater(Ceil(milp.lo[j]), Ceil(milp.single.lo[j]))
          /\ TightUpper(j) = Lesser(Floor(milp.up[j]), Floor(milp.single.up[j]))
      BY <1>4 DEF TightLower, TightUpper, Inwards
    <2>2. /\ Ceil(milp.lo[j]) \in Int /\ milp.lo[j] <= Ceil(milp.lo[j])
          /\ IsIntegral(Ceil(milp.lo[j]))
          /\ Ceil(milp.single.lo[j]) \in Int /\ IsIntegral(Ceil(milp.single.lo[j]))
      BY <1>2, FloorCeil
    <2>3. /\ Floor(milp.up[j]) \in Int /\ Floor(milp.up[j]) <= milp.up[j]
          /\ IsIntegral(Floor(milp.up[j]))
          /\ Floor(milp.single.up[j]) \in Int /\ IsIntegral(Floor(milp.single.up[j]))
      BY <1>2, FloorCeil
    <2>4. ASSUME NEW p \in Feasible(milp)
          PROVE  /\ Ceil(milp.lo[j]) <= p[j] /\ Ceil(milp.single.lo[j]) <= p[j]
                 /\ p[j] <= Floor(milp.up[j]) /\ p[j] <= Floor(milp.single.up[j])
      BY <1>2, <1>3, <1>4, BetweenFloorAndCeil
    <2> QED
      BY <1>2, <1>3, <2>1, <2>2, <2>3, <2>4 DEF Greater, Lesser
  <1>5. CASE j \notin milp.int
    <2>1. /\ TightLower(j) = Greater(milp.lo[j], milp.single.lo[j])
          /\ TightUpper(j) = Lesser(milp.up[j], milp.single.up[j])
      BY <1>5 DEF TightLower, TightUpper, Inwards
    <2> QED
      BY <1>2, <1>3, <1>5, <2>1 DEF Greater, Lesser
  <1> QED
    BY <1>4, <1>5

\* The rounded and clamped point: inside the box, and integral when the box is.
LEMMA RoundedPoint ==
    ASSUME TypeOK, NEW v \in Int, NEW lo \in Int, NEW up \in Int, lo <= up
    PROVE  /\ Clamped(v, lo, up) \in Int
           /\ lo <= Clamped(v, lo, up) /\ Clamped(v, lo, up) <= up
           /\ IsIntegral(lo) /\ IsIntegral(up) => IsIntegral(Clamped(v, lo, up))
  BY RoundIntegral DEF Clamped, Greater, Lesser

\* Branching picks a fractional integer column.
LEMMA BranchColumnFractional ==
    ASSUME NEW x, NEW branching \in {"FirstFractional", "MostFractional", "PseudoCost"}
    PROVE  BranchColumns(x, branching) \subseteq Fractional(milp, x)
  BY DEF BranchColumns

\* The bound that is reported is an integer, and the incumbent if nothing is open.
LEMMA CurrentBestBoundType ==
    ASSUME TypeOK, NEW q, q \subseteq queue, NEW b \in CurrentBestBound(q, best_bound)
    PROVE  b \in Int
  BY DEF TypeOK, CurrentBestBound, Tops, Node

\* The status solve() returns at the end of the search is one of its statuses.
LEMMA VerdictType ==
    ASSUME NEW q, NEW inc, NEW b, NEW t
    PROVE  Verdict(q, inc, b, t) \in Verdicts
  BY DEF Verdict, Verdicts

\* The two children of a node are a finite set, so a priority queue of finitely many
\* nodes stays finite.
LEMMA PairFinite ==
    ASSUME NEW a, NEW b
    PROVE  IsFiniteSet({a, b})
  <1>1. IsFiniteSet({} \cup {a})
    BY FS_EmptySet, FS_AddElement
  <1>2. IsFiniteSet(({} \cup {a}) \cup {b})
    BY <1>1, FS_AddElement
  <1>3. ({} \cup {a}) \cup {b} = {a, b}
    OBVIOUS
  <1> QED
    BY <1>2, <1>3

\* The two children of a node, or of the root, are nodes.
LEMMA ChildrenAreNodes ==
    ASSUME TypeOK, NEW b, b.lo \in Points, b.up \in Points, NEW r \in LPResult, NEW j \in Vars
    PROVE  LeftChild(b, r, j) \in Node /\ RightChild(b, r, j) \in Node
  <1>1. r.obj \in Int /\ r.x[j] \in Int /\ stat.created \in Nat
    BY DEF TypeOK, LPResult, Points
  <1>2. Floor(r.x[j]) \in Int /\ Ceil(r.x[j]) \in Int
    BY <1>1, FloorCeil
  <1> QED
    BY <1>1, <1>2 DEF LeftChild, RightChild, Node, Points

-----------------------------------------------------------------------------
(* Type correctness.                                                       *)

\* What solve() starts from has its types.
LEMMA InitType == Init => TypeOK
  <1> SUFFICES ASSUME Init PROVE TypeOK
    OBVIOUS
  <1>1. WellFormed(milp) /\ cfg \in Config
    BY ModelsAssumption, ConfigsAssumption DEF Init
  <1>2. NoPoint \in Points
    BY DEF NoPoint, Points
  <1>3. IsFiniteSet({})
    BY FS_EmptySet
  <1> QED
    BY <1>1, <1>2, <1>3, SizesAssumption
    DEF Init, TypeOK, NoLP, NoNode, NoResult, LPResult, LPStatus, Node, Verdicts, WellFormed

\* Every section of solve() keeps the types: one step per action.
LEMMA NextType == TypeOK /\ [Next]_vars => TypeOK'
  <1> SUFFICES ASSUME TypeOK, [Next]_vars PROVE TypeOK'
    OBVIOUS
  <1> USE DEF args, found, tree, Return
  <1>0. WellFormed(milp) /\ cfg \in Config
    BY Arguments
  <1>l. \A b : \A r \in SolveLP(lp.rows, b) :
            /\ r \in LPResult
            /\ r.status = "OPTIMAL" => r.x \in Reached
    BY SolveLPResult DEF TypeOK
  <1>s. UNCHANGED <<milp, cfg>> => Reached' = Reached
    BY DEF Reached, Converges
  <1>p. NoPoint \in Points
    BY DEF NoPoint, Points
  <1>r. /\ NoResult \in [status : Verdicts, best_objective : Int, best_bound : Int, x : Points]
        /\ \A v \in Verdicts : [NoResult EXCEPT !.status = v]
              \in [status : Verdicts, best_objective : Int, best_bound : Int, x : Points]
    BY <1>p, SizesAssumption DEF NoResult, Verdicts
  <1>c. ASSUME NEW t, Conclude(t)
        PROVE  /\ result' \in [status : Verdicts, best_objective : Int, best_bound : Int, x : Points]
               /\ pc' = "done"
    <2>1. PICK b \in CurrentBestBound(queue, best_bound) :
              Return([status |-> Verdict(queue, incumbent, b, t),
                      best_objective |-> incumbent, best_bound |-> b, x |-> incumbent_x])
      BY <1>c DEF Conclude
    <2>2. b \in Int /\ Verdict(queue, incumbent, b, t) \in Verdicts
      BY CurrentBestBoundType, VerdictType
    <2> QED
      BY <2>1, <2>2 DEF TypeOK
  <1>1. CASE PureLP
    <2>1. PICK r \in SolveLP(lp.rows, [lo |-> lp.lo, up |-> lp.up]) :
              Return([status |-> MapStatus(r.status), best_objective |-> r.obj,
                      best_bound |-> r.obj, x |-> r.x])
      BY <1>1 DEF PureLP
    <2>2. r \in LPResult /\ MapStatus(r.status) \in Verdicts
      BY <1>l, MapStatusVerdict
    <2> QED
      BY <1>1, <2>1, <2>2 DEF PureLP, TypeOK, LPResult
  <1>2. CASE SkipPresolve
    BY <1>2 DEF SkipPresolve, TypeOK
  <1>3. CASE RootPresolve
    <2>1. \A j \in Vars : TightLower(j) \in Int /\ TightUpper(j) \in Int
      BY Tightened
    <2>2. "Infeasible" \in Verdicts
      BY DEF Verdicts
    <2>3. /\ [j \in Vars |-> TightLower(j)] \in Points
          /\ [j \in Vars |-> TightUpper(j)] \in Points
      BY <2>1 DEF Points
    <2>4. /\ lp' \in [rows : SUBSET milp.rows, lo : Points, up : Points]
          /\ result' \in [status : Verdicts, best_objective : Int, best_bound : Int, x : Points]
          /\ pc' \in {"root", "done"}
      BY <1>3, <1>r, <2>2, <2>3 DEF RootPresolve, TypeOK
    <2> QED
      BY <1>3, <2>4 DEF RootPresolve, TypeOK
  <1>4. CASE SolveRoot
    <2>1. PICK r \in SolveLP(lp.rows, RootBox) :
              \/ /\ r.status # "OPTIMAL"
                 /\ Return([NoResult EXCEPT !.status = MapStatus(r.status)])
                 /\ UNCHANGED <<root, best_bound>>
              \/ /\ r.status = "OPTIMAL"
                 /\ root' = r
                 /\ best_bound' = r.obj
                 /\ pc' = "cuts"
                 /\ UNCHANGED result
      BY <1>4 DEF SolveRoot
    <2>2. r \in LPResult /\ r.obj \in Int /\ MapStatus(r.status) \in Verdicts
      BY <1>l, MapStatusVerdict DEF LPResult
    <2>3. r.status = "OPTIMAL" => r.x \in Reached
      BY <1>l
    <2> QED
      BY <1>4, <1>r, <1>s, <2>1, <2>2, <2>3 DEF SolveRoot, TypeOK
  <1>5. CASE NoCuts
    BY <1>5, <1>s DEF NoCuts, TypeOK
  <1>6. CASE GomoryCuts
    <2>1. PICK R \in milp.cuts :
              /\ lp' = [lp EXCEPT !.rows = R]
              /\ \E r \in SolveLP(R, RootBox) :
                    \/ /\ r.status = "OPTIMAL"
                       /\ root' = r
                       /\ best_bound' = Greater(best_bound, r.obj)
                    \/ /\ r.status # "OPTIMAL"
                       /\ UNCHANGED <<root, best_bound>>
      BY <1>6 DEF GomoryCuts
    <2>2. R \subseteq milp.rows
      BY <1>0 DEF WellFormed
    <2>3. \A r \in SolveLP(R, RootBox) :
             r \in LPResult /\ r.obj \in Int /\ (r.status = "OPTIMAL" => r.x \in Reached)
      BY <2>2, SolveLPResult DEF LPResult
    <2>4. root' \in LPResult /\ best_bound' \in Int /\ root'.x \in Reached
      BY <1>6, <2>1, <2>3 DEF GomoryCuts, TypeOK, Greater
    <2> QED
      BY <1>6, <1>s, <2>1, <2>2, <2>4 DEF GomoryCuts, TypeOK
  <1>7. CASE SimpleRounding
    <2>1. incumbent' \in Int /\ incumbent_x' \in Points
      BY <1>0, <1>7 DEF SimpleRounding, UpdateIncumbent, TypeOK, WellFormed
    <2>2. dive' \in [lo : Points, up : Points, x : Points, step : 0..MaxDive]
      BY <1>7, SizesAssumption DEF SimpleRounding, TypeOK, LPResult
    <2> QED
      BY <1>7, <1>s, <2>1, <2>2 DEF SimpleRounding, TypeOK
  <1>8. CASE EndDive
    <2>1. dive.x \in Reached /\ milp.cost[dive.x] \in Int
      BY <1>8, <1>0 DEF EndDive, TypeOK, Reached, WellFormed
    <2> QED
      BY <1>8, <1>s, <2>1 DEF EndDive, UpdateIncumbent, TypeOK
  <1>9. CASE AbandonDive
    BY <1>9, <1>s DEF AbandonDive, TypeOK
  <1>10. CASE DiveStep
    <2>1. PICK j \in Closest(dive.x) : \E r \in SolveLP(lp.rows, DiveBox(j)) :
              \/ /\ r.status = "OPTIMAL"
                 /\ dive' = [lo |-> DiveBox(j).lo, up |-> DiveBox(j).up,
                             x |-> r.x, step |-> dive.step + 1]
                 /\ UNCHANGED pc
              \/ /\ r.status # "OPTIMAL"
                 /\ dive' = [dive EXCEPT !.lo = DiveBox(j).lo, !.up = DiveBox(j).up]
                 /\ pc' = "branch"
      BY <1>10 DEF DiveStep
    <2>2. PICK r \in SolveLP(lp.rows, DiveBox(j)) :
              \/ /\ r.status = "OPTIMAL"
                 /\ dive' = [lo |-> DiveBox(j).lo, up |-> DiveBox(j).up,
                             x |-> r.x, step |-> dive.step + 1]
                 /\ UNCHANGED pc
              \/ /\ r.status # "OPTIMAL"
                 /\ dive' = [dive EXCEPT !.lo = DiveBox(j).lo, !.up = DiveBox(j).up]
                 /\ pc' = "branch"
      BY <2>1
    <2>3. j \in Vars
      BY <1>0 DEF Closest, Fractional, WellFormed
    <2>4. Clamped(dive.x[j], dive.lo[j], dive.up[j]) \in Int
      BY <2>3, RoundIntegral DEF Clamped, Greater, Lesser, TypeOK, Points
    <2>5. DiveBox(j).lo \in Points /\ DiveBox(j).up \in Points
      BY <2>3, <2>4 DEF DiveBox, TypeOK, Points
    <2>6. dive.step + 1 \in 0..MaxDive
      BY <1>10, SizesAssumption DEF DiveStep, MayDive, TypeOK
    <2>7. r.x \in Points /\ (r.status = "OPTIMAL" => r.x \in Reached)
      BY <1>l DEF LPResult
    <2>8. /\ dive' \in [lo : Points, up : Points, x : Points, step : 0..MaxDive]
          /\ pc' = "branch" \/ (pc' = "diving" /\ dive'.x \in Reached)
      <3>1. CASE r.status = "OPTIMAL"
        BY <1>10, <2>2, <2>5, <2>6, <2>7, <3>1 DEF DiveStep, TypeOK
      <3>2. CASE r.status # "OPTIMAL"
        BY <2>2, <2>5, <3>2 DEF TypeOK
      <3> QED
        BY <3>1, <3>2
    <2> QED
      BY <1>10, <1>s, <2>8 DEF DiveStep, TypeOK
  <1>11. CASE RootIntegral
    BY <1>11 DEF RootIntegral, TypeOK, LPResult, Verdicts
  <1>12. CASE RootBranch
    <2> DEFINE by == IF cfg.branching = "FirstFractional" THEN "FirstFractional" ELSE "MostFractional"
    <2>1. PICK j \in BranchColumns(root.x, by) :
              queue' = {LeftChild(RootBox, root, j), RightChild(RootBox, root, j)}
      BY <1>12 DEF RootBranch
    <2>2. j \in Vars
      BY <1>0, BranchColumnFractional DEF Fractional, WellFormed
    <2>3. queue' \subseteq Node
      BY <2>1, <2>2, ChildrenAreNodes DEF RootBox, TypeOK
    <2>4. IsFiniteSet(queue')
      BY <2>1, PairFinite
    <2> QED
      BY <1>12, <2>3, <2>4 DEF RootBranch, TypeOK
  <1>13. CASE TreeExhausted
    BY <1>13, <1>c DEF TreeExhausted, TypeOK
  <1>14. CASE NodeLimitReached
    BY <1>14, <1>c DEF NodeLimitReached, TypeOK
  <1>15. CASE TimeLimitReached
    BY <1>15, <1>c DEF TimeLimitReached, TypeOK
  <1>16. CASE PruneByBound
    <2>1. IsFiniteSet(queue')
      BY <1>16, FS_RemoveElement DEF PruneByBound, TypeOK
    <2> QED
      BY <1>16, <2>1 DEF PruneByBound, TypeOK
  <1>17. CASE Explore
    <2>1. PICK n \in Tops(queue) :
              /\ node' = n
              /\ queue' = queue \ {n}
              /\ \E b \in CurrentBestBound(queue \ {n}, best_bound) :
                    best_bound' = Lesser(incumbent, b)
      BY <1>17 DEF Explore
    <2>2. n \in Node /\ IsFiniteSet(queue')
      BY <2>1, FS_RemoveElement DEF Tops, TypeOK
    <2>3. best_bound' \in Int
      BY <2>1, CurrentBestBoundType DEF Lesser, TypeOK
    <2> QED
      BY <1>17, <2>1, <2>2, <2>3 DEF Explore, TypeOK
  <1>18. CASE NodeInfeasible
    BY <1>18 DEF NodeInfeasible, TypeOK
  <1>19. CASE NodeDominated
    BY <1>19 DEF NodeDominated, TypeOK
  <1>20. CASE NodeIntegral
    BY <1>20, <1>l DEF NodeIntegral, NodeLP, UpdateIncumbent, TypeOK, LPResult
  <1>21. CASE GapReached
    BY <1>21, <1>c DEF GapReached, TypeOK
  <1>22. CASE NodeBranch
    <2>1. PICK r \in NodeLP : \E j \in BranchColumns(r.x, cfg.branching) :
              queue' = queue \cup {LeftChild(node, r, j), RightChild(node, r, j)}
      BY <1>22 DEF NodeBranch
    <2>2. PICK j \in BranchColumns(r.x, cfg.branching) :
              queue' = queue \cup {LeftChild(node, r, j), RightChild(node, r, j)}
      BY <2>1
    <2>3. j \in Vars
      BY <1>0, BranchColumnFractional DEF Fractional, WellFormed, Config
    <2>4. queue' \subseteq Node
      <3>1. r \in LPResult
        BY <1>l, <2>1 DEF NodeLP
      <3>2. node.lo \in Points /\ node.up \in Points /\ queue \subseteq Node
        BY DEF TypeOK, Node
      <3> QED
        BY <2>2, <2>3, <3>1, <3>2, ChildrenAreNodes
    <2>5. IsFiniteSet(queue')
      BY <2>2, PairFinite, FS_Union DEF TypeOK
    <2> QED
      BY <1>22, <2>4, <2>5 DEF NodeBranch, TypeOK
  <1>23. CASE UNCHANGED vars
    BY <1>23, <1>s DEF vars, TypeOK
  <1> QED
    BY <1>1, <1>2, <1>3, <1>4, <1>5, <1>6, <1>7, <1>8, <1>9, <1>10, <1>11, <1>12, <1>13,
       <1>14, <1>15, <1>16, <1>17, <1>18, <1>19, <1>20, <1>21, <1>22, <1>23 DEF Next

\* Every variable keeps its type, for all models and configurations.
THEOREM TypeCorrect == Spec => []TypeOK
  BY InitType, NextType, PTL DEF Spec

-----------------------------------------------------------------------------
(* The shape of the search tree: how the sections of solve() follow one    *)
(* another, what root presolve, cuts and branching do to the working model *)
(* and to the boxes, and how the nodes are counted.                        *)

\* Which actions touch what.
LEMMA Frame ==
    ASSUME [Next]_vars
    PROVE  /\ UNCHANGED <<milp, cfg>>
           /\ RootPresolve \/ GomoryCuts \/ UNCHANGED lp
           /\ SolveRoot \/ GomoryCuts \/ UNCHANGED root
           /\ SimpleRounding \/ EndDive \/ NodeIntegral \/ UNCHANGED <<incumbent, incumbent_x>>
           /\ SimpleRounding \/ DiveStep \/ UNCHANGED dive
           /\ RootBranch \/ PruneByBound \/ Explore \/ NodeBranch \/ UNCHANGED queue
           /\ Explore \/ UNCHANGED node
           /\ pc' = "done" \/ UNCHANGED result
           /\ UNCHANGED vars \/ pc # "done"
  BY DEF Next, vars, args, found, tree, Return, Conclude,
         PureLP, SkipPresolve, RootPresolve, SolveRoot, NoCuts, GomoryCuts, SimpleRounding,
         EndDive, AbandonDive, DiveStep, RootIntegral, RootBranch, TreeExhausted,
         NodeLimitReached, TimeLimitReached, PruneByBound, Explore, NodeInfeasible,
         NodeDominated, NodeIntegral, GapReached, NodeBranch

\* How the phases follow one another.
LEMMA PhaseOrder ==
    ASSUME [Next]_vars
    PROVE  /\ pc' = "start" => UNCHANGED vars
           /\ pc = "start" => pc' = "done" \/ SkipPresolve \/ RootPresolve \/ UNCHANGED vars
           /\ pc' = "root" => pc = "root" \/ SkipPresolve \/ RootPresolve
           /\ pc' = "cuts" => pc = "cuts" \/ SolveRoot
           /\ pc' = "rounding" => pc = "rounding" \/ NoCuts \/ GomoryCuts
           /\ pc' = "diving" => pc = "diving" \/ SimpleRounding
           /\ pc' = "branch" =>
                 pc = "branch" \/ SimpleRounding \/ EndDive \/ AbandonDive \/ DiveStep
           /\ pc' \in {"loop", "node", "gap"} => pc \in {"loop", "node", "gap"} \/ RootBranch
           /\ pc' = "node" => Explore \/ UNCHANGED vars
           /\ pc' = "gap" => NodeIntegral \/ UNCHANGED vars
           /\ pc \in {"loop", "node", "gap"} => pc' \in {"loop", "node", "gap", "done"}
  BY DEF Next, vars, args, found, tree, Return, Conclude,
         PureLP, SkipPresolve, RootPresolve, SolveRoot, NoCuts, GomoryCuts, SimpleRounding,
         EndDive, AbandonDive, DiveStep, RootIntegral, RootBranch, TreeExhausted,
         NodeLimitReached, TimeLimitReached, PruneByBound, Explore, NodeInfeasible,
         NodeDominated, NodeIntegral, GapReached, NodeBranch

\* What the simplex may answer does not change while solve() runs; an LP answer is
\* inside its box when every solve converges, or when there are no stops.
LEMMA SameSolver ==
    ASSUME UNCHANGED <<milp, cfg>>
    PROVE  /\ Converges' <=> Converges
           /\ StopsInside' <=> StopsInside
           /\ Converges => StopsInside
           /\ StopsInside => Reached = milp.rows
  BY DEF Converges, StopsInside, Reached

\* A simplex that settles every LP converges, inside the box.
LEMMA ReliableConverges ==
    ASSUME Reliable
    PROVE  Converges /\ StopsInside /\ Reached = milp.rows
  BY DEF Reliable, Converges, StopsInside, Reached

\* A solution of the model is a typed point of its rows.
LEMMA Solutions ==
    ASSUME TypeOK
    PROVE  \A p \in Feasible(milp) :
              /\ p \in milp.rows /\ p \in Points
              /\ milp.cost[p] \in Int /\ milp.cost[p] < Infinity
              /\ \A j \in milp.int : j \in Vars /\ p[j] \in Int /\ IsIntegral(p[j])
  BY Arguments DEF WellFormed, Feasible, Fractional, Points

-----------------------------------------------------------------------------
(* The working copy of the model.                                          *)

\* Root presolve and root cuts keep every solution of the model and add none: one step
\* per action that changes the working rows or bounds.
LEMMA WorkingModelStep ==
    ASSUME TypeOK, WorkingModel, [Next]_vars
    PROVE  WorkingModel'
  <1>0. UNCHANGED <<milp, cfg>>
    BY Frame
  <1>1. CASE RootPresolve
    <2>0. \A j \in Vars :
             /\ TightLower(j) \in Int /\ TightUpper(j) \in Int
             /\ milp.lo[j] <= TightLower(j) /\ TightUpper(j) <= milp.up[j]
             /\ j \in milp.int => IsIntegral(TightLower(j)) /\ IsIntegral(TightUpper(j))
             /\ \A p \in Feasible(milp) : TightLower(j) <= p[j] /\ p[j] <= TightUpper(j)
      BY Tightened
    <2>1. CASE lp' = lp /\ pc' = "done"
      BY <1>0, <2>1 DEF WorkingModel, RootBox
    <2>2. CASE /\ lp' = [lp EXCEPT !.lo = [j \in Vars |-> TightLower(j)],
                                   !.up = [j \in Vars |-> TightUpper(j)]]
               /\ pc' = "root"
      <3>1. /\ lp'.rows = lp.rows
            /\ \A j \in Vars : lp'.lo[j] = TightLower(j) /\ lp'.up[j] = TightUpper(j)
        BY <2>2 DEF TypeOK
      <3>2. milp.int \subseteq Vars
        BY Arguments DEF WellFormed
      <3> QED
        BY <1>0, <1>1, <2>0, <2>2, <3>1, <3>2 DEF RootPresolve, WorkingModel, RootBox, Within
    <2> QED
      BY <1>1, <2>1, <2>2 DEF RootPresolve, Return
  <1>2. CASE GomoryCuts
    <2>1. PICK R \in milp.cuts : lp' = [lp EXCEPT !.rows = R]
      BY <1>2 DEF GomoryCuts
    <2>2. Feasible(milp) \subseteq R
      BY Arguments DEF WellFormed
    <2>3. lp'.rows = R /\ lp'.lo = lp.lo /\ lp'.up = lp.up
      BY <2>1 DEF TypeOK
    <2>4. pc = "cuts" /\ pc' = "rounding"
      BY <1>2 DEF GomoryCuts
    <2> QED
      BY <1>0, <2>2, <2>3, <2>4 DEF WorkingModel, RootBox, Within, IntegralBox
  <1>3. CASE UNCHANGED lp /\ ~RootPresolve
    <2>1. pc' = "start" => pc = "start"
      BY PhaseOrder DEF vars
    <2>2. ASSUME pc' \notin {"start", "done"}, pc = "start", IntegralBox
          PROVE  \A j \in milp.int : IsIntegral(lp.lo[j]) /\ IsIntegral(lp.up[j])
      <3>1. SkipPresolve
        BY <2>2, <1>3, PhaseOrder DEF vars
      <3> QED
        BY <2>2, <3>1 DEF SkipPresolve, WorkingModel, IntegralBox, IntegralBounds
    <2>3. /\ pc = "done" => pc' = "done"
          /\ pc' \in {"start", "root", "cuts"} => pc \in {"start", "root", "cuts"}
      BY Frame, PhaseOrder DEF vars, SkipPresolve, RootPresolve, SolveRoot
    <2>4. IntegralBox' = IntegralBox
      BY <1>0 DEF IntegralBox
    <2> QED
      BY <1>0, <1>3, <2>1, <2>2, <2>3, <2>4 DEF WorkingModel, RootBox
  <1> QED
    BY <1>1, <1>2, <1>3, Frame

-----------------------------------------------------------------------------
(* The root relaxation.                                                    *)

\* From the root LP to the first branch, root_res is an optimum of the rows, those
\* without the cuts or those with them.
LEMMA RootSolvedStep ==
    ASSUME TypeOK, WorkingModel, RootSolved, [Next]_vars
    PROVE  RootSolved'
  <1>0. UNCHANGED <<milp, cfg>>
    BY Frame
  <1>1. CASE SolveRoot
    <2>1. CASE pc' = "done"
      BY <2>1 DEF RootSolved
    <2>2. CASE pc' # "done"
      <3>1. /\ root' \in SolveLP(lp.rows, RootBox) /\ root'.status = "OPTIMAL"
            /\ UNCHANGED lp
        BY <1>1, <2>2 DEF SolveRoot, Return
      <3>2. /\ root'.obj = milp.cost[root'.x]
            /\ StopsInside => root'.x \in lp.rows /\ Within(root'.x, RootBox)
            /\ Converges => \A p \in lp.rows : Within(p, RootBox) => root'.obj <= milp.cost[p]
        BY <3>1, SolveLPResult DEF TypeOK
      <3> QED
        BY <1>0, <3>1, <3>2, SameSolver DEF RootSolved, RootBox, Within
    <2> QED
      BY <2>1, <2>2
  <1>2. CASE GomoryCuts
    <2>1. PICK R \in milp.cuts :
              /\ lp' = [lp EXCEPT !.rows = R]
              /\ \E r \in SolveLP(R, RootBox) :
                    \/ r.status = "OPTIMAL" /\ root' = r
                    \/ UNCHANGED root
      BY <1>2 DEF GomoryCuts
    <2>2. R \subseteq milp.rows
      BY Arguments DEF WellFormed
    <2>3. PICK r \in SolveLP(R, RootBox) :
              \/ r.status = "OPTIMAL" /\ root' = r
              \/ UNCHANGED root
      BY <2>1
    <2>4. lp'.rows = R /\ lp'.lo = lp.lo /\ lp'.up = lp.up /\ RootBox' = RootBox
      BY <2>1 DEF TypeOK, RootBox
    <2>5. CASE r.status = "OPTIMAL" /\ root' = r
      <3>1. /\ root'.obj = milp.cost[root'.x]
            /\ StopsInside => root'.x \in R /\ Within(root'.x, RootBox)
            /\ Converges => \A p \in R : Within(p, RootBox) => root'.obj <= milp.cost[p]
        BY <2>2, <2>3, <2>5, SolveLPResult
      <3> QED
        BY <1>0, <2>4, <3>1, SameSolver DEF RootSolved, Within
    <2>6. CASE UNCHANGED root
      <3>1. pc = "cuts" /\ (\E j \in milp.int : 20 * (root.x[j] % Den) >= Den)
        BY <1>2 DEF GomoryCuts
      <3>2. PICK j \in milp.int : 20 * (root.x[j] % Den) >= Den
        BY <3>1
      <3>3. Fractional(milp, root.x) # {}
        BY <3>2, SizesAssumption DEF Fractional, IsIntegral
      <3>4. R \subseteq lp.rows
        BY <2>2, <3>1 DEF WorkingModel
      <3> QED
        BY <1>0, <2>4, <2>6, <3>1, <3>3, <3>4, SameSolver DEF RootSolved, Within
    <2> QED
      BY <2>3, <2>5, <2>6
  <1>3. CASE UNCHANGED root /\ ~RootPresolve /\ ~GomoryCuts /\ ~SolveRoot
    <2>1. UNCHANGED lp
      BY <1>3, Frame
    <2>2. pc' \in {"cuts", "rounding", "diving", "branch"} =>
             pc \in {"cuts", "rounding", "diving", "branch"}
      BY <1>3, PhaseOrder
      DEF NoCuts, SimpleRounding, EndDive, AbandonDive, DiveStep
    <2> QED
      BY <1>0, <1>3, <2>1, <2>2, SameSolver DEF RootSolved, RootBox
  <1>4. CASE RootPresolve
    BY <1>4 DEF RootPresolve, RootSolved, Return
  <1> QED
    BY <1>1, <1>2, <1>3, <1>4, Frame

-----------------------------------------------------------------------------
(* Branching.                                                              *)

\* The children of a box: the points of the box on either side of the split.
LEMMA Children ==
    ASSUME NEW b, b.lo \in Points, b.up \in Points, NEW r \in LPResult, NEW j \in Vars,
           Within(r.x, b), ~IsIntegral(r.x[j])
    PROVE  /\ \A k \in Vars : /\ b.lo[k] <= LeftChild(b, r, j).lo[k]
                              /\ LeftChild(b, r, j).up[k] <= b.up[k]
                              /\ b.lo[k] <= RightChild(b, r, j).lo[k]
                              /\ RightChild(b, r, j).up[k] <= b.up[k]
           /\ \A p \in Points :
                 /\ Within(p, LeftChild(b, r, j)) => Within(p, b) /\ p[j] <= Floor(r.x[j])
                 /\ Within(p, RightChild(b, r, j)) => Within(p, b) /\ Ceil(r.x[j]) <= p[j]
                 /\ Within(p, b) /\ p[j] <= Floor(r.x[j]) => Within(p, LeftChild(b, r, j))
                 /\ Within(p, b) /\ Ceil(r.x[j]) <= p[j] => Within(p, RightChild(b, r, j))
           /\ LeftChild(b, r, j).bound = r.obj /\ RightChild(b, r, j).bound = r.obj
           /\ Floor(r.x[j]) < Ceil(r.x[j])
  <1> DEFINE fl == Floor(r.x[j])
             ce == Ceil(r.x[j])
             L == LeftChild(b, r, j)
             R == RightChild(b, r, j)
  <1>1. /\ r.x[j] \in Int
        /\ \A k \in Vars : b.lo[k] \in Int /\ b.up[k] \in Int
    BY DEF LPResult, Points
  <1>2. /\ fl \in Int /\ ce \in Int /\ fl < r.x[j] /\ r.x[j] < ce
    BY <1>1, FloorCeil
  <1>3. b.lo[j] <= r.x[j] /\ r.x[j] <= b.up[j]
    BY DEF Within
  <1>4. /\ L.bound = r.obj /\ R.bound = r.obj
        /\ L.lo = b.lo /\ L.up = [b.up EXCEPT ![j] = fl]
        /\ R.lo = [b.lo EXCEPT ![j] = ce] /\ R.up = b.up
    BY DEF LeftChild, RightChild
  <1> HIDE DEF L, R, fl, ce
  <1>5. \A k \in Vars : L.up[k] = (IF k = j THEN fl ELSE b.up[k])
                        /\ R.lo[k] = (IF k = j THEN ce ELSE b.lo[k])
    BY <1>4 DEF Points
  <1>6. \A k \in Vars : /\ b.lo[k] <= L.lo[k] /\ L.up[k] <= b.up[k]
                        /\ b.lo[k] <= R.lo[k] /\ R.up[k] <= b.up[k]
    BY <1>1, <1>2, <1>3, <1>4, <1>5
  <1>7. ASSUME NEW p \in Points
        PROVE  /\ Within(p, L) => Within(p, b) /\ p[j] <= fl
               /\ Within(p, R) => Within(p, b) /\ ce <= p[j]
               /\ Within(p, b) /\ p[j] <= fl => Within(p, L)
               /\ Within(p, b) /\ ce <= p[j] => Within(p, R)
    <2>1. \A k \in Vars : p[k] \in Int
      BY DEF Points
    <2> QED
      BY <1>1, <1>2, <1>3, <1>4, <1>5, <2>1 DEF Within
  <1> QED
    BY <1>1, <1>2, <1>4, <1>6, <1>7 DEF L, R, fl, ce

\* The columns and the LP solution RootBranch splits on.
LEMMA RootSplit ==
    ASSUME TypeOK, RootSolved, RootBranch
    PROVE  \E j \in milp.int :
              /\ j \in Vars /\ ~IsIntegral(root.x[j])
              /\ StopsInside => Within(root.x, RootBox)
              /\ RootBox.lo \in Points /\ RootBox.up \in Points /\ root \in LPResult
              /\ queue' = {LeftChild(RootBox, root, j), RightChild(RootBox, root, j)}
              /\ Open' = queue'
  <1> DEFINE by == IF cfg.branching = "FirstFractional" THEN "FirstFractional" ELSE "MostFractional"
  <1>1. PICK j \in BranchColumns(root.x, by) :
            queue' = {LeftChild(RootBox, root, j), RightChild(RootBox, root, j)}
    BY DEF RootBranch
  <1>2. j \in Fractional(milp, root.x)
    BY BranchColumnFractional
  <1>3. j \in milp.int /\ j \in Vars /\ ~IsIntegral(root.x[j])
    BY <1>2, Arguments DEF Fractional, WellFormed
  <1>4. (StopsInside => Within(root.x, RootBox)) /\ Open' = queue'
    BY DEF RootBranch, RootSolved, Open
  <1>5. RootBox.lo \in Points /\ RootBox.up \in Points /\ root \in LPResult
    BY DEF RootBox, TypeOK
  <1> QED
    BY <1>1, <1>3, <1>4, <1>5

\* What the LP of the explored node returns.
LEMMA NodeLPResult ==
    ASSUME TypeOK, NEW r \in NodeLP
    PROVE  /\ r \in LPResult
           /\ r.status = "OPTIMAL" =>
                 /\ r.obj = milp.cost[r.x]
                 /\ StopsInside => r.x \in lp.rows /\ Within(r.x, node)
                 /\ Converges => \A p \in lp.rows : Within(p, node) => r.obj <= milp.cost[p]
  <1> DEFINE b == [lo |-> node.lo, up |-> node.up]
  <1>1. r \in SolveLP(lp.rows, b) /\ lp.rows \subseteq milp.rows
    BY DEF NodeLP, TypeOK
  <1>2. \A p : Within(p, b) <=> Within(p, node)
    BY DEF Within
  <1> HIDE DEF b
  <1> QED
    BY <1>1, <1>2, SolveLPResult

\* The same for the node that NodeBranch splits.
LEMMA NodeSplit ==
    ASSUME TypeOK, NodeBranch
    PROVE  \E r \in NodeLP, j \in milp.int :
              /\ j \in Vars /\ ~IsIntegral(r.x[j])
              /\ StopsInside => Within(r.x, node)
              /\ node.lo \in Points /\ node.up \in Points /\ r \in LPResult
              /\ r.status = "OPTIMAL"
              /\ Converges => \A p \in lp.rows : Within(p, node) => r.obj <= milp.cost[p]
              /\ node \in Open
              /\ Open' = queue \cup {LeftChild(node, r, j), RightChild(node, r, j)}
  <1>1. PICK r \in NodeLP :
            /\ r.status = "OPTIMAL"
            /\ \E j \in BranchColumns(r.x, cfg.branching) :
                  queue' = queue \cup {LeftChild(node, r, j), RightChild(node, r, j)}
    BY DEF NodeBranch
  <1>2. PICK j \in BranchColumns(r.x, cfg.branching) :
            queue' = queue \cup {LeftChild(node, r, j), RightChild(node, r, j)}
    BY <1>1
  <1>3. j \in Fractional(milp, r.x)
    BY BranchColumnFractional, Arguments DEF Config
  <1>4. j \in milp.int /\ j \in Vars /\ ~IsIntegral(r.x[j])
    BY <1>3, Arguments DEF Fractional, WellFormed
  <1>5. /\ r \in LPResult /\ (StopsInside => Within(r.x, node))
        /\ Converges => \A p \in lp.rows : Within(p, node) => r.obj <= milp.cost[p]
    BY <1>1, NodeLPResult
  <1>6. node.lo \in Points /\ node.up \in Points
    BY DEF TypeOK, Node
  <1>7. node \in Open /\ Open' = queue'
    BY DEF NodeBranch, Open
  <1> QED
    BY <1>1, <1>2, <1>4, <1>5, <1>6, <1>7

\* The other steps of the search keep the open nodes or drop one of them.
LEMMA OpenShrinks ==
    ASSUME TypeOK, [Next]_vars, Searching', ~RootBranch, ~NodeBranch
    PROVE  /\ Searching /\ UNCHANGED lp
           /\ Open' \subseteq Open
           /\ \/ Open' = Open
              \/ PruneByBound
              \/ NodeInfeasible \/ NodeDominated \/ NodeIntegral
           /\ NodeInfeasible \/ NodeDominated \/ NodeIntegral => Open \ {node} \subseteq Open'
  <1>1. Searching
    BY PhaseOrder DEF Searching
  <1>2. UNCHANGED lp
    BY <1>1, Frame DEF RootPresolve, GomoryCuts, Searching
  <1>3. CASE PruneByBound
    BY <1>1, <1>2, <1>3 DEF PruneByBound, Open, NodeInfeasible, NodeDominated, NodeIntegral
  <1>4. CASE Explore
    BY <1>1, <1>2, <1>4 DEF Explore, Tops, Open, NodeInfeasible, NodeDominated, NodeIntegral
  <1>5. CASE NodeInfeasible \/ NodeDominated \/ NodeIntegral
    BY <1>1, <1>2, <1>5 DEF NodeInfeasible, NodeDominated, NodeIntegral, Open
  <1>6. CASE UNCHANGED vars
    BY <1>1, <1>2, <1>6 DEF vars, Open, NodeInfeasible, NodeDominated, NodeIntegral
  <1> QED
    BY <1>1, <1>3, <1>4, <1>5, <1>6
    DEF Next, Searching, PureLP, SkipPresolve, RootPresolve, SolveRoot, NoCuts, GomoryCuts,
        SimpleRounding, EndDive, AbandonDive, DiveStep, RootIntegral, TreeExhausted,
        NodeLimitReached, TimeLimitReached, GapReached, Conclude, Return

-----------------------------------------------------------------------------
(* The boxes, the phases.                                                  *)

\* The box a dive shrinks stays inside the one it was.
LEMMA DiveBoxInside ==
    ASSUME TypeOK, NEW j \in Closest(dive.x), Within(dive.x, dive), Inside(dive)
    PROVE  Inside(DiveBox(j))
  <1> DEFINE target == Clamped(dive.x[j], dive.lo[j], dive.up[j])
  <1>1. j \in Vars
    BY Arguments DEF Closest, Fractional, WellFormed
  <1>2. /\ dive.x[j] \in Int /\ dive.lo[j] \in Int /\ dive.up[j] \in Int
        /\ dive.lo[j] <= dive.up[j]
        /\ \A k \in Vars : lp.lo[k] \in Int /\ lp.up[k] \in Int
        /\ \A k \in Vars : dive.lo[k] \in Int /\ dive.up[k] \in Int
    BY <1>1 DEF TypeOK, Points, Within
  <1>3. target \in Int /\ dive.lo[j] <= target /\ target <= dive.up[j]
    BY <1>2, RoundedPoint
  <1>4. \A k \in Vars : /\ DiveBox(j).lo[k] = (IF k = j THEN target ELSE dive.lo[k])
                        /\ DiveBox(j).up[k] = (IF k = j THEN target ELSE dive.up[k])
    BY DEF DiveBox, TypeOK, Points
  <1> HIDE DEF target
  <1>5. lp.lo[j] <= dive.lo[j] /\ dive.up[j] <= lp.up[j]
    BY <1>1 DEF Inside
  <1> QED
    BY <1>1, <1>2, <1>3, <1>4, <1>5 DEF Inside

\* A dive step: the new point lies in the new box, or the dive is over.
LEMMA DiveStepBox ==
    ASSUME TypeOK, BoxesNested, StopsInside, DiveStep
    PROVE  pc' = "diving" => Inside(dive)' /\ Within(dive.x, dive)'
  <1>1. PICK j \in Closest(dive.x) : \E r \in SolveLP(lp.rows, DiveBox(j)) :
            \/ /\ r.status = "OPTIMAL"
               /\ dive' = [lo |-> DiveBox(j).lo, up |-> DiveBox(j).up,
                           x |-> r.x, step |-> dive.step + 1]
            \/ pc' = "branch"
    BY DEF DiveStep
  <1>2. PICK r \in SolveLP(lp.rows, DiveBox(j)) :
            \/ /\ r.status = "OPTIMAL"
               /\ dive' = [lo |-> DiveBox(j).lo, up |-> DiveBox(j).up,
                           x |-> r.x, step |-> dive.step + 1]
            \/ pc' = "branch"
    BY <1>1
  <1>3. Inside(DiveBox(j))
    BY DiveBoxInside DEF DiveStep, BoxesNested
  <1>4. r.status = "OPTIMAL" => Within(r.x, DiveBox(j))
    BY SolveLPResult DEF TypeOK
  <1>5. UNCHANGED lp
    BY DEF DiveStep
  <1> QED
    BY <1>2, <1>3, <1>4, <1>5 DEF Inside, Within

\* The boxes of the open nodes and of the dive stay inside the root box.
LEMMA BoxesNestedStep ==
    ASSUME TypeOK, RootSolved, BoxesNested, [Next]_vars
    PROVE  BoxesNested'
  <1> SUFFICES ASSUME StopsInside PROVE BoxesNested'
    BY Frame, SameSolver DEF BoxesNested
  <1>1. pc' = "diving" => Inside(dive)' /\ Within(dive.x, dive)'
    <2>1. CASE SimpleRounding
      BY <2>1 DEF SimpleRounding, RootSolved, RootBox, Inside, Within, TypeOK, Points
    <2>2. CASE DiveStep
      BY <2>2, DiveStepBox
    <2>3. CASE ~SimpleRounding /\ ~DiveStep
      <3>1. SUFFICES ASSUME pc' = "diving" PROVE Inside(dive)' /\ Within(dive.x, dive)'
        OBVIOUS
      <3>2. pc = "diving" /\ UNCHANGED <<dive, lp>>
        BY <2>3, <3>1, PhaseOrder, Frame DEF RootPresolve, GomoryCuts
      <3> QED
        BY <3>2 DEF BoxesNested, Inside, Within
    <2> QED
      BY <2>1, <2>2, <2>3
  <1>2. ASSUME Searching', NEW n \in Open'
        PROVE  Inside(n)'
    <2>0. \A j \in Vars : lp.lo[j] \in Int /\ lp.up[j] \in Int
      BY DEF TypeOK, Points
    <2>1. CASE RootBranch
      <3>1. PICK j \in milp.int :
                /\ j \in Vars /\ ~IsIntegral(root.x[j]) /\ Within(root.x, RootBox)
                /\ RootBox.lo \in Points /\ RootBox.up \in Points /\ root \in LPResult
                /\ queue' = {LeftChild(RootBox, root, j), RightChild(RootBox, root, j)}
                /\ Open' = queue'
        BY <2>1, RootSplit
      <3>2. UNCHANGED lp
        BY <2>1 DEF RootBranch
      <3>3. \A k \in Vars : RootBox.lo[k] = lp.lo[k] /\ RootBox.up[k] = lp.up[k]
        BY DEF RootBox
      <3>4. /\ \A k \in Vars : /\ RootBox.lo[k] <= LeftChild(RootBox, root, j).lo[k]
                               /\ LeftChild(RootBox, root, j).up[k] <= RootBox.up[k]
                               /\ RootBox.lo[k] <= RightChild(RootBox, root, j).lo[k]
                               /\ RightChild(RootBox, root, j).up[k] <= RootBox.up[k]
        BY <3>1, Children
      <3> QED
        BY <1>2, <3>1, <3>2, <3>3, <3>4 DEF Inside
    <2>2. CASE NodeBranch
      <3>1. PICK r \in NodeLP : \E j \in milp.int :
                /\ j \in Vars /\ ~IsIntegral(r.x[j]) /\ Within(r.x, node)
                /\ node.lo \in Points /\ node.up \in Points /\ r \in LPResult
                /\ node \in Open
                /\ Open' = queue \cup {LeftChild(node, r, j), RightChild(node, r, j)}
        BY <2>2, NodeSplit
      <3>2. PICK j \in milp.int :
                /\ j \in Vars /\ ~IsIntegral(r.x[j]) /\ Within(r.x, node)
                /\ node.lo \in Points /\ node.up \in Points /\ r \in LPResult
                /\ node \in Open
                /\ Open' = queue \cup {LeftChild(node, r, j), RightChild(node, r, j)}
        BY <3>1
      <3>3. UNCHANGED lp /\ Searching
        BY <2>2 DEF NodeBranch, Searching
      <3>4. \A k \in Vars : /\ node.lo[k] <= LeftChild(node, r, j).lo[k]
                            /\ LeftChild(node, r, j).up[k] <= node.up[k]
                            /\ node.lo[k] <= RightChild(node, r, j).lo[k]
                            /\ RightChild(node, r, j).up[k] <= node.up[k]
        BY <3>2, Children
      <3>5. Inside(node) /\ (n \in queue => Inside(n))
        BY <3>2, <3>3 DEF BoxesNested, Open
      <3>6. LeftChild(node, r, j) \in Node /\ RightChild(node, r, j) \in Node
        BY <3>2, ChildrenAreNodes
      <3>7. \A k \in Vars : /\ node.lo[k] \in Int /\ node.up[k] \in Int
                            /\ LeftChild(node, r, j).lo[k] \in Int /\ LeftChild(node, r, j).up[k] \in Int
                            /\ RightChild(node, r, j).lo[k] \in Int /\ RightChild(node, r, j).up[k] \in Int
        BY <3>2, <3>6 DEF Node, Points
      <3>8. n \in queue \/ n = LeftChild(node, r, j) \/ n = RightChild(node, r, j)
        BY <1>2, <3>2
      <3>9. Inside(LeftChild(node, r, j)) /\ Inside(RightChild(node, r, j))
        BY <2>0, <3>4, <3>5, <3>7 DEF Inside
      <3> QED
        BY <3>3, <3>5, <3>8, <3>9 DEF Inside
    <2>3. CASE ~RootBranch /\ ~NodeBranch
      <3>1. Searching /\ UNCHANGED lp /\ n \in Open
        BY <1>2, <2>3, OpenShrinks
      <3> QED
        BY <3>1 DEF BoxesNested, Inside
    <2> QED
      BY <2>1, <2>2, <2>3
  <1> QED
    BY <1>1, <1>2 DEF BoxesNested

\* The incumbent only improves.
LEMMA IncumbentFalls ==
    ASSUME TypeOK, [Next]_vars
    PROVE  incumbent' <= incumbent
  <1>1. incumbent' \in Int /\ incumbent \in Int
    BY NextType DEF TypeOK
  <1>2. incumbent' < incumbent \/ UNCHANGED incumbent
    BY Frame DEF SimpleRounding, EndDive, NodeIntegral, UpdateIncumbent, found
  <1> QED
    BY <1>1, <1>2

\* What each phase of solve() may assume of the node it works on and of the counters.
LEMMA PhasesStep ==
    ASSUME TypeOK, Phases, [Next]_vars
    PROVE  Phases'
  <1>0. incumbent' \in Int /\ incumbent \in Int /\ Infinity \in Int
    BY NextType, SizesAssumption DEF TypeOK
  <1>1. incumbent' <= Infinity
    BY <1>0, IncumbentFalls DEF Phases
  <1>2. pc' = "gap" => incumbent' < Infinity
    <2>1. CASE NodeIntegral
      BY <1>0, <1>1, <2>1 DEF NodeIntegral, GapClosed
    <2>2. CASE UNCHANGED vars
      BY <2>2 DEF Phases, vars
    <2> QED
      BY <2>1, <2>2, PhaseOrder
  <1>3. pc' \in {"start", "root", "cuts"} => incumbent' = Infinity
    <2>1. SUFFICES ASSUME pc' \in {"start", "root", "cuts"} PROVE incumbent' = Infinity
      OBVIOUS
    <2>2. pc \in {"start", "root", "cuts"}
      BY <2>1, PhaseOrder DEF vars, SkipPresolve, RootPresolve, SolveRoot
    <2> QED
      BY <2>2, Frame DEF Phases, SimpleRounding, EndDive, NodeIntegral
  <1>4. ~Searching' /\ pc' # "done" => queue' = {}
    <2>1. SUFFICES ASSUME ~Searching', pc' # "done" PROVE queue' = {}
      OBVIOUS
    <2>2. ~Searching /\ pc # "done"
      BY <2>1, PhaseOrder, Frame DEF Searching, vars
    <2> QED
      BY <2>1, <2>2, Frame DEF Phases, Searching, RootBranch, PruneByBound, Explore, NodeBranch
  <1>5. pc' = "node" => node' \notin queue'
    <2>1. CASE Explore
      BY <2>1 DEF Explore
    <2>2. CASE UNCHANGED vars
      BY <2>2 DEF Phases, vars
    <2> QED
      BY <2>1, <2>2, PhaseOrder
  <1>6. pc' # "done" => result' = NoResult
    BY Frame DEF Phases, vars
  <1> QED
    BY <1>1, <1>2, <1>3, <1>4, <1>5, <1>6 DEF Phases

-----------------------------------------------------------------------------
(* What is inside the open nodes.                                          *)

\* No action raises the bound of an open node above the points of its box.
LEMMA BoundsBelowStep ==
    ASSUME TypeOK, RootSolved, BoundsBelow, [Next]_vars
    PROVE  BoundsBelow'
  <1>0. UNCHANGED milp /\ lp.rows \subseteq Points
    BY Frame, Arguments DEF WellFormed, TypeOK
  <1> SUFFICES ASSUME Converges, StopsInside, Searching',
                      NEW n \in Open', NEW p \in lp'.rows, Within(p, n)
               PROVE  n.bound <= milp.cost[p]
    BY <1>0, Frame, SameSolver DEF BoundsBelow
  <1>1. CASE RootBranch
    <2>1. PICK j \in milp.int :
              /\ j \in Vars /\ ~IsIntegral(root.x[j]) /\ Within(root.x, RootBox)
              /\ RootBox.lo \in Points /\ RootBox.up \in Points /\ root \in LPResult
              /\ queue' = {LeftChild(RootBox, root, j), RightChild(RootBox, root, j)}
              /\ Open' = queue'
      BY <1>1, RootSplit
    <2>2. p \in lp.rows /\ p \in Points
      BY <1>0, <1>1 DEF RootBranch
    <2>3. n.bound = root.obj /\ Within(p, RootBox)
      BY <2>1, <2>2, Children
    <2> QED
      BY <1>1, <2>2, <2>3 DEF RootBranch, RootSolved
  <1>2. CASE NodeBranch
    <2>1. PICK r \in NodeLP : \E j \in milp.int :
              /\ j \in Vars /\ ~IsIntegral(r.x[j]) /\ Within(r.x, node)
              /\ node.lo \in Points /\ node.up \in Points /\ r \in LPResult
              /\ r.status = "OPTIMAL"
              /\ \A q \in lp.rows : Within(q, node) => r.obj <= milp.cost[q]
              /\ Open' = queue \cup {LeftChild(node, r, j), RightChild(node, r, j)}
      BY <1>2, NodeSplit
    <2>2. PICK j \in milp.int :
              /\ j \in Vars /\ ~IsIntegral(r.x[j]) /\ Within(r.x, node)
              /\ node.lo \in Points /\ node.up \in Points /\ r \in LPResult
              /\ \A q \in lp.rows : Within(q, node) => r.obj <= milp.cost[q]
              /\ Open' = queue \cup {LeftChild(node, r, j), RightChild(node, r, j)}
      BY <2>1
    <2>3. p \in lp.rows /\ p \in Points /\ Searching
      BY <1>0, <1>2 DEF NodeBranch, Searching
    <2>4. CASE n \in queue
      BY <2>3, <2>4 DEF BoundsBelow, Open
    <2>5. CASE n \in {LeftChild(node, r, j), RightChild(node, r, j)}
      <3>1. n.bound = r.obj /\ Within(p, node)
        BY <2>2, <2>3, <2>5, Children
      <3> QED
        BY <2>2, <2>3, <3>1
    <2> QED
      BY <2>2, <2>4, <2>5
  <1>3. CASE ~RootBranch /\ ~NodeBranch
    <2>1. Searching /\ UNCHANGED lp /\ n \in Open
      BY <1>3, OpenShrinks
    <2> QED
      BY <2>1 DEF BoundsBelow
  <1> QED
    BY <1>1, <1>2, <1>3

\* No action puts a point of the rows into two open nodes.
LEMMA OpenDisjointStep ==
    ASSUME TypeOK, RootSolved, Phases, OpenDisjoint, [Next]_vars
    PROVE  OpenDisjoint'
  <1>0. UNCHANGED milp /\ milp.rows \subseteq Points
    BY Frame, Arguments DEF WellFormed
  <1> SUFFICES ASSUME StopsInside, Searching',
                      NEW n \in Open', NEW o \in Open', NEW p \in milp.rows,
                      Within(p, n), Within(p, o)
               PROVE  n = o
    BY <1>0, Frame, SameSolver DEF OpenDisjoint
  <1>p. p \in Points
    BY <1>0
  <1>1. CASE RootBranch
    <2>1. PICK j \in milp.int :
              /\ j \in Vars /\ ~IsIntegral(root.x[j]) /\ Within(root.x, RootBox)
              /\ RootBox.lo \in Points /\ RootBox.up \in Points /\ root \in LPResult
              /\ queue' = {LeftChild(RootBox, root, j), RightChild(RootBox, root, j)}
              /\ Open' = queue'
      BY <1>1, RootSplit
    <2>2. /\ p[j] \in Int /\ root.x[j] \in Int
          /\ Floor(root.x[j]) \in Int /\ Ceil(root.x[j]) \in Int
      BY <1>p, <2>1, FloorCeil DEF Points, LPResult
    <2>3. /\ Floor(root.x[j]) < Ceil(root.x[j])
          /\ Within(p, LeftChild(RootBox, root, j)) => p[j] <= Floor(root.x[j])
          /\ Within(p, RightChild(RootBox, root, j)) => Ceil(root.x[j]) <= p[j]
      BY <1>p, <2>1, Children
    <2> QED
      BY <2>1, <2>2, <2>3
  <1>2. CASE NodeBranch
    <2>1. PICK r \in NodeLP : \E j \in milp.int :
              /\ j \in Vars /\ ~IsIntegral(r.x[j]) /\ Within(r.x, node)
              /\ node.lo \in Points /\ node.up \in Points /\ r \in LPResult
              /\ node \in Open
              /\ Open' = queue \cup {LeftChild(node, r, j), RightChild(node, r, j)}
      BY <1>2, NodeSplit
    <2>2. PICK j \in milp.int :
              /\ j \in Vars /\ ~IsIntegral(r.x[j]) /\ Within(r.x, node)
              /\ node.lo \in Points /\ node.up \in Points /\ r \in LPResult
              /\ node \in Open
              /\ Open' = queue \cup {LeftChild(node, r, j), RightChild(node, r, j)}
      BY <2>1
    <2>3. /\ p[j] \in Int /\ r.x[j] \in Int
          /\ Floor(r.x[j]) \in Int /\ Ceil(r.x[j]) \in Int
      BY <1>p, <2>2, FloorCeil DEF Points, LPResult
    <2>4. /\ Floor(r.x[j]) < Ceil(r.x[j])
          /\ Within(p, LeftChild(node, r, j)) => Within(p, node) /\ p[j] <= Floor(r.x[j])
          /\ Within(p, RightChild(node, r, j)) => Within(p, node) /\ Ceil(r.x[j]) <= p[j]
      BY <1>p, <2>2, Children
    <2>5. /\ Searching /\ queue \subseteq Open /\ node \notin queue
      BY <1>2 DEF NodeBranch, Searching, Open, Phases
    <2>6. \A q \in queue : Within(p, q) => ~Within(p, node)
      BY <2>2, <2>5 DEF OpenDisjoint
    <2>7. \A q1, q2 \in queue : Within(p, q1) /\ Within(p, q2) => q1 = q2
      BY <2>5 DEF OpenDisjoint
    <2>8. ~(Within(p, LeftChild(node, r, j)) /\ Within(p, RightChild(node, r, j)))
      BY <2>3, <2>4
    <2> QED
      BY <2>2, <2>4, <2>6, <2>7, <2>8
  <1>3. CASE ~RootBranch /\ ~NodeBranch
    <2>1. Searching /\ n \in Open /\ o \in Open
      BY <1>3, OpenShrinks
    <2> QED
      BY <2>1 DEF OpenDisjoint
  <1> QED
    BY <1>1, <1>2, <1>3

-----------------------------------------------------------------------------
(* The boxes the simplex is given are never empty.                         *)

\* Split at a fractional value of an integer column, a box with integral bounds in
\* its integer columns leaves two such boxes, and no column of theirs is crossed.
LEMMA ChildrenWhole ==
    ASSUME TypeOK, NEW b, b.lo \in Points, b.up \in Points,
           NEW r \in LPResult, NEW j \in milp.int, j \in Vars,
           Within(r.x, b), ~IsIntegral(r.x[j]),
           \A k \in milp.int : IsIntegral(b.lo[k]) /\ IsIntegral(b.up[k]),
           NEW c \in {LeftChild(b, r, j), RightChild(b, r, j)}
    PROVE  /\ \A k \in milp.int : IsIntegral(c.lo[k]) /\ IsIntegral(c.up[k])
           /\ \A k \in Vars : c.lo[k] <= c.up[k]
  <1> DEFINE fl == Floor(r.x[j])
             ce == Ceil(r.x[j])
  <1>1. \A k \in Vars : /\ r.x[k] \in Int /\ b.lo[k] \in Int /\ b.up[k] \in Int
                        /\ b.lo[k] <= r.x[k] /\ r.x[k] <= b.up[k]
    BY DEF LPResult, Points, Within
  <1>2. fl \in Int /\ ce \in Int /\ IsIntegral(fl) /\ IsIntegral(ce)
    BY <1>1, FloorCeil
  <1>3. b.lo[j] <= fl /\ ce <= b.up[j]
    BY <1>1, BetweenFloorAndCeil
  <1>4. /\ LeftChild(b, r, j).lo = b.lo /\ LeftChild(b, r, j).up = [b.up EXCEPT ![j] = fl]
        /\ RightChild(b, r, j).lo = [b.lo EXCEPT ![j] = ce] /\ RightChild(b, r, j).up = b.up
    BY DEF LeftChild, RightChild
  <1>5. milp.int \subseteq Vars
    BY Arguments DEF WellFormed
  <1> HIDE DEF fl, ce
  <1>6. CASE c = LeftChild(b, r, j)
    <2>1. \A k \in Vars : /\ c.lo[k] = b.lo[k]
                          /\ c.up[k] = (IF k = j THEN fl ELSE b.up[k])
      BY <1>4, <1>6 DEF Points
    <2> QED
      BY <1>1, <1>2, <1>3, <1>5, <2>1
  <1>7. CASE c = RightChild(b, r, j)
    <2>1. \A k \in Vars : /\ c.lo[k] = (IF k = j THEN ce ELSE b.lo[k])
                          /\ c.up[k] = b.up[k]
      BY <1>4, <1>7 DEF Points
    <2> QED
      BY <1>1, <1>2, <1>3, <1>5, <2>1
  <1> QED
    BY <1>6, <1>7

\* No action opens a box with a crossed column, or with a fractional bound where
\* the column is an integer one.
LEMMA OpenWholeStep ==
    ASSUME TypeOK, WorkingModel, RootSolved, OpenWhole, [Next]_vars
    PROVE  OpenWhole'
  <1>0. UNCHANGED <<milp, cfg>>
    BY Frame
  <1> SUFFICES ASSUME StopsInside, Searching', IntegralBox, NEW n \in Open'
               PROVE  /\ \A j \in milp.int : IsIntegral(n.lo[j]) /\ IsIntegral(n.up[j])
                      /\ \A j \in Vars : n.lo[j] <= n.up[j]
    BY <1>0, SameSolver DEF OpenWhole, IntegralBox
  <1>1. CASE RootBranch
    <2>1. PICK j \in milp.int :
              /\ j \in Vars /\ ~IsIntegral(root.x[j]) /\ Within(root.x, RootBox)
              /\ RootBox.lo \in Points /\ RootBox.up \in Points /\ root \in LPResult
              /\ queue' = {LeftChild(RootBox, root, j), RightChild(RootBox, root, j)}
              /\ Open' = queue'
      BY <1>1, RootSplit
    <2>2. \A k \in milp.int : IsIntegral(RootBox.lo[k]) /\ IsIntegral(RootBox.up[k])
      BY <1>1 DEF RootBranch, WorkingModel, RootBox
    <2>3. n \in {LeftChild(RootBox, root, j), RightChild(RootBox, root, j)}
      BY <2>1
    <2> QED
      BY <2>1, <2>2, <2>3, ChildrenWhole
  <1>2. CASE NodeBranch
    <2>1. PICK r \in NodeLP : \E j \in milp.int :
              /\ j \in Vars /\ ~IsIntegral(r.x[j]) /\ Within(r.x, node)
              /\ node.lo \in Points /\ node.up \in Points /\ r \in LPResult
              /\ node \in Open
              /\ Open' = queue \cup {LeftChild(node, r, j), RightChild(node, r, j)}
      BY <1>2, NodeSplit
    <2>2. PICK j \in milp.int :
              /\ j \in Vars /\ ~IsIntegral(r.x[j]) /\ Within(r.x, node)
              /\ node.lo \in Points /\ node.up \in Points /\ r \in LPResult
              /\ node \in Open
              /\ Open' = queue \cup {LeftChild(node, r, j), RightChild(node, r, j)}
      BY <2>1
    <2>3. Searching /\ queue \subseteq Open
      BY <1>2 DEF NodeBranch, Searching, Open
    <2>4. CASE n \in queue
      BY <2>3, <2>4 DEF OpenWhole
    <2>5. CASE n \in {LeftChild(node, r, j), RightChild(node, r, j)}
      <3>1. \A k \in milp.int : IsIntegral(node.lo[k]) /\ IsIntegral(node.up[k])
        BY <2>2, <2>3 DEF OpenWhole
      <3> QED
        BY <2>2, <2>5, <3>1, ChildrenWhole
    <2> QED
      BY <2>2, <2>4, <2>5
  <1>3. CASE ~RootBranch /\ ~NodeBranch
    <2>1. Searching /\ n \in Open
      BY <1>3, OpenShrinks
    <2> QED
      BY <2>1 DEF OpenWhole
  <1> QED
    BY <1>1, <1>2, <1>3

\* What the invariants say of the open boxes and of the dive's is NoCrossedBounds.
LEMMA WholeUncrossed ==
    ASSUME TypeOK, BoxesNested, OpenWhole
    PROVE  NoCrossedBounds
  <1>1. ASSUME StopsInside, pc = "diving", NEW j \in Vars
        PROVE  dive.lo[j] <= dive.up[j]
    <2>1. dive.lo[j] \in Int /\ dive.x[j] \in Int /\ dive.up[j] \in Int
      BY DEF TypeOK, Points
    <2>2. dive.lo[j] <= dive.x[j] /\ dive.x[j] <= dive.up[j]
      BY <1>1 DEF BoxesNested, Within
    <2> QED
      BY <2>1, <2>2
  <1> QED
    BY <1>1 DEF OpenWhole, NoCrossedBounds

-----------------------------------------------------------------------------
(* How the nodes are counted.                                              *)

\* Which actions count what: the counters of the result, for a search that goes on.
LEMMA Counting ==
    ASSUME TypeOK, [Next]_vars, pc' # "done"
    PROVE  \/ UNCHANGED stat
           \/ /\ RootBranch
              /\ stat'.created = 2 /\ stat'.bound = stat.bound
              /\ stat'.infeasible = stat.infeasible /\ stat'.integral = stat.integral
           \/ /\ NodeBranch
              /\ stat'.created = stat.created + 2 /\ stat'.bound = stat.bound
              /\ stat'.infeasible = stat.infeasible /\ stat'.integral = stat.integral
           \/ /\ Explore
              /\ stat'.created = stat.created /\ stat'.bound = stat.bound
              /\ stat'.infeasible = stat.infeasible /\ stat'.integral = stat.integral
           \/ /\ PruneByBound \/ NodeInfeasible \/ NodeDominated \/ NodeIntegral
              /\ stat'.created = stat.created
              /\ stat'.bound + stat'.infeasible + stat'.integral
                    = stat.bound + stat.infeasible + stat.integral + 1
  <1>1. CASE RootBranch \/ NodeBranch \/ Explore
    BY <1>1 DEF RootBranch, NodeBranch, Explore, TypeOK
  <1>2. CASE PruneByBound \/ NodeInfeasible \/ NodeDominated \/ NodeIntegral
    BY <1>2 DEF PruneByBound, NodeInfeasible, NodeDominated, NodeIntegral, TypeOK
  <1>3. CASE ~(RootBranch \/ NodeBranch \/ Explore)
             /\ ~(PruneByBound \/ NodeInfeasible \/ NodeDominated \/ NodeIntegral)
    BY <1>3 DEF Next, vars, tree, Return, Conclude,
         PureLP, SkipPresolve, RootPresolve, SolveRoot, NoCuts, GomoryCuts, SimpleRounding,
         EndDive, AbandonDive, DiveStep, RootIntegral, TreeExhausted,
         NodeLimitReached, TimeLimitReached, GapReached
  <1> QED
    BY <1>1, <1>2, <1>3

\* The open nodes are finitely many.
LEMMA OpenFinite ==
    ASSUME TypeOK
    PROVE  IsFiniteSet(Open)
  <1>1. IsFiniteSet(queue \cup {node})
    BY FS_AddElement DEF TypeOK
  <1>2. Open \subseteq queue \cup {node}
    BY DEF Open
  <1> QED
    BY <1>1, <1>2, FS_Subset

\* Taking a node out of a finite set of them leaves one less, adding two makes two more.
LEMMA NodesCounted ==
    ASSUME NEW S, IsFiniteSet(S)
    PROVE  /\ Cardinality(S) \in Nat
           /\ \A n \in S : Cardinality(S \ {n}) = Cardinality(S) - 1
           /\ \A n, o : n \notin S /\ o \notin S /\ n # o =>
                 Cardinality(S \cup {n, o}) = Cardinality(S) + 2
  <1>1. Cardinality(S) \in Nat /\ \A n \in S : Cardinality(S \ {n}) = Cardinality(S) - 1
    BY FS_CardinalityType, FS_RemoveElement
  <1>2. ASSUME NEW n, NEW o, n \notin S, o \notin S, n # o
        PROVE  Cardinality(S \cup {n, o}) = Cardinality(S) + 2
    <2>1. /\ IsFiniteSet(S \cup {n})
          /\ Cardinality(S \cup {n}) = Cardinality(S) + 1
      BY <1>2, FS_AddElement
    <2>2. o \notin S \cup {n}
      BY <1>2
    <2>3. Cardinality((S \cup {n}) \cup {o}) = Cardinality(S \cup {n}) + 1
      BY <2>1, <2>2, FS_AddElement
    <2>4. (S \cup {n}) \cup {o} = S \cup {n, o}
      OBVIOUS
    <2>5. Cardinality(S \cup {n, o}) = (Cardinality(S) + 1) + 1
      BY <2>1, <2>3, <2>4, Zenon
    <2> QED
      BY <1>1, <2>5
  <1> QED
    BY <1>1, <1>2

\* Every step numbers the nodes it opens and accounts for those it closes.
LEMMA NodeConservationStep ==
    ASSUME TypeOK, RootSolved, Phases, OpenNumbered, NodeConservation, [Next]_vars
    PROVE  OpenNumbered' /\ NodeConservation'
  <1> DEFINE closed == stat.bound + stat.infeasible + stat.integral
  <1>0. /\ IsFiniteSet(Open) /\ IsFiniteSet(queue) /\ Cardinality(Open) \in Nat
        /\ stat.created \in Nat /\ stat'.created \in Nat /\ closed \in Nat /\ closed' \in Nat
        /\ stat.bound \in Nat /\ stat.infeasible \in Nat /\ stat.integral \in Nat
        /\ stat'.bound \in Nat /\ stat'.infeasible \in Nat /\ stat'.integral \in Nat
    BY OpenFinite, NodesCounted, NextType DEF TypeOK
  <1>1. ASSUME ~Searching', pc' # "done"
        PROVE  /\ stat'.created = 0 /\ stat'.bound = 0
               /\ stat'.infeasible = 0 /\ stat'.integral = 0
    <2>1. ~Searching /\ pc # "done"
      BY <1>1, PhaseOrder, Frame DEF Searching, vars
    <2>2. UNCHANGED stat
      BY <1>1, <2>1, Counting
      DEF Searching, RootBranch, NodeBranch, Explore, PruneByBound, NodeInfeasible,
          NodeDominated, NodeIntegral
    <2> QED
      BY <2>1, <2>2 DEF OpenNumbered
  <1> DEFINE Numbered == \A n \in Open : n.id <= stat.created
             Balanced ==
                 stat.created + 2
                     = 2 * (Cardinality(Open) + stat.bound + stat.infeasible + stat.integral)
  <1>2. SUFFICES ASSUME Searching' PROVE Numbered' /\ Balanced'
    BY <1>1 DEF OpenNumbered, NodeConservation
  <1>3. CASE RootBranch
    <2>1. PICK j \in milp.int :
              Open' = {LeftChild(RootBox, root, j), RightChild(RootBox, root, j)}
      BY <1>3, RootSplit
    <2>2. /\ stat.created = 0 /\ stat'.created = 2 /\ closed' = 0
      BY <1>3 DEF RootBranch, OpenNumbered, Searching, TypeOK
    <2> DEFINE L == LeftChild(RootBox, root, j)
               R == RightChild(RootBox, root, j)
    <2>3. L.id = 1 /\ R.id = 2 /\ Open' = {} \cup {L, R}
      BY <2>1, <2>2 DEF LeftChild, RightChild
    <2> HIDE DEF L, R
    <2>4. Cardinality({} \cup {L, R}) = 0 + 2
      <3>1. IsFiniteSet({}) /\ Cardinality({}) = 0
        BY FS_EmptySet
      <3>2. L # R /\ L \notin {} /\ R \notin {}
        BY <2>3
      <3>3. Cardinality({} \cup {L, R}) = Cardinality({}) + 2
        BY <3>1, <3>2, NodesCounted, Zenon
      <3> QED
        BY <3>1, <3>3, Zenon
    <2>5. Cardinality(Open') = 0 + 2
      BY <2>3, <2>4, Zenon
    <2> QED
      BY <1>0, <2>2, <2>3, <2>5
  <1>4. CASE NodeBranch
    <2>1. PICK r \in NodeLP, j \in milp.int :
              /\ node \in Open
              /\ Open' = queue \cup {LeftChild(node, r, j), RightChild(node, r, j)}
      BY <1>4, NodeSplit
    <2>2. /\ Searching /\ Open = queue \cup {node} /\ node \notin queue
      BY <1>4 DEF NodeBranch, Searching, Open, Phases
    <2>3. /\ stat'.created = stat.created + 2 /\ closed' = closed
      BY <1>4 DEF NodeBranch, TypeOK
    <2> DEFINE L == LeftChild(node, r, j)
               R == RightChild(node, r, j)
    <2>4. /\ L.id = stat.created + 1 /\ R.id = stat.created + 2
          /\ Open' = queue \cup {L, R}
      BY <2>1 DEF LeftChild, RightChild
    <2> HIDE DEF L, R
    <2>5. /\ \A n \in queue : n.id \in Nat /\ n.id <= stat.created
          /\ L \notin queue /\ R \notin queue /\ L # R
      BY <1>0, <2>2, <2>4 DEF OpenNumbered, TypeOK, Node
    <2>6. Cardinality(queue \cup {L, R}) = Cardinality(queue) + 2
      BY <1>0, <2>5, NodesCounted
    <2>7. Cardinality(Open \ {node}) = Cardinality(Open) - 1 /\ Open \ {node} = queue
      BY <1>0, <2>1, <2>2, NodesCounted
    <2>8. Cardinality(queue) = Cardinality(Open) - 1
      BY <2>7, Zenon
    <2>9. Cardinality(Open') = Cardinality(queue) + 2
      BY <2>4, <2>6, Zenon
    <2>10. Cardinality(Open') = Cardinality(Open) + 1
      BY <1>0, <2>8, <2>9
    <2>11. Balanced'
      <3>1. Balanced
        BY <2>2 DEF NodeConservation
      <3> HIDE DEF closed
      <3>2. stat'.created + 2 = 2 * (Cardinality(Open') + closed')
        <4>1. stat.created + 2 = 2 * (Cardinality(Open) + closed)
          BY <1>0, <3>1 DEF closed
        <4> QED
          BY <1>0, <2>3, <2>10, <4>1
      <3> QED
        BY <1>0, <2>10, <3>2 DEF closed
    <2> QED
      BY <1>0, <2>3, <2>4, <2>5, <2>11
  <1>5. CASE PruneByBound \/ NodeInfeasible \/ NodeDominated \/ NodeIntegral
    <2>1. PICK n \in Open : Open' = Open \ {n} /\ Searching
      <3>1. CASE PruneByBound
        BY <3>1 DEF PruneByBound, Open, Tops, Searching
      <3>2. CASE NodeInfeasible \/ NodeDominated \/ NodeIntegral
        BY <3>2 DEF NodeInfeasible, NodeDominated, NodeIntegral, Open, Searching, Phases
      <3> QED
        BY <1>5, <3>1, <3>2
    <2>2. stat'.created = stat.created /\ closed' = closed + 1
      BY <1>5 DEF PruneByBound, NodeInfeasible, NodeDominated, NodeIntegral, TypeOK
    <2>3. Cardinality(Open \ {n}) = Cardinality(Open) - 1
      BY <1>0, NodesCounted
    <2>4. Cardinality(Open') = Cardinality(Open) - 1
      BY <2>1, <2>3, Zenon
    <2>5. Balanced /\ Numbered
      BY <2>1 DEF NodeConservation, OpenNumbered
    <2>6. Numbered'
      BY <2>1, <2>2, <2>5
    <2>7. Cardinality(Open') \in Int
      BY <1>0, <2>4
    <2>8. Balanced'
      BY <1>0, <2>2, <2>4, <2>5, <2>7
    <2> QED
      BY <2>6, <2>8
  <1>6. CASE Explore
    <2>1. Open' = Open /\ Searching
      BY <1>6 DEF Explore, Open, Tops, Searching
    <2>2. stat'.created = stat.created /\ closed' = closed
      BY <1>6 DEF Explore, TypeOK
    <2> QED
      BY <1>0, <2>1, <2>2 DEF NodeConservation, OpenNumbered
  <1>7. CASE /\ ~RootBranch /\ ~NodeBranch /\ ~Explore
             /\ ~(PruneByBound \/ NodeInfeasible \/ NodeDominated \/ NodeIntegral)
    <2>1. Open' = Open /\ Searching
      BY <1>2, <1>7, OpenShrinks
    <2>2. UNCHANGED stat
      BY <1>2, <1>7, Counting DEF Searching
    <2> QED
      BY <1>0, <2>1, <2>2 DEF NodeConservation, OpenNumbered
  <1> QED
    BY <1>3, <1>4, <1>5, <1>6, <1>7

\* The boxes that branching opens are strictly inside the one it closes.
LEMMA SplitShrinksStep ==
    ASSUME TypeOK, StopsInside, [Next]_vars, pc = "node", NEW n \in queue' \ queue
    PROVE  /\ \A k \in Vars : node.lo[k] <= n.lo[k] /\ n.up[k] <= node.up[k]
           /\ \E k \in Vars : node.lo[k] < n.lo[k] \/ n.up[k] < node.up[k]
  <1>1. NodeBranch
    BY Frame DEF RootBranch, PruneByBound, Explore
  <1>2. PICK r \in NodeLP, j \in milp.int :
            /\ j \in Vars /\ ~IsIntegral(r.x[j]) /\ Within(r.x, node)
            /\ node.lo \in Points /\ node.up \in Points /\ r \in LPResult
            /\ Open' = queue \cup {LeftChild(node, r, j), RightChild(node, r, j)}
    BY <1>1, NodeSplit
  <1>3. n \in {LeftChild(node, r, j), RightChild(node, r, j)}
    BY <1>1, <1>2 DEF NodeBranch, Open
  <1>4. \A k \in Vars : node.lo[k] <= n.lo[k] /\ n.up[k] <= node.up[k]
    BY <1>2, <1>3, Children
  <1>5. /\ r.x[j] \in Int /\ node.lo[j] \in Int /\ node.up[j] \in Int
        /\ node.lo[j] <= r.x[j] /\ r.x[j] <= node.up[j]
    BY <1>2 DEF LPResult, Points, Within
  <1>6. /\ Floor(r.x[j]) \in Int /\ Ceil(r.x[j]) \in Int
        /\ Floor(r.x[j]) < r.x[j] /\ r.x[j] < Ceil(r.x[j])
    BY <1>2, <1>5, FloorCeil
  <1>7. /\ LeftChild(node, r, j).up[j] = Floor(r.x[j])
        /\ RightChild(node, r, j).lo[j] = Ceil(r.x[j])
    BY <1>2 DEF LeftChild, RightChild, Points
  <1>8. node.lo[j] < n.lo[j] \/ n.up[j] < node.up[j]
    BY <1>3, <1>5, <1>6, <1>7
  <1> QED
    BY <1>2, <1>4, <1>8

-----------------------------------------------------------------------------
(* No solution is lost.                                                    *)

\* An LP that a reliable simplex does not solve has no point in its box.
LEMMA Unsolved ==
    ASSUME TypeOK, Reliable, NEW R, NEW b, NEW r \in SolveLP(R, b), r.status # "OPTIMAL"
    PROVE  r.status = "PRIMAL_INFEASIBLE" /\ \A p \in R : ~Within(p, b)
  <1>1. PICK s \in {i \in {"PRIMAL_INFEASIBLE"} : \A p \in R : ~Within(p, b)} :
            r = [NoLP EXCEPT !.status = s]
    BY DEF SolveLP, Reliable
  <1> QED
    BY <1>1 DEF NoLP

\* With a simplex that settles its LPs, a node whose LP is not OPTIMAL has no point of
\* the rows in its box.
LEMMA NodeUnsolved ==
    ASSUME TypeOK, Reliable, NEW r \in NodeLP, r.status # "OPTIMAL"
    PROVE  \A p \in lp.rows : ~Within(p, node)
  <1> DEFINE b == [lo |-> node.lo, up |-> node.up]
  <1>1. r \in SolveLP(lp.rows, b)
    BY DEF NodeLP
  <1>2. \A p : Within(p, b) <=> Within(p, node)
    BY DEF Within
  <1> HIDE DEF b
  <1> QED
    BY <1>1, <1>2, Unsolved

\* What becomes of a solution inside the node being dealt with.
LEMMA NodeDealtWith ==
    ASSUME TypeOK, WorkingModel, Reliable, NEW p \in Feasible(milp), Within(p, node),
           NodeInfeasible \/ NodeDominated \/ NodeIntegral
    PROVE  incumbent' <= milp.cost[p]
  <1> Converges
    BY ReliableConverges
  <1>1. p \in lp.rows /\ milp.cost[p] \in Int /\ incumbent \in Int
    BY Solutions DEF WorkingModel, TypeOK
  <1>2. CASE NodeInfeasible
    BY <1>1, <1>2, NodeUnsolved DEF NodeInfeasible
  <1>3. CASE NodeDominated
    <2>1. PICK r \in NodeLP : r.status = "OPTIMAL" /\ Dominated(r.obj)
      BY <1>3 DEF NodeDominated
    <2>2. r.obj <= milp.cost[p] /\ r.obj \in Int
      BY <1>1, <2>1, NodeLPResult DEF LPResult
    <2> QED
      BY <1>1, <1>3, <2>1, <2>2 DEF Dominated, NodeDominated, found
  <1>4. CASE NodeIntegral
    <2>1. PICK r \in NodeLP : /\ r.status = "OPTIMAL" /\ ~Dominated(r.obj)
                              /\ UpdateIncumbent(r.x, r.obj)
      BY <1>4 DEF NodeIntegral
    <2>2. r.obj <= milp.cost[p] /\ r.obj \in Int
      BY <1>1, <2>1, NodeLPResult DEF LPResult
    <2> QED
      BY <1>1, <2>1, <2>2 DEF UpdateIncumbent, Dominated
  <1> QED
    BY <1>2, <1>3, <1>4

\* No action drops a box that holds a solution better than the incumbent.
LEMMA NoLostSolutionStep ==
    ASSUME TypeOK, WorkingModel, RootSolved, BoundsBelow, NoLostSolution, [Next]_vars
    PROVE  NoLostSolution'
  <1>0. UNCHANGED <<milp, cfg>>
    BY Frame
  <1> SUFFICES ASSUME Reliable, IntegralBox, Searching', NEW p \in Feasible(milp)
               PROVE  incumbent' <= milp.cost[p] \/ \E n \in Open' : Within(p, n)
    BY <1>0 DEF NoLostSolution, Reliable, IntegralBox
  <1> Converges /\ StopsInside
    BY ReliableConverges
  <1>1. /\ p \in milp.rows /\ p \in Points /\ p \in lp.rows /\ Within(p, RootBox)
        /\ milp.cost[p] \in Int /\ incumbent \in Int /\ incumbent' \in Int
        /\ \A j \in milp.int : j \in Vars /\ p[j] \in Int /\ IsIntegral(p[j])
    BY Solutions, NextType DEF WorkingModel, TypeOK
  <1>2. CASE RootBranch
    <2>1. PICK j \in milp.int :
              /\ j \in Vars /\ ~IsIntegral(root.x[j]) /\ Within(root.x, RootBox)
              /\ RootBox.lo \in Points /\ RootBox.up \in Points /\ root \in LPResult
              /\ queue' = {LeftChild(RootBox, root, j), RightChild(RootBox, root, j)}
              /\ Open' = queue'
      BY <1>2, RootSplit
    <2>2. p[j] <= Floor(root.x[j]) \/ Ceil(root.x[j]) <= p[j]
      BY <1>1, <2>1, BetweenFloorAndCeil DEF LPResult, Points
    <2>3. /\ p[j] <= Floor(root.x[j]) => Within(p, LeftChild(RootBox, root, j))
          /\ Ceil(root.x[j]) <= p[j] => Within(p, RightChild(RootBox, root, j))
      BY <1>1, <2>1, Children
    <2> QED
      BY <2>1, <2>2, <2>3
  <1>3. CASE ~RootBranch
    <2>1. Searching
      BY <1>3, PhaseOrder DEF Searching
    <2>2. incumbent' <= incumbent
      BY IncumbentFalls
    <2>3. CASE incumbent <= milp.cost[p]
      BY <1>1, <2>2, <2>3
    <2>4. CASE \E n \in Open : Within(p, n)
      <3>1. PICK n \in Open : Within(p, n)
        BY <2>4
      <3>2. CASE NodeBranch /\ n = node
        <4>1. PICK r \in NodeLP : \E j \in milp.int :
                  /\ j \in Vars /\ ~IsIntegral(r.x[j]) /\ Within(r.x, node)
                  /\ node.lo \in Points /\ node.up \in Points /\ r \in LPResult
                  /\ Open' = queue \cup {LeftChild(node, r, j), RightChild(node, r, j)}
          BY <3>2, NodeSplit
        <4>2. PICK j \in milp.int :
                  /\ j \in Vars /\ ~IsIntegral(r.x[j]) /\ Within(r.x, node)
                  /\ node.lo \in Points /\ node.up \in Points /\ r \in LPResult
                  /\ Open' = queue \cup {LeftChild(node, r, j), RightChild(node, r, j)}
          BY <4>1
        <4>3. p[j] <= Floor(r.x[j]) \/ Ceil(r.x[j]) <= p[j]
          BY <1>1, <4>2, BetweenFloorAndCeil DEF LPResult, Points
        <4>4. /\ p[j] <= Floor(r.x[j]) => Within(p, LeftChild(node, r, j))
              /\ Ceil(r.x[j]) <= p[j] => Within(p, RightChild(node, r, j))
          BY <1>1, <3>1, <3>2, <4>2, Children
        <4> QED
          BY <4>2, <4>3, <4>4
      <3>3. CASE NodeBranch /\ n # node
        <4>1. Open' = queue' /\ queue \subseteq queue' /\ n \in queue
          BY <3>1, <3>3 DEF NodeBranch, Open
        <4> QED
          BY <3>1, <4>1
      <3>4. CASE PruneByBound
        <4>1. PICK m \in Tops(queue) : Dominated(m.bound) /\ queue' = queue \ {m}
          BY <3>4 DEF PruneByBound
        <4>2. Open = queue /\ Open' = queue' /\ incumbent' = incumbent
          BY <3>4 DEF PruneByBound, Open, found
        <4>3. CASE n = m
          <5>1. m.bound <= milp.cost[p] /\ m.bound \in Int
            BY <1>1, <2>1, <3>1, <4>2, <4>3 DEF BoundsBelow, TypeOK, Node
          <5> QED
            BY <1>1, <4>1, <4>2, <5>1 DEF Dominated
        <4>4. CASE n # m
          BY <3>1, <4>1, <4>2, <4>4
        <4> QED
          BY <4>3, <4>4
      <3>5. CASE NodeInfeasible \/ NodeDominated \/ NodeIntegral
        <4>1. CASE n = node
          BY <3>1, <3>5, <4>1, NodeDealtWith
        <4>2. CASE n # node
          <5>1. n \in Open'
            BY <3>1, <3>5, <4>2 DEF NodeInfeasible, NodeDominated, NodeIntegral, Open
          <5> QED
            BY <3>1, <5>1
        <4> QED
          BY <4>1, <4>2
      <3>6. CASE /\ ~NodeBranch /\ ~PruneByBound
                 /\ ~NodeInfeasible /\ ~NodeDominated /\ ~NodeIntegral
        <4>1. Open' = Open
          BY <1>3, <3>6, OpenShrinks
        <4> QED
          BY <3>1, <4>1
      <3> QED
        BY <3>2, <3>3, <3>4, <3>5, <3>6
    <2> QED
      BY <2>1, <2>3, <2>4 DEF NoLostSolution
  <1> QED
    BY <1>2, <1>3

-----------------------------------------------------------------------------
(* Solutions are solutions.                                                *)

\* A point of the rows inside the root box is within the bounds of the model.
LEMMA InsideModel ==
    ASSUME TypeOK, WorkingModel, NEW p \in milp.rows, Within(p, RootBox)
    PROVE  Within(p, [lo |-> milp.lo, up |-> milp.up])
  <1>1. \A j \in Vars : /\ p[j] \in Int /\ milp.lo[j] \in Int /\ milp.up[j] \in Int
                        /\ lp.lo[j] \in Int /\ lp.up[j] \in Int
    BY Arguments DEF WellFormed, Points, TypeOK
  <1> QED
    BY <1>1 DEF WorkingModel, Within, RootBox

\* A point of a box inside the root box is in the root box.
LEMMA InsideRoot ==
    ASSUME TypeOK, NEW b, b.lo \in Points, b.up \in Points, Inside(b),
           NEW p \in Points, Within(p, b)
    PROVE  Within(p, RootBox)
  <1>1. \A j \in Vars : /\ p[j] \in Int /\ b.lo[j] \in Int /\ b.up[j] \in Int
                        /\ lp.lo[j] \in Int /\ lp.up[j] \in Int
    BY DEF Points, TypeOK
  <1> QED
    BY <1>1 DEF Inside, Within, RootBox

\* The rounded point is a solution when its rows hold.
LEMMA RoundedSolution ==
    ASSUME TypeOK, WorkingModel, RootSolved, StopsInside, IntegralBox, pc = "rounding",
           Rounded(root.x) \in lp.rows
    PROVE  Rounded(root.x) \in Feasible(milp)
  <1> DEFINE z == Rounded(root.x)
  <1>1. \A j \in Vars : /\ root.x[j] \in Int /\ lp.lo[j] \in Int /\ lp.up[j] \in Int
                        /\ lp.lo[j] <= root.x[j] /\ root.x[j] <= lp.up[j]
    BY DEF TypeOK, LPResult, Points, RootSolved, Within, RootBox
  <1>2. \A j \in milp.int : j \in Vars /\ IsIntegral(lp.lo[j]) /\ IsIntegral(lp.up[j])
    BY Arguments DEF WellFormed, WorkingModel
  <1>3. \A j \in Vars :
           z[j] = (IF j \in milp.int THEN Clamped(root.x[j], lp.lo[j], lp.up[j]) ELSE root.x[j])
    BY DEF Rounded
  <1>4. \A j \in milp.int : /\ lp.lo[j] <= z[j] /\ z[j] <= lp.up[j] /\ IsIntegral(z[j])
    <2> SUFFICES ASSUME NEW j \in milp.int
                 PROVE  lp.lo[j] <= z[j] /\ z[j] <= lp.up[j] /\ IsIntegral(z[j])
      OBVIOUS
    <2>1. z[j] = Clamped(root.x[j], lp.lo[j], lp.up[j])
      BY <1>2, <1>3
    <2>2. /\ root.x[j] \in Int /\ lp.lo[j] \in Int /\ lp.up[j] \in Int /\ lp.lo[j] <= lp.up[j]
          /\ IsIntegral(lp.lo[j]) /\ IsIntegral(lp.up[j])
      BY <1>1, <1>2
    <2> HIDE DEF z
    <2>3. \A v, lo, up \in Int : lo <= up =>
              /\ lo <= Clamped(v, lo, up) /\ Clamped(v, lo, up) <= up
              /\ IsIntegral(lo) /\ IsIntegral(up) => IsIntegral(Clamped(v, lo, up))
      BY RoundedPoint
    <2>4. /\ lp.lo[j] <= Clamped(root.x[j], lp.lo[j], lp.up[j])
          /\ Clamped(root.x[j], lp.lo[j], lp.up[j]) <= lp.up[j]
          /\ IsIntegral(Clamped(root.x[j], lp.lo[j], lp.up[j]))
      BY <2>2, <2>3
    <2> QED
      BY <2>1, <2>4
  <1>5. z \in milp.rows /\ Fractional(milp, z) = {}
    BY <1>4 DEF TypeOK, Fractional
  <1>6. Within(z, RootBox)
    BY <1>1, <1>3, <1>4 DEF Within, RootBox
  <1> QED
    BY <1>5, <1>6, InsideModel DEF Feasible

\* What ends the solve: four actions report the state the loop left.
Concluding == TreeExhausted \/ NodeLimitReached \/ TimeLimitReached \/ GapReached

\* Where the result comes from.
LEMMA ResultFrom ==
    ASSUME TypeOK, Phases, [Next]_vars
    PROVE  \/ UNCHANGED <<milp, cfg, pc, queue, result>>
           \/ result'.status \notin {"Optimal", "Feasible", "Infeasible", "NodeLimit", "TimeLimit"}
           \/ PureLP
           \/ RootPresolve /\ pc' = "done"
           \/ SolveRoot /\ pc' = "done"
           \/ RootIntegral \/ Concluding
  <1>1. NoResult.status = "NumericalFailure"
    BY DEF NoResult
  <1>2. pc' # "done" => result' = NoResult
    BY PhasesStep DEF Phases
  <1>3. CASE pc' = "done"
    BY <1>3 DEF Next, Concluding, vars, args, SkipPresolve, NoCuts, GomoryCuts,
       SimpleRounding, EndDive, AbandonDive, DiveStep, RootBranch, PruneByBound, Explore,
       NodeInfeasible, NodeDominated, NodeIntegral, NodeBranch
  <1> QED
    BY <1>1, <1>2, <1>3

\* What they return: the verdict on the incumbent and the open nodes.
LEMMA Concluded ==
    ASSUME TypeOK, Concluding
    PROVE  /\ Searching /\ pc # "node" /\ Open = queue /\ UNCHANGED <<milp, cfg, queue, incumbent, incumbent_x>>
           /\ \E b \in CurrentBestBound(queue, best_bound), t \in BOOLEAN :
                 /\ result' = [status |-> Verdict(queue, incumbent, b, t),
                               best_objective |-> incumbent, best_bound |-> b, x |-> incumbent_x]
                 /\ queue = {} \/ t \/ stat.explored >= cfg.max_nodes \/ pc = "gap"
  <1>1. /\ Searching /\ pc # "node" /\ Open = queue
        /\ UNCHANGED <<milp, cfg, queue, incumbent, incumbent_x>>
    BY DEF Concluding, TreeExhausted, NodeLimitReached, TimeLimitReached, GapReached,
           Searching, Open, args, found, tree
  <1>2. \E t \in BOOLEAN :
           /\ Conclude(t)
           /\ queue = {} \/ t \/ stat.explored >= cfg.max_nodes \/ pc = "gap"
    BY DEF Concluding, TreeExhausted, NodeLimitReached, TimeLimitReached, GapReached, Timeouts
  <1>3. PICK t \in BOOLEAN :
            /\ Conclude(t)
            /\ queue = {} \/ t \/ stat.explored >= cfg.max_nodes \/ pc = "gap"
    BY <1>2
  <1> QED
    BY <1>1, <1>3 DEF Conclude, Return

\* Every point that becomes the incumbent, by rounding, diving or a node, is a solution.
LEMMA IncumbentSoundStep ==
    ASSUME TypeOK, WorkingModel, RootSolved, BoxesNested, Phases, IncumbentSound, [Next]_vars
    PROVE  IncumbentSound'
  <1>0. UNCHANGED <<milp, cfg>>
    BY Frame
  <1> SUFFICES ASSUME StopsInside, IntegralBox
               PROVE  /\ incumbent' < Infinity => IsSolution(incumbent_x', incumbent')
                      /\ result'.status \in {"Optimal", "Feasible"} =>
                            IsSolution(result'.x, result'.best_objective)
    BY <1>0, SameSolver DEF IncumbentSound, IntegralBox, IsSolution
  <1>1. incumbent' < Infinity => IsSolution(incumbent_x', incumbent')
    <2>1. CASE SimpleRounding
      BY <2>1, RoundedSolution
      DEF SimpleRounding, UpdateIncumbent, found, IncumbentSound, IsSolution
    <2>2. CASE EndDive
      <3>1. dive.x \in milp.rows /\ Fractional(milp, dive.x) = {}
        BY <1>0, <2>2, SameSolver DEF EndDive, Candidate, TypeOK
      <3>2. Within(dive.x, RootBox)
        BY <2>2, InsideRoot DEF EndDive, BoxesNested, TypeOK
      <3>3. dive.x \in Feasible(milp)
        BY <3>1, <3>2, InsideModel DEF Feasible
      <3> QED
        BY <2>2, <3>3 DEF EndDive, UpdateIncumbent, found, IncumbentSound, IsSolution
    <2>3. CASE NodeIntegral
      <3>1. PICK r \in NodeLP : /\ r.status = "OPTIMAL" /\ Fractional(milp, r.x) = {}
                                /\ UpdateIncumbent(r.x, r.obj)
        BY <2>3 DEF NodeIntegral
      <3>2. /\ r.x \in milp.rows /\ r.x \in Points /\ Within(r.x, node)
            /\ r.obj = milp.cost[r.x]
        BY <3>1, NodeLPResult DEF TypeOK, LPResult
      <3>3. Inside(node) /\ node.lo \in Points /\ node.up \in Points
        BY <2>3 DEF NodeIntegral, BoxesNested, Searching, Open, TypeOK, Node
      <3>4. r.x \in Feasible(milp)
        BY <3>1, <3>2, <3>3, InsideRoot, InsideModel DEF Feasible
      <3> QED
        BY <3>1, <3>2, <3>4 DEF UpdateIncumbent, found, IncumbentSound, IsSolution
    <2> QED
      BY <2>1, <2>2, <2>3, Frame DEF IncumbentSound, IsSolution
  <1>2. result'.status \in {"Optimal", "Feasible"} => IsSolution(result'.x, result'.best_objective)
    <2>1. CASE PureLP
      <3>1. PICK r \in SolveLP(lp.rows, RootBox) :
                result' = [status |-> MapStatus(r.status), best_objective |-> r.obj,
                           best_bound |-> r.obj, x |-> r.x]
        BY <2>1 DEF PureLP, Return, RootBox
      <3>2. r.status = "OPTIMAL" => /\ r.x \in milp.rows /\ Within(r.x, RootBox)
                                    /\ r.obj = milp.cost[r.x]
        BY <3>1, SolveLPResult DEF TypeOK
      <3>3. Fractional(milp, r.x) = {}
        BY <2>1 DEF PureLP, Fractional
      <3> QED
        BY <3>1, <3>2, <3>3, MapStatusVerdict, InsideModel DEF IsSolution, Feasible
    <2>2. CASE RootPresolve /\ pc' = "done"
      BY <2>2 DEF RootPresolve, Return, NoResult
    <2>3. CASE SolveRoot /\ pc' = "done"
      <3>1. PICK r \in SolveLP(lp.rows, RootBox) :
                r.status # "OPTIMAL" /\ result' = [NoResult EXCEPT !.status = MapStatus(r.status)]
        BY <2>3 DEF SolveRoot, Return
      <3> QED
        BY <3>1, MapStatusVerdict DEF NoResult
    <2>4. CASE RootIntegral
      <3>1. /\ root.x \in milp.rows /\ Within(root.x, RootBox) /\ root.obj = milp.cost[root.x]
            /\ Fractional(milp, root.x) = {}
        BY <1>0, <2>4, SameSolver DEF RootIntegral, RootSolved, TypeOK
      <3> QED
        BY <2>4, <3>1, InsideModel DEF RootIntegral, Return, IsSolution, Feasible
    <2>5. CASE Concluding
      BY <2>5, Concluded DEF IncumbentSound, Verdict
    <2> QED
      BY <2>1, <2>2, <2>3, <2>4, <2>5, ResultFrom DEF IncumbentSound, IsSolution
  <1> QED
    BY <1>1, <1>2

-----------------------------------------------------------------------------
(* What the verdicts mean.                                                 *)

\* Under the best-bound order the bound on top of the heap is the least one, so
\* it is below every solution the incumbent does not match already.
LEMMA BoundOnTop ==
    ASSUME TypeOK, BoundsBelow, NoLostSolution, WorkingModel, Reliable, IntegralBox,
           Searching, Open = queue, cfg.node_selection = "BestBound",
           NEW b \in CurrentBestBound(queue, best_bound), NEW p \in Feasible(milp)
    PROVE  b \in Int /\ (incumbent <= milp.cost[p] \/ b <= milp.cost[p])
  <1> Converges
    BY ReliableConverges
  <1>1. /\ p \in lp.rows /\ milp.cost[p] \in Int /\ incumbent \in Int
        /\ \A n \in queue : n.bound \in Int
    BY Solutions DEF WorkingModel, TypeOK, Node
  <1>2. CASE queue = {}
    BY <1>1, <1>2 DEF NoLostSolution, CurrentBestBound
  <1>3. CASE queue # {}
    <2>1. PICK m \in Tops(queue) : b = m.bound
      BY <1>3 DEF CurrentBestBound
    <2>2. m \in queue /\ \A n \in queue : m.bound <= n.bound
      BY <1>1, <2>1 DEF Tops, Before
    <2>3. ASSUME NEW n \in Open, Within(p, n)
          PROVE  b <= milp.cost[p]
      <3>1. n.bound <= milp.cost[p] /\ n \in queue
        BY <1>1, <2>3 DEF BoundsBelow
      <3> QED
        BY <1>1, <2>1, <2>2, <3>1
    <2> QED
      BY <1>1, <2>1, <2>2, <2>3 DEF NoLostSolution
  <1> QED
    BY <1>2, <1>3

\* A gap closed against a bound below v is closed against v.
LEMMA GapBelow ==
    ASSUME TypeOK, NEW inc \in Int, NEW b \in Int, NEW v \in Int, b <= v, GapClosed(inc, b)
    PROVE  (inc - v) * cfg.gap.den <= cfg.gap.num * Greater(Den, Abs(inc))
  <1> DEFINE d == cfg.gap.den
             e == cfg.gap.num * Greater(Den, Abs(inc))
  <1>1. d \in Nat \ {0} /\ cfg.gap.num \in Nat /\ Greater(Den, Abs(inc)) \in Int
    BY Arguments, SizesAssumption DEF Config, Greater, Abs
  <1>2. e \in Int /\ Abs(inc - b) \in Int /\ inc - v <= Abs(inc - b)
    BY <1>1 DEF Abs
  <1>3. Abs(inc - b) * d <= e
    BY DEF GapClosed
  <1> HIDE DEF d, e
  <1>4. (inc - v) * d <= Abs(inc - b) * d
    <2>1. ASSUME NEW x \in Int, NEW y \in Int, x <= y PROVE x * d <= y * d
      BY <1>1, <2>1
    <2> QED
      BY <1>2, <2>1
  <1>5. (inc - v) * d \in Int /\ Abs(inc - b) * d \in Int
    BY <1>1, <1>2
  <1>6. (inc - v) * d <= e
    BY <1>2, <1>3, <1>4, <1>5
  <1> QED
    BY <1>6 DEF d, e

\* What the root LP says of the solutions.
LEMMA RootOptimal ==
    ASSUME TypeOK, WorkingModel, Converges,
           NEW r \in SolveLP(lp.rows, RootBox), r.status = "OPTIMAL",
           NEW p \in Feasible(milp)
    PROVE  r.obj <= milp.cost[p]
  BY SolveLPResult DEF WorkingModel, TypeOK

\* An integral root solution is an optimum of the model.
LEMMA RootIntegralOptimal ==
    ASSUME TypeOK, WorkingModel, RootSolved, Converges, RootIntegral, NEW p \in Feasible(milp)
    PROVE  root.obj <= milp.cost[p]
  BY DEF WorkingModel, RootSolved, RootIntegral

VerdictsHold == /\ OptimalMeansOptimal /\ ExhaustedMeansOptimal
                /\ InfeasibleMeansInfeasible /\ ReportedBoundHolds

\* Each way solve() ends returns a status that its meaning holds for.
LEMMA VerdictsHoldStep ==
    ASSUME TypeOK, WorkingModel, RootSolved, Phases, BoundsBelow, NoLostSolution,
           VerdictsHold, [Next]_vars
    PROVE  VerdictsHold'
  <1>0. UNCHANGED <<milp, cfg>>
    BY Frame
  <1> SUFFICES ASSUME Reliable, IntegralBox PROVE VerdictsHold'
    BY <1>0 DEF VerdictsHold, OptimalMeansOptimal, ExhaustedMeansOptimal,
                InfeasibleMeansInfeasible, ReportedBoundHolds, Reliable, IntegralBox
  <1> Converges
    BY ReliableConverges
  <1> DEFINE Good(s, obj, bd, q, p) ==
                 /\ cfg.node_selection = "BestBound" /\ s = "Optimal" =>
                       \/ obj <= milp.cost[p]
                       \/ (obj - milp.cost[p]) * cfg.gap.den <= cfg.gap.num * Greater(Den, Abs(obj))
                 /\ s = "Optimal" /\ q = {} => obj <= milp.cost[p]
                 /\ s # "Infeasible"
                 /\ cfg.node_selection = "BestBound" /\ s \in {"Feasible", "NodeLimit", "TimeLimit"}
                       => Lesser(obj, bd) <= milp.cost[p]
  <1>g. SUFFICES ASSUME NEW p \in Feasible(milp)
                 PROVE  Good(result'.status, result'.best_objective, result'.best_bound, queue', p)
    BY <1>0 DEF VerdictsHold, OptimalMeansOptimal, ExhaustedMeansOptimal,
                InfeasibleMeansInfeasible, ReportedBoundHolds
  <1>p. /\ p \in lp.rows /\ p \in Points /\ Within(p, RootBox) /\ milp.cost[p] \in Int
        /\ milp.cost[p] < Infinity /\ incumbent \in Int /\ Infinity \in Int
    BY Solutions, SizesAssumption DEF WorkingModel, TypeOK
  <1>1. CASE PureLP
    <2>1. PICK r \in SolveLP(lp.rows, RootBox) :
              result' = [status |-> MapStatus(r.status), best_objective |-> r.obj,
                         best_bound |-> r.obj, x |-> r.x]
      BY <1>1 DEF PureLP, Return, RootBox
    <2>2. r.status = "OPTIMAL"
      BY <1>p, Unsolved
    <2>3. r.obj <= milp.cost[p]
      BY <2>2, RootOptimal
    <2> QED
      BY <2>1, <2>2, <2>3 DEF MapStatus
  <1>2. CASE RootPresolve /\ pc' = "done"
    <2>1. PICK j \in Vars : TightLower(j) > TightUpper(j)
      BY <1>2 DEF RootPresolve
    <2>2. /\ TightLower(j) \in Int /\ TightUpper(j) \in Int /\ p[j] \in Int
          /\ TightLower(j) <= p[j] /\ p[j] <= TightUpper(j)
      BY <1>p, Tightened DEF Points
    <2> QED
      BY <2>1, <2>2
  <1>3. CASE SolveRoot /\ pc' = "done"
    <2>1. PICK r \in SolveLP(lp.rows, RootBox) : r.status # "OPTIMAL"
      BY <1>3 DEF SolveRoot
    <2> QED
      BY <1>p, <2>1, Unsolved
  <1>4. CASE RootIntegral
    <2>1. root.obj <= milp.cost[p]
      BY <1>4, RootIntegralOptimal
    <2> QED
      BY <1>4, <2>1 DEF RootIntegral, Return
  <1>5. CASE Concluding
    <2>1. /\ Searching /\ pc # "node" /\ Open = queue /\ UNCHANGED <<queue, incumbent>>
      BY <1>5, Concluded
    <2>2. PICK b \in CurrentBestBound(queue, best_bound) : \E t \in BOOLEAN :
              /\ result' = [status |-> Verdict(queue, incumbent, b, t),
                            best_objective |-> incumbent, best_bound |-> b, x |-> incumbent_x]
              /\ queue = {} \/ t \/ stat.explored >= cfg.max_nodes \/ pc = "gap"
      BY <1>5, Concluded
    <2>3. PICK t \in BOOLEAN :
              /\ result' = [status |-> Verdict(queue, incumbent, b, t),
                            best_objective |-> incumbent, best_bound |-> b, x |-> incumbent_x]
              /\ queue = {} \/ t \/ stat.explored >= cfg.max_nodes \/ pc = "gap"
      BY <2>2
    <2>4. queue = {} => incumbent <= milp.cost[p]
      BY <2>1 DEF NoLostSolution
    <2>5. b \in Int
      BY CurrentBestBoundType
    <2>6. cfg.node_selection = "BestBound" => incumbent <= milp.cost[p] \/ b <= milp.cost[p]
      BY <2>1, BoundOnTop
    <2>7. /\ result'.status = Verdict(queue, incumbent, b, t)
          /\ result'.best_objective = incumbent /\ result'.best_bound = b
      BY <2>3
    <2>8. result'.status # "Infeasible"
      <3>1. SUFFICES ASSUME Verdict(queue, incumbent, b, t) = "Infeasible" PROVE FALSE
        BY <2>7
      <3>2. ~(incumbent < Infinity) /\ ~t /\ ~(stat.explored >= cfg.max_nodes)
        BY <3>1 DEF Verdict
      <3>3. queue = {}
        BY <2>3, <3>2 DEF Phases
      <3> QED
        BY <1>p, <2>4, <3>2, <3>3
    <2>9. result'.status = "Optimal" => queue = {} \/ GapClosed(incumbent, b)
      BY <2>7 DEF Verdict
    <2>10. cfg.node_selection = "BestBound" => Lesser(incumbent, b) <= milp.cost[p]
      BY <1>p, <2>5, <2>6 DEF Lesser
    <2>11. cfg.node_selection = "BestBound" /\ result'.status = "Optimal" =>
              \/ incumbent <= milp.cost[p]
              \/ (incumbent - milp.cost[p]) * cfg.gap.den <= cfg.gap.num * Greater(Den, Abs(incumbent))
      BY <1>p, <2>4, <2>5, <2>6, <2>9, GapBelow
    <2> QED
      BY <2>1, <2>4, <2>7, <2>8, <2>10, <2>11
  <1>6. CASE UNCHANGED <<milp, cfg, pc, queue, result>>
    BY <1>6 DEF VerdictsHold, OptimalMeansOptimal, ExhaustedMeansOptimal,
                InfeasibleMeansInfeasible, ReportedBoundHolds
  <1>7. CASE result'.status \notin {"Optimal", "Feasible", "Infeasible", "NodeLimit", "TimeLimit"}
    BY <1>7
  <1> QED
    BY <1>1, <1>2, <1>3, <1>4, <1>5, <1>6, <1>7, ResultFrom

-----------------------------------------------------------------------------
(* The theorems.                                                           *)

\* The inductive invariant holds when solve() starts.
LEMMA InitInductive == Init => Inductive
  <1> SUFFICES ASSUME Init PROVE Inductive
    OBVIOUS
  <1>1. TypeOK
    BY InitType
  <1>2. WorkingModel
    BY <1>1, Arguments DEF Init, WorkingModel, Feasible, RootBox, Within, WellFormed, Points
  <1>3. RootSolved /\ BoxesNested
    BY DEF Init, RootSolved, BoxesNested, Searching
  <1>4. Phases
    BY SizesAssumption DEF Init, Phases, Searching
  <1>5. IncumbentSound
    BY SizesAssumption DEF Init, IncumbentSound, NoResult
  <1>6. NoLostSolution /\ BoundsBelow /\ OpenDisjoint
    BY DEF Init, NoLostSolution, BoundsBelow, OpenDisjoint, Searching
  <1>7. VerdictsHold
    BY DEF Init, VerdictsHold, OptimalMeansOptimal, ExhaustedMeansOptimal,
           InfeasibleMeansInfeasible, ReportedBoundHolds, NoResult
  <1>8. OpenWhole /\ OpenNumbered /\ NodeConservation
    BY DEF Init, OpenWhole, OpenNumbered, NodeConservation, Searching
  <1> QED
    BY <1>1, <1>2, <1>3, <1>4, <1>5, <1>6, <1>7, <1>8 DEF Inductive, VerdictsHold

\* Every section of solve() keeps the inductive invariant, part by part.
LEMMA NextInductive == Inductive /\ [Next]_vars => Inductive'
  <1> SUFFICES ASSUME Inductive, [Next]_vars PROVE Inductive'
    OBVIOUS
  <1>1. /\ TypeOK /\ WorkingModel /\ RootSolved /\ BoxesNested /\ Phases
        /\ OpenWhole /\ OpenNumbered /\ NodeConservation
        /\ IncumbentSound /\ NoLostSolution /\ BoundsBelow /\ OpenDisjoint /\ VerdictsHold
    BY DEF Inductive, VerdictsHold
  <1>2. TypeOK' /\ WorkingModel' /\ RootSolved' /\ BoxesNested' /\ Phases'
    BY <1>1, NextType, WorkingModelStep, RootSolvedStep, BoxesNestedStep, PhasesStep
  <1>3. IncumbentSound' /\ NoLostSolution' /\ BoundsBelow' /\ OpenDisjoint'
    BY <1>1, IncumbentSoundStep, NoLostSolutionStep, BoundsBelowStep, OpenDisjointStep
  <1>4. VerdictsHold'
    BY <1>1, VerdictsHoldStep
  <1>5. OpenWhole' /\ OpenNumbered' /\ NodeConservation'
    BY <1>1, OpenWholeStep, NodeConservationStep
  <1> QED
    BY <1>2, <1>3, <1>4, <1>5 DEF Inductive, VerdictsHold

\* The inductive invariant holds of every behaviour.
THEOREM Invariance == Spec => []Inductive
  BY InitInductive, NextInductive, PTL DEF Spec

\* Every solution the search keeps or returns is one, at the value it says.
THEOREM SolutionsSound == Spec => []IncumbentSound
  <1>1. Inductive => IncumbentSound
    BY DEF Inductive
  <1> QED
    BY <1>1, Invariance, PTL

\* No solution better than the incumbent is outside the open nodes.
THEOREM NothingLost == Spec => []NoLostSolution
  <1>1. Inductive => NoLostSolution
    BY DEF Inductive
  <1> QED
    BY <1>1, Invariance, PTL

\* The bound of an open node is below every point left in its box.
THEOREM BoundsAreBelow == Spec => []BoundsBelow
  <1>1. Inductive => BoundsBelow
    BY DEF Inductive
  <1> QED
    BY <1>1, Invariance, PTL

\* No point is left in two open nodes.
THEOREM NothingTwice == Spec => []OpenDisjoint
  <1>1. Inductive => OpenDisjoint
    BY DEF Inductive
  <1> QED
    BY <1>1, Invariance, PTL

\* No column of a box the simplex is given, in the tree or in a dive, is crossed.
THEOREM BoxesUncrossed == Spec => []NoCrossedBounds
  <1>1. Inductive => NoCrossedBounds
    BY WholeUncrossed DEF Inductive
  <1> QED
    BY <1>1, Invariance, PTL

\* The node counters of the result account for every node created.
THEOREM NodesAccountedFor == Spec => []NodeConservation
  <1>1. Inductive => NodeConservation
    BY DEF Inductive
  <1> QED
    BY <1>1, Invariance, PTL

\* Branching always makes progress: the new boxes are strictly smaller.
THEOREM BranchingShrinks == Spec => SplitsShrink
  <1>1. Inductive /\ [Next]_vars =>
           [pc = "node" /\ StopsInside => \A n \in queue' \ queue :
               /\ \A j \in Vars : node.lo[j] <= n.lo[j] /\ n.up[j] <= node.up[j]
               /\ \E j \in Vars : node.lo[j] < n.lo[j] \/ n.up[j] < node.up[j]]_vars
    BY SplitShrinksStep DEF Inductive
  <1> QED
    BY <1>1, Invariance, PTL DEF Spec, SplitsShrink

\* A reported "Optimal" is within the gap of every solution under the best-bound
\* order, and exact under any order that left no open node.
THEOREM OptimalCorrect == Spec => [](OptimalMeansOptimal /\ ExhaustedMeansOptimal)
  <1>1. Inductive => OptimalMeansOptimal /\ ExhaustedMeansOptimal
    BY DEF Inductive
  <1> QED
    BY <1>1, Invariance, PTL

\* "Infeasible" is only said of a model without solutions.
THEOREM InfeasibleCorrect == Spec => []InfeasibleMeansInfeasible
  <1>1. Inductive => InfeasibleMeansInfeasible
    BY DEF Inductive
  <1> QED
    BY <1>1, Invariance, PTL

\* The bound returned with a limit's verdict is below every solution.
THEOREM BoundCorrect == Spec => []ReportedBoundHolds
  <1>1. Inductive => ReportedBoundHolds
    BY DEF Inductive
  <1> QED
    BY <1>1, Invariance, PTL

-----------------------------------------------------------------------------
(* The refinement: an action of solve() either leaves the best value known *)
(* alone, or improves it, or answers.                                      *)

\* Where the contract is promised: the simplex settles its LPs, no integer column
\* starts at a fractional bound, and "Optimal" is said under the best-bound order
\* or of an exhausted tree.
Promised ==
    /\ Reliable /\ IntegralBox
    /\ cfg.node_selection = "BestBound" \/ (result.status = "Optimal" => queue = {})

\* What the contract's variables stand for.
Values == {milp.cost[p] : p \in Feasible(milp)}
Best == IF result.status \in {"Optimal", "Feasible"} THEN result.best_objective ELSE incumbent
Answered == IF pc = "done" THEN result.status ELSE "none"

\* A reliable simplex is OPTIMAL or finds the LP infeasible.
LEMMA Settled ==
    ASSUME TypeOK, Reliable, NEW R, NEW b, NEW r \in SolveLP(R, b)
    PROVE  MapStatus(r.status) \in {"Optimal", "Infeasible"}
  <1>1. r.status = "OPTIMAL" \/ r.status = "PRIMAL_INFEASIBLE"
    BY Unsolved
  <1> QED
    BY <1>1 DEF MapStatus

\* Which actions end the solve.
LEMMA Endings ==
    ASSUME [Next]_vars, pc' = "done", pc # "done"
    PROVE  PureLP \/ RootPresolve \/ SolveRoot \/ RootIntegral \/ Concluding
  BY DEF Next, vars, Concluding, SkipPresolve, NoCuts, GomoryCuts, SimpleRounding,
         EndDive, AbandonDive, DiveStep, RootBranch, PruneByBound, Explore, NodeInfeasible,
         NodeDominated, NodeIntegral, NodeBranch

\* The answer is no worse than the incumbent, a limit's verdict comes without one,
\* and a reliable simplex never makes solve() give up.
LEMMA Ending ==
    ASSUME Inductive, Promised, [Next]_vars, pc' = "done", pc # "done"
    PROVE  /\ UNCHANGED incumbent
           /\ result'.status \in {"Optimal", "Feasible"} => result'.best_objective <= incumbent
           /\ result'.status \in {"TimeLimit", "NodeLimit"} => incumbent = Infinity
           /\ result'.status # "NumericalFailure"
  <1>1. /\ TypeOK /\ WorkingModel /\ RootSolved /\ Phases /\ IncumbentSound
        /\ Reliable /\ IntegralBox /\ incumbent \in Int /\ Infinity \in Int
        /\ Converges /\ StopsInside /\ Reached = milp.rows
    BY SizesAssumption, ReliableConverges DEF Inductive, Promised, TypeOK
  <1>2. CASE PureLP
    <2>1. PICK r \in SolveLP(lp.rows, RootBox) :
              result' = [status |-> MapStatus(r.status), best_objective |-> r.obj,
                         best_bound |-> r.obj, x |-> r.x]
      BY <1>2 DEF PureLP, Return, RootBox
    <2>2. result'.status \in {"Optimal", "Infeasible"}
      BY <1>1, <2>1, Settled
    <2>3. r.status = "OPTIMAL" => r.x \in milp.rows /\ r.obj = milp.cost[r.x]
      BY <1>1, <2>1, SolveLPResult DEF TypeOK
    <2>4. r.status = "OPTIMAL" => r.obj < Infinity /\ r.obj \in Int
      BY <1>1, <2>3, Arguments DEF WellFormed
    <2>5. result'.status = "Optimal" => r.status = "OPTIMAL"
      BY <2>1, MapStatusVerdict
    <2>6. UNCHANGED incumbent /\ incumbent = Infinity
      BY <1>1, <1>2 DEF PureLP, found, Phases
    <2> QED
      BY <1>1, <2>1, <2>2, <2>4, <2>5, <2>6
  <1>3. CASE RootPresolve
    BY <1>3 DEF RootPresolve, Return, NoResult, found
  <1>4. CASE SolveRoot
    <2>1. PICK r \in SolveLP(lp.rows, RootBox) :
              /\ r.status # "OPTIMAL"
              /\ result' = [NoResult EXCEPT !.status = MapStatus(r.status)]
      BY <1>4 DEF SolveRoot, Return
    <2>2. result'.status = "Infeasible"
      <3>1. r.status = "PRIMAL_INFEASIBLE"
        BY <1>1, <2>1, Unsolved
      <3> QED
        BY <2>1, <3>1 DEF MapStatus, NoResult
    <2> QED
      BY <1>4, <2>2 DEF SolveRoot, found
  <1>5. CASE RootIntegral
    <2>1. /\ result'.status = "Optimal" /\ result'.best_objective = root.obj
          /\ UNCHANGED incumbent
      BY <1>5 DEF RootIntegral, Return, found
    <2>2. incumbent < Infinity => root.obj <= incumbent
      BY <1>1, <1>5, RootIntegralOptimal DEF IncumbentSound, IsSolution
    <2>3. root.obj \in Int /\ root.obj < Infinity
      BY <1>1, <1>5, Arguments DEF RootIntegral, RootSolved, TypeOK, WellFormed, LPResult
    <2>4. incumbent < Infinity \/ incumbent = Infinity
      BY <1>1 DEF Phases
    <2> QED
      BY <1>1, <2>1, <2>2, <2>3, <2>4
  <1>6. CASE Concluding
    <2>1. UNCHANGED incumbent
      BY <1>1, <1>6, Concluded
    <2>2. PICK b \in CurrentBestBound(queue, best_bound), t \in BOOLEAN :
              result' = [status |-> Verdict(queue, incumbent, b, t),
                         best_objective |-> incumbent, best_bound |-> b, x |-> incumbent_x]
      BY <1>1, <1>6, Concluded
    <2>3. /\ incumbent < Infinity =>
                Verdict(queue, incumbent, b, t) \in {"Optimal", "Feasible"}
          /\ ~(incumbent < Infinity) =>
                Verdict(queue, incumbent, b, t) \in {"TimeLimit", "NodeLimit", "Infeasible"}
      BY DEF Verdict
    <2>4. incumbent < Infinity \/ incumbent = Infinity
      BY <1>1 DEF Phases
    <2> QED
      BY <1>1, <2>1, <2>2, <2>3, <2>4
  <1> QED
    BY <1>2, <1>3, <1>4, <1>5, <1>6, Endings

\* A step that does not end the solve leaves the best value alone or improves it.
LEMMA SearchStep ==
    ASSUME Inductive, Inductive', Promised, [Next]_vars, pc' # "done"
    PROVE  /\ Answered = "none" /\ Answered' = "none"
           /\ UNCHANGED <<Values, cfg>>
           /\ \/ Best' = Best
              \/ Best' \in Values /\ Best' < Best
  <1>1. UNCHANGED <<milp, cfg>> /\ pc # "done"
    BY Frame DEF vars
  <1>2. UNCHANGED Values
    BY <1>1 DEF Values, Feasible, Fractional, Within
  <1>3. result = NoResult /\ result' = NoResult
    BY <1>1 DEF Inductive, Phases
  <1>4. Best = incumbent /\ Best' = incumbent'
    BY <1>3 DEF Best, NoResult
  <1>5. /\ incumbent \in Int /\ incumbent' \in Int /\ Infinity \in Int
        /\ incumbent' <= incumbent /\ incumbent <= Infinity
    BY IncumbentFalls, SizesAssumption DEF Inductive, TypeOK, Phases
  <1>6. incumbent' < Infinity => incumbent' \in Values
    <2>1. StopsInside' /\ IntegralBox'
      BY <1>1, SameSolver, ReliableConverges DEF Promised, IntegralBox
    <2> QED
      BY <1>1, <1>2, <2>1 DEF Inductive, IncumbentSound, IsSolution, Values
  <1> QED
    BY <1>1, <1>2, <1>4, <1>5, <1>6 DEF Answered

\* A step that ends it answers what the contract allows.
LEMMA AnswerStep ==
    ASSUME Inductive, Inductive', Promised, Promised', [Next]_vars,
           pc' = "done", pc # "done"
    PROVE  /\ Answered = "none"
           /\ UNCHANGED <<Values, cfg>>
           /\ Best' \in Values \cup {Best} /\ Best' <= Best
           /\ \/ Answered' = "Optimal" /\ Best' \in Values /\ \A v \in Values : Contract!Close(Best', v)
              \/ Answered' = "Feasible" /\ Best' \in Values
              \/ Answered' = "Infeasible" /\ Values = {}
              \/ Answered' \in {"TimeLimit", "NodeLimit"} /\ Best' = Infinity
  <1>1. UNCHANGED <<milp, cfg>>
    BY Frame
  <1>2. UNCHANGED Values
    BY <1>1 DEF Values, Feasible, Fractional, Within
  <1>3. Best = incumbent /\ incumbent \in Int /\ incumbent' = incumbent
    BY Ending DEF Best, NoResult, Inductive, Phases, TypeOK
  <1>4. Answered = "none" /\ Answered' = result'.status /\ result'.status \in Verdicts
    BY DEF Answered, Inductive, TypeOK
  <1>5. result'.status \in {"Optimal", "Feasible"} =>
           Best' \in Values /\ Best' = result'.best_objective /\ Best' <= Best
    <2>1. result'.status \in {"Optimal", "Feasible"} => result'.best_objective \in Values
      <3>1. StopsInside' /\ IntegralBox'
        BY <1>1, SameSolver, ReliableConverges DEF Promised, IntegralBox
      <3> QED
        BY <1>1, <1>2, <3>1 DEF Inductive, IncumbentSound, IsSolution, Values
    <2> QED
      BY <1>3, <2>1, Ending DEF Best
  <1>6. result'.status \notin {"Optimal", "Feasible"} => Best' = Best
    BY <1>3 DEF Best
  <1>7. result'.status = "Optimal" => \A v \in Values : Contract!Close(Best', v)
    <2>1. SUFFICES ASSUME result'.status = "Optimal", NEW p \in Feasible(milp)
                   PROVE  Contract!Close(result'.best_objective, milp.cost[p])
      BY <1>5 DEF Values
    <2>2. \/ result'.best_objective <= milp.cost[p]
          \/ (result'.best_objective - milp.cost[p]) * cfg.gap.den
                <= cfg.gap.num * Greater(Den, Abs(result'.best_objective))
      BY <1>1, <2>1
      DEF Inductive, Promised, Reliable, IntegralBox, OptimalMeansOptimal, ExhaustedMeansOptimal
    <2>3. result'.best_objective \in Int /\ Den \in Int
      BY SizesAssumption DEF Inductive, TypeOK
    <2> DEFINE b == result'.best_objective
               size == IF b < 0 THEN -b ELSE b
    <2>4. Greater(Den, Abs(b)) = (IF size < Den THEN Den ELSE size)
      BY <2>3 DEF Greater, Abs
    <2> QED
      BY <2>2, <2>4 DEF Contract!Close
  <1>8. result'.status = "Infeasible" => Values = {}
    BY <1>1 DEF Inductive, Promised, Reliable, IntegralBox, InfeasibleMeansInfeasible, Values
  <1>9. /\ result'.status \in {"TimeLimit", "NodeLimit"} => Best = Infinity
        /\ result'.status # "NumericalFailure"
    BY <1>3, Ending
  <1> QED
    BY <1>1, <1>2, <1>3, <1>4, <1>5, <1>6, <1>7, <1>8, <1>9 DEF Verdicts

\* The initial state of solve() is one of the contract.
LEMMA ContractInit == Init => Contract!Init
  BY DEF Init, Contract!Init, NoResult

\* Every step of solve() is a step of the contract or leaves its variables alone.
LEMMA ContractNext ==
    Inductive /\ Inductive' /\ Promised /\ Promised' /\ [Next]_vars
        => [Contract!Next]_(Contract!vars)
  <1> SUFFICES ASSUME Inductive, Inductive', Promised, Promised', [Next]_vars
               PROVE  [Contract!Next]_(Contract!vars)
    OBVIOUS
  <1>1. CASE pc' # "done"
    <2>1. CASE Best' = Best
      BY <1>1, <2>1, SearchStep DEF Contract!vars, Values, Best, Answered
    <2>2. CASE Best' \in Values /\ Best' < Best
      BY <1>1, <2>2, SearchStep DEF Contract!Next, Contract!Improve, Values, Best, Answered
    <2> QED
      BY <1>1, <2>1, <2>2, SearchStep
  <1>2. CASE pc' = "done" /\ pc # "done"
    BY <1>2, AnswerStep DEF Contract!Next, Contract!Answer, Values, Best, Answered
  <1>3. CASE pc = "done"
    <2>1. UNCHANGED vars
      BY <1>3, Frame
    <2> QED
      BY <2>1 DEF vars, Contract!vars, Feasible, Fractional, Within
  <1> QED
    BY <1>1, <1>2, <1>3

\* solve() implements the contract of MILPResult, whatever the model, the limits, the
\* cuts and the heuristics, wherever that contract is promised.
THEOREM Refinement == Spec /\ []Promised => MeetsContract
  BY Invariance, ContractInit, ContractNext, PTL DEF Spec, MeetsContract, Contract!Spec

\* In particular whenever it is called with the default order, for every limit, gap,
\* branching rule, cut and heuristic setting.
THEOREM BestBoundRefinement ==
    Spec /\ Reliable /\ IntegralBox /\ cfg.node_selection = "BestBound" => MeetsContract
  <1> DEFINE Called == Reliable /\ IntegralBox /\ cfg.node_selection = "BestBound"
  <1>1. Called /\ [Next]_vars => Called'
    BY Frame DEF Reliable, IntegralBox
  <1>2. Called => Promised
    BY DEF Promised
  <1> HIDE DEF Called
  <1>3. Spec /\ Called => MeetsContract
    BY <1>1, <1>2, Refinement, PTL DEF Spec
  <1> QED
    BY <1>3 DEF Called

=============================================================================
