------------------------------ MODULE MCPresolve ------------------------------
(***************************************************************************)
(* Small models for Presolve: two rows, three columns, coefficients -1, 0  *)
(* and 1 (2 and -2 in a family of their own, where the row's numbers are   *)
(* even and divide), every mix of fixed, boxed, half-bounded and free      *)
(* columns and of equality, one-sided and ranged rows.  Costs are even, so *)
(* that dual values are integers.                                          *)
(***************************************************************************)
EXTENDS Presolve

MCInfinity == 2000
MCThreshold == 1000
Inf == MCInfinity

Matrices ==
    {<<<<1, 1, 0>>, <<0, 1, -1>>>>, <<<<1, -1, 1>>, <<0, 0, -1>>>>,
     <<<<1, 1, 1>>, <<1, -1, 0>>>>, <<<<-1, 0, 0>>, <<1, 1, 0>>>>,
     <<<<0, 0, 0>>, <<1, 1, -1>>>>, <<<<-1, 1, 0>>, <<1, -1, 0>>>>}

Box == <<0, 1>>
Half == <<0, Inf>>
Free == <<-Inf, Inf>>
Fixed == <<1, 1>>
Below == <<-Inf, 2>>

ColumnBounds == {<<Box, Box, Box>>, <<Half, Box, Fixed>>, <<Free, Half, Box>>, <<Half, Below, Free>>,
                 <<Box, Fixed, Half>>, <<Free, Free, Fixed>>, <<Fixed, Box, Below>>}
RowBounds == {<<<<1, 1>>, <<-Inf, 1>>>>, <<<<0, 2>>, <<1, Inf>>>>, <<<<-Inf, 0>>, <<0, 0>>>>,
              <<<<2, Inf>>, <<1, 1>>>>, <<<<-1, 1>>, <<-1, Inf>>>>}
Costs == {<<2, 2, -2>>, <<-2, 0, 4>>}

Assemble(a, cb, rb, c) ==
    [a |-> a, c |-> c, offset |-> 3,
     lo |-> [j \in Cols |-> cb[j][1]], up |-> [j \in Cols |-> cb[j][2]],
     rlo |-> [i \in Rows |-> rb[i][1]], rup |-> [i \in Rows |-> rb[i][2]]]

DoubledMatrices == {<<<<-2, 0, 0>>, <<1, 1, -1>>>>, <<<<2, -2, 2>>, <<0, 1, -1>>>>}
EvenRowBounds == {<<<<-2, 2>>, <<-Inf, 1>>>>, <<<<2, 2>>, <<0, Inf>>>>, <<<<-Inf, -2>>, <<-1, 1>>>>}

MCModels ==
    {Assemble(a, cb, rb, c) : a \in Matrices, cb \in ColumnBounds, rb \in RowBounds, c \in Costs}
    \cup {Assemble(a, cb, rb, <<2, -2, 2>>) : a \in DoubledMatrices, cb \in ColumnBounds, rb \in EvenRowBounds}

AllPasses == {[max_passes |-> k, enabled |-> Passes] : k \in {1, 20}}

\* One model for each claim of the sources' comments that does not hold.
FixedAway == {Assemble(<<<<1, 1, 1>>, <<0, 0, 0>>>>, <<Fixed, Fixed, Fixed>>, <<<<5, 5>>, <<0, 0>>>>, <<1, 1, 1>>)}
UnboundedBelow == {Assemble(<<<<1, 0, 0>>, <<1, 1, 1>>>>, <<Free, Box, Box>>, <<<<-Inf, 1>>, <<-Inf, 2>>>>, <<1, 1, -1>>)}

MCPoints == [Cols -> -1..2]

=============================================================================
