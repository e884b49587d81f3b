------------------------------ MODULE FixedPoint ------------------------------
(***************************************************************************)
(* Exact rationals for the modules about linear programs: a number is the  *)
(* integer that counts its units of 1/One.  An instance chooses One so     *)
(* that every quotient its runs meet is a whole number of units; TLC stops *)
(* at a Ratio that is not, so a run that passes has met none.              *)
(***************************************************************************)
EXTENDS Integers, FiniteSets, Sequences, FiniteSetsExt, SequencesExt

CONSTANT One

ASSUME OneAssumption == One \in Nat \ {0}

Magnitude(v) == IF v < 0 THEN -v ELSE v
Smaller(v, w) == IF v <= w THEN v ELSE w
Larger(v, w) == IF v >= w THEN v ELSE w

\* a/b where it is whole.
Ratio(a, b) ==
    LET n == IF b < 0 THEN -a ELSE a
    IN CHOOSE q \in {n \div Magnitude(b)} : q * Magnitude(b) = n

Times(a, b) == Ratio(a * b, One)
Over(a, b) == Ratio(a * One, b)

\* The largest whole number (a multiple of One) not above v, and what is left.
WholePart(v) == (v \div One) * One
FractionOf(v) == v - WholePart(v)

\* v itself; TLC computes the entries once and not at every use.
Vector(v) == v \o <<>>

Total(f(_), S) == SumFunction([s \in S |-> f(s)])

=============================================================================
