------------------------------ MODULE MCPostsolve ------------------------------
(***************************************************************************)
(* The small models of Presolve carried through to the recovered solution. *)
(***************************************************************************)
EXTENDS Postsolve, MCPresolve

MCDuals == [Rows -> {-4, -2, 0, 2, 4}]

\* All passes, cut off after one iteration or not, and those that change neither a
\* cost nor a bound.
MCSettings == AllPasses \cup {[max_passes |-> 20, enabled |-> {"EmptyRowCol", "FixedVariable"}]}

JustSingletons == {[max_passes |-> 20, enabled |-> {"Singleton"}]}

\* x_1 is only in an equality row.
SingletonColumnModels ==
    {Assemble(<<<<1, 1, 1>>, <<0, 1, 1>>>>, <<Half, Half, Half>>, <<<<1, 1>>, <<0, 2>>>>, <<4, 2, 2>>)}
=============================================================================
