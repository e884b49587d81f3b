----------------------------- MODULE MCMatrices -----------------------------
(***************************************************************************)
(* For TLC: matrices assembled by hand, models read from small MPS files,  *)
(* the parallel kernels, and calls of solve_end_to_end with the            *)
(* first-order solver.                                                     *)
(***************************************************************************)
EXTENDS MpsReader, Kernels, MCFirstOrder

MCValues == {-1, 1}

Cards(section, ts) == <<Section(<<section>>)>> \o [k \in DOMAIN ts |-> Card(ts[k])]

\* Three shapes of rows, one with a free row, each named R1 and R2.
RowSets == {<< <<"N", "COST">>, <<"L", "R1">>, <<"G", "R2">> >>,
            << <<"N", "COST">>, <<"E", "R1">>, <<"N", "FREE">>, <<"L", "R2">> >>,
            << <<"G", "R1">>, <<"E", "R2">>, <<"N", "COST">> >>}

RhsSets == {<<>>,
            << <<"RHS", "R1", 3, "R2", 1>> >>,
            << <<"R1", 2>>, <<"RHS", "R2", 4>>, <<"OTHER", "R1", 7>> >>,
            << <<"RHS", "COST", 5>>, <<"COST", 1>>, <<"RHS", "R1", 2, "R1", -1>> >>}

RangeSets == {<<>>,
              << <<"RNG", "R1", 2>> >>,
              << <<"R2", -3>>, <<"RNG", "R1", -1>>, <<"OLD", "R2", 9>> >>}

Plain == << <<"X", "COST", 2, "R1", 1>>, <<"Y", "R1", 1, "R2", -1>> >>
ColumnSets == {Plain,
               << <<"X", "R1", 1, "COST", 1>>, <<"M", "MARKER", "INTORG">>, <<"Y", "R2", 3>>,
                  <<"Y", "R2", -1>>, <<"X", "R1", 2>>, <<"M", "MARKER", "INTEND">>, <<"X", "R2", 1>> >>,
               << <<"M", "MARKER", "INTORG">>, <<"Y", "NOROW", 4>>, <<"Y", "COST", -1>>, <<"X", "R2", 1>>,
                  <<"X", "COST", 1>>, <<"X", "COST", 1>> >>,
               << <<"Y", "R1", 1>>, <<"X", "R2", 2>>, <<"X", "R1", 1>>, <<"Y", "R1", -1>>, <<"Y", "COST">> >>}

BoundSets == {<<>>,
              << <<"UP", "B", "X", 4>>, <<"LO", "B", "Y", -2>>, <<"UP", "OLD", "Y", 9>> >>,
              << <<"MI", "B", "X">>, <<"FR", "B", "Y">> >>,
              << <<"UP", "B", "X", 3>>, <<"MI", "B", "X">>, <<"FX", "B", "Y", 2>> >>,
              << <<"BV", "B", "X">>, <<"LI", "B", "Y", 1>>, <<"UI", "B", "Y", 5>> >>,
              << <<"BV", "B", "Y">>, <<"UP", "B", "Y", 0>>, <<"PL", "B", "X">>, <<"UP", "B", "Z", 1>> >>,
              << <<"MI", "B", "Y">>, <<"UP", "B", "Y", 2>>, <<"FX", "B", "X", 0>>, <<"UP", "B", "Y">> >>}

Heads == {<<Section(<<"NAME", "T">>)>>,
          <<Section(<<"OBJSENSE", "MAX">>), Section(<<"NAME">>), Card(<<"*", "comment">>)>>,
          <<Section(<<"OBJSENSE">>), Card(<<"MAXIMIZE">>), Card(<<"MIN">>)>>}

Body(head, rows, columns, rhs, ranges, bounds) ==
    head \o Cards("ROWS", rows) \o Cards("COLUMNS", columns) \o Cards("RHS", rhs)
         \o Cards("RANGES", ranges) \o Cards("BOUNDS", bounds) \o <<Section(<<"ENDATA">>)>>

ARow == << <<"N", "COST">>, <<"L", "R1">>, <<"G", "R2">> >>
AHead == <<Section(<<"NAME", "T">>)>>

\* Odd files: RANGES before RHS, an objective that is not the first N row, an
\* unknown row type, a name given to two rows, no ENDATA and a card in column 0.
OddFiles ==
    {AHead \o Cards("ROWS", ARow) \o Cards("COLUMNS", Plain) \o Cards("RANGES", << <<"RNG", "R1", 2>> >>)
         \o Cards("RHS", << <<"RHS", "R1", 3>> >>) \o <<Section(<<"ENDATA">>)>>,
     <<Section(<<"OBJNAME">>), Card(<<"FREE">>)>>
         \o Cards("ROWS", << <<"N", "COST">>, <<"L", "R1">>, <<"N", "FREE">> >>)
         \o Cards("COLUMNS", << <<"X", "COST", 2, "FREE", 1>>, <<"X", "R1", 1>> >>),
     Cards("ROWS", << <<"N", "COST">>, <<"L", "R1">>, <<"Q", "R2">> >>),
     Cards("ROWS", << <<"N", "COST">>, <<"L", "R1">>, <<"G", "R1">> >>) \o Cards("COLUMNS", Plain),
     Cards("ROWS", ARow) \o Cards("COLUMNS", Plain)
         \o <<Section(<<"X", "R1", 5>>), Section(<<"ENDATA">>), Card(<<"X", "R2", 5>>)>>}

MCFiles ==
    {Body(AHead, rows, Plain, rhs, ranges, <<>>) :
        rows \in RowSets, rhs \in RhsSets, ranges \in RangeSets}
    \cup {Body(head, ARow, columns, << <<"RHS", "R1", 3>> >>, <<>>, bounds) :
        head \in Heads, columns \in ColumnSets, bounds \in BoundSets}
    \cup OddFiles

\* A matrix with an empty row and a long one, its transpose by columns, and
\* one without entries.
KernelMatrix == CooToCSR(FromTriplets(4, 3,
    <<Triplet(3, 0, 2), Triplet(0, 1, 1), Triplet(2, 0, -1), Triplet(2, 2, 3), Triplet(2, 1, 1)>>))
WideMatrix == CooToCSR(FromTriplets(1, 6,
    <<Triplet(0, 0, 2), Triplet(0, 1, 1), Triplet(0, 2, -1), Triplet(0, 3, 3), Triplet(0, 5, 1)>>))
BlankMatrix == CooToCSR(FromTriplets(2, 2, <<>>))
NoColumns == CooToCSR(FromTriplets(2, 0, <<>>))

MCVector(n, s) == [i \in Indices(n) |-> ((i * s) % 4) - 1]

ProductJob(op, A, alpha, beta) ==
    IF op = "csc"
    THEN [op |-> op, A |-> CsrToCSC(A), alpha |-> alpha, beta |-> beta,
          x |-> MCVector(A.rows, 3), y |-> MCVector(A.cols, 1)]
    ELSE [op |-> op, A |-> A, alpha |-> alpha, beta |-> beta,
          x |-> MCVector(A.cols, 3), y |-> MCVector(A.rows, 1)]

ReduceJob(op, n) ==
    [op |-> op, A |-> MCVector(n, 1), alpha |-> 1, beta |-> 1,
     x |-> MCVector(n, 3), y |-> [b \in 0 .. MaxUnits |-> 5]]

MCJobs ==
    {ProductJob(op, A, alpha, beta) :
        op \in ProductOps, A \in {KernelMatrix, WideMatrix, BlankMatrix, NoColumns},
        alpha \in {2}, beta \in {0, 1, -1}}
    \cup {ReduceJob(op, n) : op \in ReduceOps \cup {"cpuDot"}, n \in {1, 4, 11}}
    \cup {[op |-> "axpy", A |-> Nothing, alpha |-> 2, beta |-> 1,
           x |-> MCVector(3, 3), y |-> MCVector(3, 1)]}

\* One of the four at a time, each from its start.
ByHand == task = <<>> /\ phase = "idle" /\ job = NoJob /\ CooNext /\ UNCHANGED <<mpsVars, kernelVars, allEndVars>>
FromFiles == task = <<>> /\ job = NoJob /\ MpsNext /\ UNCHANGED <<kernelVars, allEndVars>>
OnDevice == task = <<>> /\ phase = "idle" /\ coo = NoMatrix /\ KernelNext /\ UNCHANGED <<cooVars, mpsVars, allEndVars>>
EndToEndCall == phase = "idle" /\ coo = NoMatrix /\ job = NoJob /\ EndNext /\ UNCHANGED <<cooVars, mpsVars, kernelVars>>

MCInit == CooInit /\ MpsInit /\ KernelInit /\ EndInit
MCNext == ByHand \/ FromFiles \/ OnDevice \/ EndToEndCall
MCSpec == MCInit /\ [][MCNext]_<<cooVars, mpsVars, kernelVars, allEndVars>>

=============================================================================
