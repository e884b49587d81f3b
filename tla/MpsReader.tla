------------------------------ MODULE MpsReader ------------------------------
(***************************************************************************)
(* The reader and the writer of MPS files.  A line is its tokens, names    *)
(* and numbers, and whether it starts in column 0; the reader takes one    *)
(* line at a time and keeps the section it is in, the integer marker and   *)
(* the first name it met of a right hand side, of ranges and of bounds.    *)
(* When the lines end it negates the objective of a maximisation and       *)
(* builds the matrix (CooMatrix).  The writer turns a model into lines,    *)
(* which are then read back.                                               *)
(***************************************************************************)
EXTENDS CooMatrix

CONSTANTS
    Files,  \* the files that may be read, sequences of lines
    Inf     \* what the code calls Infinity, above every number of a file

ASSUME MpsAssumption ==
    /\ Inf \in Nat
    /\ \A f \in Files : \A k \in DOMAIN f : f[k].column0 \in BOOLEAN

VARIABLES
    phase,   \* "idle", "reading", "built" or "error"
    lines,   \* what is left of the stream
    reader,  \* the local variables of parse_stream
    lp,      \* the model being filled
    first,   \* the model that was written and is being read back
    source   \* the file read first (ghost)

mpsVars == <<phase, lines, reader, lp, first, source>>

Headers == {"NAME", "OBJSENSE", "OBJNAME", "ROWS", "COLUMNS", "RHS", "RANGES", "BOUNDS", "ENDATA"}

NoNames == [n \in {} |-> 0]
EmptyModel ==
    [name |-> "", max |-> FALSE, offset |-> 0, obj |-> "",
     cols |-> <<>>, colIdx |-> NoNames, c |-> <<>>, lower |-> <<>>, upper |-> <<>>, types |-> <<>>,
     rows |-> <<>>, rowIdx |-> NoNames, senses |-> <<>>, rlower |-> <<>>, rupper |-> <<>>,
     csr |-> <<>>, csc |-> <<>>]
FreshReader ==
    [section |-> "", integer |-> FALSE, rhs |-> "", ranges |-> "", bounds |-> "", triplets |-> <<>>]

MpsInit ==
    /\ phase = "idle" /\ lines = <<>> /\ source = <<>>
    /\ reader = FreshReader /\ lp = EmptyModel /\ first = EmptyModel

ReadFile(f) ==
    /\ phase = "idle" /\ coo = NoMatrix
    /\ phase' = "reading" /\ lines' = f /\ source' = f
    /\ reader' = FreshReader /\ lp' = EmptyModel
    /\ UNCHANGED first

-----------------------------------------------------------------------------
(* One line.                                                               *)

tok == lines[1].tokens
AtHeader == lines # <<>> /\ lines[1].column0 /\ tok # <<>> /\ tok[1] \in Headers

\* A line in column 0 that is no header is data like any other.
Data(section, least) ==
    /\ phase = "reading" /\ lines # <<>> /\ ~AtHeader
    /\ reader.section = section /\ Len(tok) >= least

Consume == lines' = Tail(lines) /\ UNCHANGED <<first, source, cooVars>>

Maximises(m, word) ==
    IF word \in {"MAX", "MAXIMIZE"} THEN TRUE
    ELSE IF word \in {"MIN", "MINIMIZE"} THEN FALSE ELSE m.max

\* A header may carry its argument; ENDATA ends the loop.
Header ==
    /\ phase = "reading" /\ AtHeader
    /\ reader' = [reader EXCEPT !.section = tok[1]]
    /\ lp' = IF Len(tok) = 1 THEN lp
             ELSE [lp EXCEPT !.name = IF tok[1] = "NAME" THEN tok[2] ELSE @,
                             !.max = IF tok[1] = "OBJSENSE" THEN Maximises(lp, tok[2]) ELSE @,
                             !.obj = IF tok[1] = "OBJNAME" THEN tok[2] ELSE @]
    /\ lines' = IF tok[1] = "ENDATA" THEN <<>> ELSE Tail(lines)
    /\ UNCHANGED <<phase, first, source, cooVars>>

ObjSenseCard ==
    /\ Data("OBJSENSE", 1) /\ Consume
    /\ lp' = [lp EXCEPT !.max = Maximises(lp, tok[1])]
    /\ UNCHANGED <<phase, reader>>

ObjNameCard ==
    /\ Data("OBJNAME", 1) /\ Consume
    /\ lp' = [lp EXCEPT !.obj = tok[1]]
    /\ UNCHANGED <<phase, reader>>

\* Comments, blank lines, cards too short for their section, and cards of a
\* section without cards.
Least == [s \in {"", "NAME"} |-> 1000] @@ [s \in {"OBJSENSE", "OBJNAME"} |-> 1]
         @@ [s \in {"ROWS", "RHS", "RANGES"} |-> 2] @@ [s \in {"COLUMNS", "BOUNDS"} |-> 3]
SkippedLine ==
    /\ Data(reader.section, 0) /\ Len(tok) < Least[reader.section] /\ Consume
    /\ UNCHANGED <<phase, reader, lp>>

\* The first N row is the objective unless OBJNAME came before; the others
\* are forgotten.  A row is named before its type is found to be unknown.
NewRow(m, type, name) ==
    [m EXCEPT !.rows = Append(@, name),
              !.rowIdx = (name :> Len(m.rows) + 1) @@ @,
              !.senses = IF type \in {"E", "L", "G"} THEN Append(@, type) ELSE @,
              !.rlower = IF type \in {"E", "L", "G"}
                         THEN Append(@, IF type = "L" THEN -Inf ELSE 0) ELSE @,
              !.rupper = IF type \in {"E", "L", "G"}
                         THEN Append(@, IF type = "G" THEN Inf ELSE 0) ELSE @]

RowsCard ==
    /\ Data("ROWS", 2) /\ Consume
    /\ lp' = IF tok[1] = "N" THEN [lp EXCEPT !.obj = IF @ = "" THEN tok[2] ELSE @]
             ELSE NewRow(lp, tok[1], tok[2])
    /\ phase' = IF tok[1] \in {"N", "E", "L", "G"} THEN phase ELSE "error"
    /\ UNCHANGED reader

\* The name, number pairs of a card from a token on.
Pairs(t, from) ==
    [k \in 1 .. (Len(t) - from + 1) \div 2 |-> <<t[from + 2*k - 2], t[from + 2*k - 1]>>]

IsMarker == tok[2] = "MARKER"
MarkerCard ==
    /\ Data("COLUMNS", 3) /\ IsMarker /\ Consume
    /\ reader' = [reader EXCEPT !.integer = IF tok[3] = "INTORG" THEN TRUE
                                            ELSE IF tok[3] = "INTEND" THEN FALSE ELSE @]
    /\ UNCHANGED <<phase, lp>>

WithColumn(m, name, integer) ==
    IF name \in DOMAIN m.colIdx THEN m
    ELSE [m EXCEPT !.cols = Append(@, name), !.colIdx = (name :> Len(m.cols) + 1) @@ @,
                   !.c = Append(@, 0), !.lower = Append(@, 0), !.upper = Append(@, Inf),
                   !.types = Append(@, IF integer THEN "Integer" ELSE "Continuous")]

\* Coefficients of the objective add up; those of an unknown row (of a free
\* row) are dropped.
ColumnsCard ==
    /\ Data("COLUMNS", 3) /\ ~IsMarker /\ Consume
    /\ LET m == WithColumn(lp, tok[1], reader.integer)
           j == m.colIdx[tok[1]]
           cost(p) == IF p[1] = m.obj THEN p[2] ELSE 0
           entries == SelectSeq(Pairs(tok, 2),
                                LAMBDA p : p[1] # m.obj /\ p[1] \in DOMAIN m.rowIdx)
       IN /\ lp' = [m EXCEPT !.c[j] = @ + FoldLeft(LAMBDA s, p : s + cost(p), 0, Pairs(tok, 2))]
          /\ reader' = [reader EXCEPT !.triplets = @ \o
                 [k \in DOMAIN entries |-> Triplet(m.rowIdx[entries[k][1]] - 1, j - 1, entries[k][2])]]
    /\ UNCHANGED phase

\* The name of a set of cards: only the first one met counts.
Counts(known, name) == known = "" \/ known = name
Remembered(known, name) == IF known = "" THEN name ELSE known

\* A right hand side moves the bound, or both, that the row's type left at 0;
\* that of the objective is the offset, negated.
RhsEntry(m, p) ==
    IF p[1] = m.obj THEN [m EXCEPT !.offset = @ - p[2]]
    ELSE IF p[1] \notin DOMAIN m.rowIdx THEN m
    ELSE LET r == m.rowIdx[p[1]]
         IN [m EXCEPT !.rlower[r] = IF m.senses[r] \in {"E", "G"} THEN p[2] ELSE @,
                      !.rupper[r] = IF m.senses[r] \in {"E", "L"} THEN p[2] ELSE @]

RhsCard ==
    /\ Data("RHS", 2) /\ Consume
    /\ LET unnamed == tok[1] \in DOMAIN lp.rowIdx \cup {lp.obj}
       IN /\ reader' = IF unnamed THEN reader ELSE [reader EXCEPT !.rhs = Remembered(@, tok[1])]
          /\ lp' = IF unnamed \/ Counts(reader.rhs, tok[1])
                   THEN FoldLeft(RhsEntry, lp, Pairs(tok, IF unnamed THEN 1 ELSE 2))
                   ELSE lp
    /\ UNCHANGED phase

\* Mutant: the sign of a range is kept on L and G rows.
RangeEntrySigned(m, p) ==
    IF p[1] \notin DOMAIN m.rowIdx THEN m
    ELSE LET r == m.rowIdx[p[1]]
         IN [m EXCEPT !.senses[r] = "R",
                      !.rlower[r] = IF m.senses[r] = "L" THEN m.rupper[r] - p[2] ELSE @,
                      !.rupper[r] = IF m.senses[r] = "G" THEN m.rlower[r] + p[2] ELSE @]

\* A range opens the other side of the row from the bound it has by now.
RangeEntry(m, p) ==
    IF p[1] \notin DOMAIN m.rowIdx THEN m
    ELSE LET r == m.rowIdx[p[1]]
             sense == m.senses[r]
             low == m.rlower[r]
         IN [m EXCEPT !.senses[r] = "R",
                      !.rlower[r] = IF sense = "L" THEN m.rupper[r] - Abs(p[2])
                                    ELSE IF sense = "E" /\ p[2] <= 0 THEN low + p[2] ELSE @,
                      !.rupper[r] = IF sense = "G" THEN low + Abs(p[2])
                                    ELSE IF sense = "E" /\ p[2] > 0 THEN low + p[2] ELSE @]

RangesCard ==
    /\ Data("RANGES", 2) /\ Consume
    /\ LET unnamed == tok[1] \in DOMAIN lp.rowIdx
       IN /\ reader' = IF unnamed THEN reader ELSE [reader EXCEPT !.ranges = Remembered(@, tok[1])]
          /\ lp' = IF unnamed \/ Counts(reader.ranges, tok[1])
                   THEN FoldLeft(RangeEntry, lp, Pairs(tok, IF unnamed THEN 1 ELSE 2))
                   ELSE lp
    /\ UNCHANGED phase

Bounded(m, type, j, v) ==
    [m EXCEPT
        !.lower[j] = CASE type \in {"LO", "FX", "LI"} -> v
                       [] type \in {"FR", "MI"} -> -Inf
                       [] type = "BV" -> 0
                       [] OTHER -> @,
        !.upper[j] = CASE type \in {"UP", "FX", "UI"} -> v
                       [] type \in {"FR", "PL"} -> Inf
                       [] type = "MI" -> IF @ = Inf THEN 0 ELSE @
                       [] type = "BV" -> 1
                       [] OTHER -> @,
        !.types[j] = CASE type = "BV" -> "Binary"
                       [] type \in {"UI", "LI"} -> "Integer"
                       [] OTHER -> @]

BoundsCard ==
    /\ Data("BOUNDS", 3) /\ Consume
    /\ reader' = [reader EXCEPT !.bounds = Remembered(@, tok[2])]
    /\ lp' = IF Counts(reader.bounds, tok[2]) /\ tok[3] \in DOMAIN lp.colIdx
             THEN Bounded(lp, tok[1], lp.colIdx[tok[3]], IF Len(tok) >= 4 THEN tok[4] ELSE 0)
             ELSE lp
    /\ UNCHANGED phase

-----------------------------------------------------------------------------
(* The end of the lines, and back.                                         *)

\* Costs and offset of a maximisation change sign; the triplets become the
\* matrix, sorted by column and merged, and its two compressed forms.
Assemble ==
    /\ phase = "reading" /\ lines = <<>>
    /\ phase' = "built"
    /\ LET sign == IF lp.max THEN -1 ELSE 1
           A == WithoutDuplicates(SortedBy(
                    FromTriplets(Len(lp.rows), Len(lp.cols), reader.triplets), "col"))
       IN /\ coo' = A
          /\ lp' = [lp EXCEPT !.c = [j \in DOMAIN @ |-> sign * @[j]], !.offset = sign * @,
                              !.csc = CooToCSC(A), !.csr = CooToCSR(A)]
    /\ added' = [cell \in AllCells |->
                    CooCoeff([triplets |-> reader.triplets], cell[1], cell[2])]
    /\ UNCHANGED <<lines, reader, first, source>>

Card(t) == [column0 |-> FALSE, tokens |-> t]
Section(t) == [column0 |-> TRUE, tokens |-> t]

\* Indices whose card is written, in order.
Each(s, Of(_)) == FlattenSeq([k \in DOMAIN s |-> Of(k)])

RowLetter(l, u) ==
    CASE l = u -> "E"
      [] l # u /\ l = -Inf /\ u # Inf -> "L"
      [] l # u /\ l # -Inf /\ u = Inf -> "G"
      [] l # u /\ l # -Inf /\ u # Inf -> "E"
      [] OTHER -> "N"

ColumnCards(m, obj, j) ==
    LET integer == m.types[j] \in {"Binary", "Integer"}
        slots == Slots(m.csc, j - 1)
        nonzeros == SelectSeq([k \in 1 .. Cardinality(slots) |-> m.csc.ptr[j - 1] + k],
                              LAMBDA k : m.csc.val[k] # 0)
    IN (IF integer THEN <<Card(<<"MARK", "MARKER", "INTORG">>)>> ELSE <<>>)
       \o (IF m.c[j] # 0 THEN <<Card(<<m.cols[j], obj, m.c[j]>>)>> ELSE <<>>)
       \o [k \in DOMAIN nonzeros |->
              Card(<<m.cols[j], m.rows[m.csc.ind[nonzeros[k]] + 1], m.csc.val[nonzeros[k]]>>)]
       \o (IF integer THEN <<Card(<<"MARK", "MARKER", "INTEND">>)>> ELSE <<>>)

\* Mutant: the lower bound is the right hand side of every row.
RhsCardsLower(m, r) ==
    LET rhs == IF m.rlower[r] # -Inf THEN m.rlower[r] ELSE 0
    IN IF rhs # 0 THEN <<Card(<<"RHS1", m.rows[r], rhs>>)>> ELSE <<>>

RhsCards(m, r) ==
    LET l == m.rlower[r]
        u == m.rupper[r]
        rhs == IF l = u THEN l ELSE IF u # Inf THEN u ELSE IF l # -Inf THEN l ELSE 0
    IN IF rhs # 0 THEN <<Card(<<"RHS1", m.rows[r], rhs>>)>> ELSE <<>>

RangeCards(m, r) ==
    IF m.rlower[r] # -Inf /\ m.rupper[r] # Inf /\ m.rlower[r] # m.rupper[r]
    THEN <<Card(<<"RNG1", m.rows[r], m.rupper[r] - m.rlower[r]>>)>> ELSE <<>>

BoundCards(m, j) ==
    LET l == m.lower[j]
        u == m.upper[j]
        name == m.cols[j]
    IN CASE m.types[j] = "Binary" -> <<Card(<<"BV", "BND1", name>>)>>
         [] m.types[j] # "Binary" /\ l = u -> <<Card(<<"FX", "BND1", name, l>>)>>
         [] m.types[j] # "Binary" /\ l = -Inf /\ u = Inf -> <<Card(<<"FR", "BND1", name>>)>>
         [] OTHER ->
              (IF l = -Inf THEN <<Card(<<"MI", "BND1", name>>)>>
               ELSE IF l # 0 THEN <<Card(<<"LO", "BND1", name, l>>)>> ELSE <<>>)
              \o (IF u = Inf THEN <<>>
                  ELSE <<Card(<<IF m.types[j] = "Integer" THEN "UI" ELSE "UP", "BND1", name, u>>)>>)

Written(m) ==
    LET obj == IF m.obj = "" THEN "COST" ELSE m.obj
        ranges == Each(m.rows, LAMBDA r : RangeCards(m, r))
    IN <<Section(<<"NAME", IF m.name = "" THEN "PIPEPYE_LP" ELSE m.name>>),
         Section(<<"OBJSENSE">>), Card(<<IF m.max THEN "MAX" ELSE "MIN">>),
         Section(<<"ROWS">>), Card(<<"N", obj>>)>>
       \o [r \in DOMAIN m.rows |-> Card(<<RowLetter(m.rlower[r], m.rupper[r]), m.rows[r]>>)]
       \o <<Section(<<"COLUMNS">>)>> \o Each(m.cols, LAMBDA j : ColumnCards(m, obj, j))
       \o <<Section(<<"RHS">>)>> \o Each(m.rows, LAMBDA r : RhsCards(m, r))
       \o (IF ranges = <<>> THEN <<>> ELSE <<Section(<<"RANGES">>)>> \o ranges)
       \o <<Section(<<"BOUNDS">>)>> \o Each(m.cols, LAMBDA j : BoundCards(m, j))
       \o <<Section(<<"ENDATA">>)>>

\* write_stream, and parse_stream of what it wrote into a new model.
WriteAndRead ==
    /\ phase = "built" /\ first = EmptyModel
    /\ phase' = "reading" /\ first' = lp /\ lines' = Written(lp)
    /\ reader' = FreshReader /\ lp' = EmptyModel
    /\ coo' = NoMatrix /\ added' = NothingAdded
    /\ UNCHANGED source

MpsNext ==
    \/ \E f \in Files : ReadFile(f) /\ UNCHANGED cooVars
    \/ Header \/ ObjSenseCard \/ ObjNameCard \/ RowsCard \/ MarkerCard \/ ColumnsCard
    \/ RhsCard \/ RangesCard \/ BoundsCard \/ SkippedLine
    \/ Assemble \/ WriteAndRead

-----------------------------------------------------------------------------
(* Properties.  What a file says is read off its cards, all at once.       *)

HeaderAt(f, k) == f[k].column0 /\ f[k].tokens[1] \in Headers
LastLine(f) == Min({k \in DOMAIN f : HeaderAt(f, k) /\ f[k].tokens[1] = "ENDATA"} \cup {Len(f) + 1}) - 1
SectionOf(f, k) == LET before == {h \in 1 .. k : HeaderAt(f, h)}
                   IN IF before = {} THEN "" ELSE f[Max(before)].tokens[1]

\* The data cards of a section, in order.
CardsOf(f, section) ==
    LET at == SelectSeq([k \in 1 .. LastLine(f) |-> k],
                        LAMBDA k : ~HeaderAt(f, k) /\ SectionOf(f, k) = section)
    IN [i \in DOMAIN at |-> f[at[i]].tokens]

RowType(f, row) ==
    LET cards == CardsOf(f, "ROWS")
    IN cards[CHOOSE k \in DOMAIN cards : cards[k][2] = row][1]
FirstFree(f) ==
    LET free == SelectSeq(CardsOf(f, "ROWS"), LAMBDA t : t[1] = "N")
    IN IF free = <<>> THEN "" ELSE free[1][2]

\* The name, number pairs of the first vector of a section: the cards that
\* name no vector, or name the one named first.
PairsOf(f, section, named) ==
    LET cards == CardsOf(f, section)
        unnamed(t) == t[1] \in named
        names == SelectSeq(cards, LAMBDA t : ~unnamed(t))
        kept == SelectSeq(cards, LAMBDA t : unnamed(t) \/ t[1] = names[1][1])
    IN FlattenSeq([k \in DOMAIN kept |-> Pairs(kept[k], IF unnamed(kept[k]) THEN 1 ELSE 2)])

ValuesFor(pairs, name) ==
    LET mine == SelectSeq(pairs, LAMBDA p : p[1] = name)
    IN [k \in DOMAIN mine |-> mine[k][2]]
SumOf(s) == FoldLeft(LAMBDA a, b : a + b, 0, s)

Distinct(names) == Cardinality({names[k] : k \in DOMAIN names}) = Len(names)
JustLoaded == phase = "built" /\ first = EmptyModel
RangesLast(f) ==
    \A h, k \in DOMAIN f : HeaderAt(f, h) /\ HeaderAt(f, k) /\ f[h].tokens[1] = "RANGES"
                           /\ f[k].tokens[1] = "RHS" => k < h

\* The arrays of the model stay parallel and the symbol tables find every
\* name at its place, through every card of every section; a reader that
\* answered an error makes no such promise.
SymbolTablesAgree ==
    phase # "error" =>
        /\ {Len(lp.c), Len(lp.lower), Len(lp.upper), Len(lp.types)} = {Len(lp.cols)}
        /\ {Len(lp.senses), Len(lp.rlower), Len(lp.rupper)} = {Len(lp.rows)}
        /\ \A j \in DOMAIN lp.cols : lp.colIdx[lp.cols[j]] = j
        /\ Distinct(lp.rows) => \A r \in DOMAIN lp.rows : lp.rowIdx[lp.rows[r]] = r

\* The bounds of a row are those that its type, its right hand side and its
\* range mean together: whatever comes first of two vectors counts, and the
\* last of two values.  (A file with RANGES before RHS reads otherwise: the
\* row is Ranged by then and its right hand side is dropped.)
RowBoundsDeclared ==
    (JustLoaded /\ Distinct(lp.rows) /\ RangesLast(source)) =>
        LET names == {lp.rows[r] : r \in DOMAIN lp.rows}
            rhs == PairsOf(source, "RHS", names \cup {lp.obj})
            ranges == PairsOf(source, "RANGES", names)
        IN \A r \in DOMAIN lp.rows :
              LET type == RowType(source, lp.rows[r])
                  b == Last(<<0>> \o ValuesFor(rhs, lp.rows[r]))
                  range == ValuesFor(ranges, lp.rows[r])
                  width == IF range = <<>> THEN 0 ELSE Abs(range[1])
                  below == IF range = <<>> THEN (IF type = "L" THEN Inf ELSE 0)
                           ELSE IF type = "L" \/ (type = "E" /\ range[1] < 0) THEN width ELSE 0
                  above == IF range = <<>> THEN (IF type = "G" THEN Inf ELSE 0)
                           ELSE IF type = "G" \/ (type = "E" /\ range[1] > 0) THEN width ELSE 0
              IN /\ lp.rlower[r] = IF below = Inf THEN -Inf ELSE b - below
                 /\ lp.rupper[r] = IF above = Inf THEN Inf ELSE b + above

\* The matrix and the objective are the sums of the cards: repeated entries
\* add up through triplets, merging and both compressed forms, entries of
\* free rows vanish, and a maximisation is stored negated with its offset.
MatrixDeclared ==
    (JustLoaded /\ Distinct(lp.rows)) =>
        LET cards == SelectSeq(CardsOf(source, "COLUMNS"), LAMBDA t : t[2] # "MARKER")
            sign == IF lp.max THEN -1 ELSE 1
            obj == IF CardsOf(source, "OBJNAME") = <<>> THEN FirstFree(source)
                   ELSE CardsOf(source, "OBJNAME")[1][1]
            said(col, row) ==
                SumOf([k \in DOMAIN cards |->
                          IF cards[k][1] # col THEN 0
                          ELSE SumOf(ValuesFor(Pairs(cards[k], 2), row))])
            names == {lp.rows[r] : r \in DOMAIN lp.rows}
        IN /\ \A j \in DOMAIN lp.cols :
                 /\ lp.c[j] = sign * said(lp.cols[j], obj)
                 /\ \A r \in DOMAIN lp.rows :
                       LET v == said(lp.cols[j], lp.rows[r])
                       IN /\ CsrCoeff(lp.csr, r - 1, j - 1) = v
                          /\ CscCoeff(lp.csc, r - 1, j - 1) = v
           /\ lp.offset =
                 -sign * SumOf(ValuesFor(PairsOf(source, "RHS", names \cup {obj}), obj))

\* A model the writer can express: it has no card for an offset, writes a
\* ranged row as E with its upper bound (read back as [u, 2u - l]), a free
\* row as one more N row and no column without entries, forgets the bounds of
\* a binary column, and writes the negated costs of a maximisation, which are
\* negated again.
Expressible(m) ==
    /\ ~m.max /\ m.offset = 0 /\ Distinct(m.rows)
    /\ \A r \in DOMAIN m.rows :
          m.rlower[r] = m.rupper[r] \/ ((m.rlower[r] = -Inf) # (m.rupper[r] = Inf))
    /\ \A j \in DOMAIN m.cols :
          /\ m.c[j] # 0 \/ Slots(m.csc, j - 1) # {}
          /\ m.types[j] = "Binary" => m.lower[j] = 0 /\ m.upper[j] = 1
    /\ \A k \in DOMAIN m.csc.val : m.csc.val[k] # 0

\* Writing an expressible model and reading it back gives the same model:
\* rows, columns, types, every bound and the matrix.
RoundTrip ==
    (phase = "built" /\ first # EmptyModel /\ Expressible(first)) =>
        /\ [f \in DOMAIN lp \ {"name", "obj", "colIdx", "rowIdx", "senses"} |-> lp[f]]
             = [f \in DOMAIN lp \ {"name", "obj", "colIdx", "rowIdx", "senses"} |-> first[f]]
        /\ \A r \in DOMAIN lp.rows : lp.rlower[r] # lp.rupper[r] => lp.senses[r] = first.senses[r]

\* A file that was read gives the model its cards declare, with tables that agree on every
\* name: rows and their bounds, columns, matrix, objective (mps_parser.cpp).
ModelDeclared == SymbolTablesAgree /\ RowBoundsDeclared /\ MatrixDeclared

=============================================================================
