------------------------------- MODULE Kernels -------------------------------
(***************************************************************************)
(* The parallel kernels: the OpenMP loops of the CPU and the CUDA kernels  *)
(* for products and reductions.  A unit is what runs on its own: an OpenMP *)
(* thread, a CUDA thread, or a warp, whose lanes move in lockstep through  *)
(* the shuffles.  Units take rows (or entries), compute in private and     *)
(* then store, in any interleaving; kernels of one stream follow each      *)
(* other.  The number of units is chosen at launch: a kernel has to be     *)
(* right on every grid.  WarpSize is 32, SubwarpSize 8 and WarpsPerBlock 8 *)
(* in the code.                                                            *)
(***************************************************************************)
EXTENDS SparseFormats

CONSTANTS
    WarpSize, SubwarpSize, WarpsPerBlock,
    MaxUnits,  \* most units of a launch (a bound)
    Jobs       \* the launches: [op, A, alpha, beta, x, y]

ASSUME KernelAssumption ==
    /\ {WarpSize, SubwarpSize, WarpsPerBlock, MaxUnits} \subseteq Nat \ {0}
    /\ WarpSize % SubwarpSize = 0

VARIABLES
    job,    \* the kernel that runs, and its arguments
    y,      \* the vector it writes: device memory, or the caller's
    units,  \* what each unit holds in private
    taken   \* the rows some unit has begun

kernelVars == <<job, y, units, taken>>

NoJob == [op |-> "none"]
Nothing == [i \in {} |-> 0]

CpuOps == {"csr", "csc"}                       \* spmv_csr_parallel, spmv_transpose_csc_parallel
RowOps == CpuOps \cup {"axpy", "scalar", "vector"}
SumOps == {"dot", "norm2", "norm1", "sum"}
ReduceOps == SumOps \cup {"normInf"}

-----------------------------------------------------------------------------
(* Warps.                                                                  *)

\* The offsets of a reduction by shuffles: n/2, n/4, ..., 1.
Halvings[n \in Nat] == IF n <= 1 THEN <<>> ELSE <<n \div 2>> \o Halvings[n \div 2]

\* __shfl_down_sync: a lane past the end reads itself.
ShuffleDown(v, offset) == [l \in DOMAIN v |-> IF l + offset \in DOMAIN v THEN v[l + offset] ELSE v[l]]

WarpReduceSum(v, width) ==
    FoldLeft(LAMBDA u, o : [l \in DOMAIN u |-> u[l] + ShuffleDown(u, o)[l]], v, Halvings[width])
WarpReduceMax(v, width) ==
    FoldLeft(LAMBDA u, o : [l \in DOMAIN u |-> Max({u[l], ShuffleDown(u, o)[l]})], v, Halvings[width])

\* What a lane adds up of a row: every width-th slot from its own.
LanePart(A, i, lane, width, x) ==
    MapThenSumSet(LAMBDA k : A.val[k] * x[A.ind[k]],
                  {k \in Slots(A, i) : (k - 1 - A.ptr[i]) % width = lane})

\* One warp, one row.
VectorDot(A, i, x) ==
    WarpReduceSum([l \in Indices(WarpSize) |-> LanePart(A, i, l, WarpSize, x)], WarpSize)[0]

\* One warp, a row for each sub-warp; the lanes of a sub-warp that has left
\* the loop give the shuffles whatever they hold.
SubwarpDots(A, rows, x, stale) ==
    LET value(l) == LET s == l \div SubwarpSize
                    IN IF s \in DOMAIN rows THEN LanePart(A, rows[s], l % SubwarpSize, SubwarpSize, x)
                       ELSE stale
        reduced == WarpReduceSum([l \in Indices(WarpSize) |-> value(l)], SubwarpSize)
    IN [i \in {rows[s] : s \in DOMAIN rows} |->
           reduced[SubwarpSize * CHOOSE s \in DOMAIN rows : rows[s] = i]]

-----------------------------------------------------------------------------
(* Launching.                                                              *)

Running(op) == job.op = op
Units == DOMAIN units
Rows == IF Running("axpy") THEN DOMAIN y
        ELSE IF Running("csc") THEN Indices(job.A.cols) ELSE Indices(job.A.rows)

\* spmv_raw returns at once for a matrix without rows or without columns.
Empty(j) == j.op \in {"scalar", "vector", "adaptive", "balanced"} /\ (j.A.rows = 0 \/ j.A.cols = 0)

\* A reduction clears its result first.  Shared memory starts with anything.
Private(j) ==
    CASE j.op = "balanced" -> [at |-> "new", k |-> 0, end |-> 0, row |-> 0, sum |-> 0]
      [] j.op \in ReduceOps \cup {"cpuDot"} -> [at |-> "new", val |-> 7]
      [] OTHER -> Nothing

Launch(j, grid) ==
    /\ job = NoJob
    /\ job' = [j EXCEPT !.op = IF Empty(j) THEN "return" ELSE @]
    /\ y' = IF j.op \in SumOps \cup {"cpuDot"} THEN [j.y EXCEPT ![0] = 0] ELSE j.y
    /\ units' = [u \in Indices(IF j.op \in ReduceOps THEN grid * WarpsPerBlock ELSE grid) |-> Private(j)]
    /\ taken' = {}

-----------------------------------------------------------------------------
(* One row at a time: CPU loops, axpy, one thread or one warp per row.      *)

\* An OpenMP thread may get any row nobody has; a CUDA unit goes through its
\* own with the stride of the grid.
RowsFor(u, strided) ==
    LET mine == {i \in Rows \ taken : strided => i % Cardinality(Units) = u}
    IN IF strided /\ mine # {} THEN {Min(mine)} ELSE mine

TakeRow(u, i, dot) ==
    /\ units[u] = Nothing
    /\ units' = [units EXCEPT ![u] = [r \in {i} |-> dot]]
    /\ taken' = taken \cup {i}
    /\ UNCHANGED <<job, y>>

SpmvCsrParallel(u) ==
    Running("csr") /\ \E i \in RowsFor(u, FALSE) : TakeRow(u, i, SlotDot(job.A, i, job.x))
SpmvTransposeCscParallel(u) ==
    Running("csc") /\ \E j \in RowsFor(u, FALSE) : TakeRow(u, j, SlotDot(job.A, j, job.x))
AxpyParallel(u) ==
    Running("axpy") /\ \E i \in RowsFor(u, FALSE) : TakeRow(u, i, job.x[i])
SpmvCsrScalar(u) ==
    Running("scalar") /\ \E i \in RowsFor(u, TRUE) : TakeRow(u, i, SlotDot(job.A, i, job.x))
SpmvCsrVector(u) ==
    Running("vector") /\ \E i \in RowsFor(u, TRUE) : TakeRow(u, i, VectorDot(job.A, i, job.x))

\* A warp takes the next row of each of its sub-warps.
SubwarpRows(u) ==
    LET per == WarpSize \div SubwarpSize
        mine(s) == {i \in Rows \ taken : i % (per * Cardinality(Units)) = per * u + s}
    IN [s \in {t \in Indices(per) : mine(t) # {}} |-> Min(mine(s))]

SpmvCsrAdaptive(u, stale) ==
    /\ Running("adaptive") /\ units[u] = Nothing
    /\ LET rows == SubwarpRows(u)
       IN /\ rows # Nothing
          /\ units' = [units EXCEPT ![u] = SubwarpDots(job.A, rows, job.x, stale)]
          /\ taken' = taken \cup {rows[s] : s \in DOMAIN rows}
    /\ UNCHANGED <<job, y>>

\* y[row] = alpha * dot, plus beta * y[row] unless beta is 0.
Store(u) ==
    /\ job.op \in RowOps \cup {"adaptive"} /\ units[u] # Nothing
    /\ y' = [i \in DOMAIN y |->
                IF i \in DOMAIN units[u] THEN Combined(job.alpha, units[u][i], job.beta, y[i]) ELSE y[i]]
    /\ units' = [units EXCEPT ![u] = Nothing]
    /\ UNCHANGED <<job, taken>>

-----------------------------------------------------------------------------
(* Balanced: the entries are shared out, whatever their rows.              *)

\* The first row that ends after entry k.
BinarySearchRow(A, k) ==
    LET search[low \in 0 .. A.rows, high \in -1 .. A.rows - 1, ans \in Indices(A.rows)] ==
            LET mid == (low + high) \div 2
            IN IF low > high THEN ans
               ELSE IF A.ptr[mid + 1] > k THEN search[low, mid - 1, mid]
               ELSE search[mid + 1, high, ans]
    IN search[0, A.rows - 1, 0]

\* A kernel of its own, before the entries: y is cleared or scaled.
PrepareBalanced ==
    /\ Running("balanced") /\ 0 \notin taken
    /\ y' = Scaled(job.beta, y)
    /\ taken' = {0}
    /\ UNCHANGED <<job, units>>

First(u) == (u * Len(job.A.val)) \div Cardinality(Units)

BalancedStart(u) ==
    /\ Running("balanced") /\ 0 \in taken /\ units[u].at = "new"
    /\ units' = [units EXCEPT ![u] =
                    [at |-> IF First(u) < First(u + 1) THEN "run" ELSE "done",
                     k |-> First(u), end |-> First(u + 1),
                     row |-> IF First(u) < First(u + 1) THEN BinarySearchRow(job.A, First(u)) ELSE 0,
                     sum |-> 0]]
    /\ UNCHANGED <<job, y, taken>>

\* Mutant: a plain store.
FlushedPlain(u) == [y EXCEPT ![units[u].row] = job.alpha * units[u].sum]

\* atomicAdd of what has been summed for the row.
Flushed(u) == [y EXCEPT ![units[u].row] = @ + job.alpha * units[u].sum]

BalancedAdd(u) ==
    /\ Running("balanced") /\ units[u].at = "run" /\ units[u].k < units[u].end
    /\ units[u].k < job.A.ptr[units[u].row + 1]
    /\ units' = [units EXCEPT ![u].sum = @ + job.A.val[units[u].k + 1] * job.x[job.A.ind[units[u].k + 1]],
                              ![u].k = @ + 1]
    /\ UNCHANGED <<job, y, taken>>

BalancedNextRow(u) ==
    /\ Running("balanced") /\ units[u].at = "run" /\ units[u].k < units[u].end
    /\ units[u].k >= job.A.ptr[units[u].row + 1]
    /\ y' = Flushed(u)
    /\ units' = [units EXCEPT ![u].sum = 0, ![u].row = @ + 1]
    /\ UNCHANGED <<job, taken>>

BalancedFinish(u) ==
    /\ Running("balanced") /\ units[u].at = "run" /\ units[u].k = units[u].end
    /\ y' = Flushed(u)
    /\ units' = [units EXCEPT ![u].at = "done"]
    /\ UNCHANGED <<job, taken>>

-----------------------------------------------------------------------------
(* Reductions.  y[0] is the result; y[b+1] the maximum of block b.         *)

BlockSize == WarpSize * WarpsPerBlock
Blocks == Indices(Cardinality(Units) \div WarpsPerBlock)
Warp(b, w) == b * WarpsPerBlock + w

Term(i) == CASE Running("dot") -> job.x[i] * job.A[i]
             [] Running("norm2") -> job.x[i] * job.x[i]
             [] Running("sum") -> job.x[i]
             [] OTHER -> Abs(job.x[i])

\* What a thread gathers with the stride of the grid.
ThreadTerms(t) == {i \in DOMAIN job.x : i % (Cardinality(Blocks) * BlockSize) = t}
ThreadPart(t) ==
    IF Running("normInf") THEN Max({0} \cup {Term(i) : i \in ThreadTerms(t)})
    ELSE MapThenSumSet(Term, ThreadTerms(t))

Reduced(v, width) ==
    IF Running("normInf") THEN WarpReduceMax(v, width)[0] ELSE WarpReduceSum(v, width)[0]

\* A warp gathers, shuffles, and its lane 0 stores into shared memory.
WarpStore(u) ==
    /\ job.op \in ReduceOps /\ units[u].at = "new"
    /\ units' = [units EXCEPT ![u] =
                    [at |-> "stored",
                     val |-> Reduced([l \in Indices(WarpSize) |-> ThreadPart(u * WarpSize + l)], WarpSize)]]
    /\ UNCHANGED <<job, y, taken>>

\* __syncthreads, then the first warp reduces the shared values and thread 0
\* adds them to the result atomically, or leaves the maximum of its block.
Synced(b) == \A w \in Indices(WarpsPerBlock) : units[Warp(b, w)].at = "stored"
BlockSum(b) == Reduced([w \in Indices(WarpsPerBlock) |-> units[Warp(b, w)].val], WarpsPerBlock)

BlockStore(b) ==
    /\ job.op \in ReduceOps /\ b \notin taken /\ Synced(b)
    /\ y' = IF Running("normInf") THEN [y EXCEPT ![b + 1] = BlockSum(b)]
            ELSE [y EXCEPT ![0] = @ + BlockSum(b)]
    /\ taken' = taken \cup {b}
    /\ UNCHANGED <<job, units>>

\* The second kernel of norm_inf.
FinalMax ==
    /\ Running("normInf") /\ taken = Blocks
    /\ y' = [y EXCEPT ![0] = Max({0} \cup {y[b + 1] : b \in Blocks})]
    /\ taken' = Blocks \cup {-1}
    /\ UNCHANGED <<job, units>>

\* dot_parallel: a static share for each thread, added up in any order.
CpuShare(u) == {i \in DOMAIN job.x : (i * Cardinality(Units)) \div Cardinality(DOMAIN job.x) = u}
DotParallel(u) ==
    /\ Running("cpuDot") /\ u \notin taken
    /\ y' = [y EXCEPT ![0] = @ + MapThenSumSet(LAMBDA i : job.x[i] * job.A[i], CpuShare(u))]
    /\ taken' = taken \cup {u}
    /\ UNCHANGED <<job, units>>

-----------------------------------------------------------------------------

UnitStep(u) ==
    \/ SpmvCsrParallel(u) \/ SpmvTransposeCscParallel(u) \/ AxpyParallel(u)
    \/ SpmvCsrScalar(u) \/ SpmvCsrVector(u)
    \/ \E stale \in {0, 7} : SpmvCsrAdaptive(u, stale)
    \/ Store(u)
    \/ BalancedStart(u) \/ BalancedAdd(u) \/ BalancedNextRow(u) \/ BalancedFinish(u)
    \/ WarpStore(u) \/ DotParallel(u)

KernelInit == job = NoJob /\ y = Nothing /\ units = Nothing /\ taken = {}

KernelStep ==
    \/ \E u \in Units : UnitStep(u)
    \/ PrepareBalanced
    \/ \E b \in Blocks : BlockStore(b)
    \/ FinalMax

KernelNext == (\E j \in Jobs, grid \in 1 .. MaxUnits : Launch(j, grid)) \/ KernelStep

-----------------------------------------------------------------------------
(* Properties.                                                             *)

Finished ==
    CASE job.op \in RowOps \cup {"adaptive"} -> taken = Rows /\ \A u \in Units : units[u] = Nothing
      [] Running("balanced") -> 0 \in taken /\ \A u \in Units : units[u].at = "done"
      [] Running("normInf") -> -1 \in taken
      [] job.op \in SumOps -> taken = Blocks
      [] Running("cpuDot") -> taken = Units
      [] OTHER -> Running("return")

ProductOps == {"csr", "csc", "scalar", "vector", "adaptive", "balanced"}

\* Every product kernel leaves alpha A x + beta y (A^T for the CSC loop) when
\* its last unit ends, on every grid and in every interleaving: no row is
\* missed or stored twice, no lane of another sub-warp leaks into a row, and
\* rows shared between threads lose no partial sum.
ProductsRight ==
    (job.op \in ProductOps /\ Finished) =>
        LET A == job.A
        IN y = IF Running("csc")
               THEN DenseGemvTranspose(CscToDense(A), A.rows, A.cols, job.alpha, job.x, job.beta, job.y)
               ELSE DenseGemv(CsrToDense(A), A.rows, A.cols, job.alpha, job.x, job.beta, job.y)

\* Every reduction, of CPU or GPU, and axpy give the sequential result.
ReductionsRight ==
    /\ (job.op \in {"dot", "cpuDot"} /\ Finished) => y[0] = Dot(job.x, job.A)
    /\ (Running("norm2") /\ Finished) => y[0] = Dot(job.x, job.x)
    /\ (Running("norm1") /\ Finished) => y[0] = AbsSum(job.x, DOMAIN job.x)
    /\ (Running("sum") /\ Finished) => y[0] = MapThenSumSet(LAMBDA i : job.x[i], DOMAIN job.x)
    /\ (Running("normInf") /\ Finished) => y[0] = Max({0} \cup {Abs(job.x[i]) : i \in DOMAIN job.x})
    /\ (Running("axpy") /\ Finished) => y = [i \in DOMAIN y |-> job.y[i] + job.alpha * job.x[i]]

\* A launch that has not ended has a unit that can move: no barrier waits for
\* a warp that waits for it, and no row is left that no unit may take.
NobodyWaits == (job # NoJob /\ ~Finished) => ENABLED KernelStep

\* Whatever a kernel computes, in every interleaving of its units, is what the sequential
\* definition gives, and no unit is left waiting for another.
KernelsRight == ProductsRight /\ ReductionsRight /\ NobodyWaits

=============================================================================
