--------------------------- MODULE RadixsortScan ---------------------------
(***************************************************************************)
(* The work-group of the kernel radixsortScan (src/kernels/radixsort.cl),  *)
(* which turns the histograms of the blocks into the positions where each  *)
(* block puts its keys.  As in RadixsortReduce, there is a barrier after   *)
(* every phase and WarpSize work-items run in lock step.                   *)
(***************************************************************************)
EXTENDS Integers, RadixsortDigits

CONSTANTS
    RADIX, SCAN_BLOCKS, SCAN_WORK_GROUP_SIZE, WarpSize,
    Histograms, \* contents of the histogram before the kernel runs
    BlockCounts \* values of the argument blocks

Items == 0 .. SCAN_WORK_GROUP_SIZE - 1
Warps == 0 .. SCAN_WORK_GROUP_SIZE \div WarpSize - 1
ItemsOf(w) == {lid \in Items : lid \div WarpSize = w}
Cells == 0 .. SCAN_BLOCKS * RADIX - 1

chunks == SCAN_WORK_GROUP_SIZE \div RADIX
chunkRows == SCAN_BLOCKS \div chunks
digit(lid) == lid % RADIX
chunk(lid) == lid \div RADIX

\* Phases: 0 load, 1 scan the chunks, then reads and writes of the prefix
\* sum in turns, 2 ^ steps being SCAN_WORK_GROUP_SIZE, then write.
steps == CHOOSE n \in Items : 2 ^ n = SCAN_WORK_GROUP_SIZE
WritePhase == 2 + 2 * steps
scale(p) == 2 ^ ((p - 2) \div 2)

VARIABLES
    start,      \* the histogram before the kernel ran, fixed
    blocks,     \* the argument, fixed
    pc, histogram, hist,
    sums,       \* local memory, 2 * SCAN_WORK_GROUP_SIZE cells
    sum, prev   \* private variables of each work-item

vars == <<start, blocks, pc, histogram, hist, sums, sum, prev>>

Garbage == -1   \* what memory holds before it is written

Init ==
    /\ start \in Histograms
    /\ blocks \in BlockCounts
    /\ pc = [w \in Warps |-> 0]
    /\ histogram = start
    /\ hist = [a \in Cells |-> Garbage]
    /\ sums = [a \in 0 .. 2 * SCAN_WORK_GROUP_SIZE - 1 |-> Garbage]
    /\ sum = [lid \in Items |-> Garbage]
    /\ prev = [lid \in Items |-> Garbage]

\* Mutant: no barrier between reading and writing in the prefix sum.
Arrived_FreeWrites(w) ==
    /\ pc[w] <= WritePhase
    /\ (pc[w] \in 3 .. WritePhase /\ pc[w] % 2 = 1) \/ (\A v \in Warps : pc[v] >= pc[w])

Arrived(w) == pc[w] <= WritePhase /\ \A v \in Warps : pc[v] >= pc[w]

Loaded(addr) == IF addr < blocks * RADIX THEN histogram[addr] ELSE 0

Load(w) ==
    /\ pc[w] = 0
    /\ hist' = [a \in Cells |->
                   IF a % SCAN_WORK_GROUP_SIZE \in ItemsOf(w) THEN Loaded(a) ELSE hist[a]]
    /\ UNCHANGED <<histogram, sums, sum, prev>>

\* The sum of the rows of a work-item's chunk before row.
Above(lid, row) ==
    MapThenSumSet(LAMBDA r : hist[r * RADIX + digit(lid)],
                  (chunk(lid) * chunkRows) .. (row - 1))

\* The work-item that scans the chunk of a cell.
Owner(a) == (a \div (RADIX * chunkRows)) * RADIX + (a % RADIX)

ScanChunks(w) ==
    /\ pc[w] = 1
    /\ hist' = [a \in Cells |->
          IF Owner(a) \in ItemsOf(w) THEN Above(Owner(a), a \div RADIX) ELSE hist[a]]
    /\ sums' = [a \in DOMAIN sums |->
          LET t   == a - SCAN_WORK_GROUP_SIZE   \* transposed
              lid == (t % chunks) * RADIX + (t \div chunks)
          IN  IF a \in ItemsOf(w) THEN 0
              ELSE IF t >= 0 /\ lid \in ItemsOf(w)
              THEN Above(lid, (chunk(lid) + 1) * chunkRows) ELSE sums[a]]
    /\ UNCHANGED <<histogram, sum, prev>>

ReadPrevious(w) ==
    /\ pc[w] \in 2 .. WritePhase - 1
    /\ pc[w] % 2 = 0
    /\ sum' = [lid \in Items |-> IF lid \in ItemsOf(w) /\ pc[w] = 2
                                 THEN sums[SCAN_WORK_GROUP_SIZE + lid] ELSE sum[lid]]
    /\ prev' = [lid \in Items |->
                   IF lid \in ItemsOf(w)
                   THEN sums[SCAN_WORK_GROUP_SIZE - scale(pc[w]) + lid] ELSE prev[lid]]
    /\ UNCHANGED <<histogram, hist, sums>>

AddPrevious(w) ==
    /\ pc[w] \in 2 .. WritePhase - 1
    /\ pc[w] % 2 = 1
    /\ sum' = [lid \in Items |-> IF lid \in ItemsOf(w) THEN sum[lid] + prev[lid] ELSE sum[lid]]
    /\ sums' = [a \in DOMAIN sums |->
                   IF a - SCAN_WORK_GROUP_SIZE \in ItemsOf(w)
                   THEN sum'[a - SCAN_WORK_GROUP_SIZE] ELSE sums[a]]
    /\ UNCHANGED <<histogram, hist, prev>>

Write(w) ==
    /\ pc[w] = WritePhase
    /\ histogram' = [a \in Cells |->
          IF a % SCAN_WORK_GROUP_SIZE \in ItemsOf(w)
          THEN hist[a] + sums[SCAN_WORK_GROUP_SIZE - 1 + (a % RADIX) * chunks
                              + (a \div (chunkRows * RADIX))]
          ELSE histogram[a]]
    /\ UNCHANGED <<hist, sums, sum, prev>>

Step(w) ==
    /\ Arrived(w)
    /\ Load(w) \/ ScanChunks(w) \/ ReadPrevious(w) \/ AddPrevious(w) \/ Write(w)
    /\ pc' = [pc EXCEPT ![w] = @ + 1]
    /\ UNCHANGED <<start, blocks>>

Terminated == (\A w \in Warps : pc[w] > WritePhase) /\ UNCHANGED vars

Next == (\E w \in Warps : Step(w)) \/ Terminated

Spec == Init /\ [][Next]_vars

-----------------------------------------------------------------------------
Count == Nat \union {Garbage}

(* Types; a work-item never adds up cells that nobody has written yet.     *)
TypeOK ==
    /\ pc \in [Warps -> 0 .. WritePhase + 1]
    /\ histogram \in [Cells -> Nat] /\ hist \in [Cells -> Count]
    /\ sums \in [0 .. 2 * SCAN_WORK_GROUP_SIZE - 1 -> Count]
    /\ sum \in [Items -> Count] /\ prev \in [Items -> Count]

Rows == [b \in 0 .. SCAN_BLOCKS - 1 |-> [d \in 0 .. RADIX - 1 |-> start[b * RADIX + d]]]

\* The keys in the transposed chunk t, which start counts.
ChunkTotal(t) ==
    MapThenSumSet(LAMBDA b : Rows[b][t \div chunks],
                  {b \in 0 .. blocks - 1 : b \div chunkRows = t % chunks})

(* The prefix sum in place: when the work-items are together before a read *)
(* with distance s, each cell holds the total of the s chunks up to its    *)
(* own, and the padding in front of the cells is still zero.               *)
PrefixSums ==
    \A p \in {p \in 2 .. WritePhase : p % 2 = 0} :
        (\A w \in Warps : pc[w] = p) =>
            \A lid \in Items :
                /\ sums[lid] = 0
                /\ sums[SCAN_WORK_GROUP_SIZE + lid] =
                      MapThenSumSet(ChunkTotal, {t \in Items : lid - scale(p) < t /\ t <= lid})

(* A work-item that has finished wrote the first positions of its cells,   *)
(* not counting what the rows behind the last block held.                  *)
OffsetsWritten ==
    \A w \in Warps : pc[w] > WritePhase =>
        \A a \in Cells : a % SCAN_WORK_GROUP_SIZE \in ItemsOf(w) =>
            histogram[a] = Offset(Rows, blocks, a \div RADIX, a % RADIX)

=============================================================================
