------------------------------ MODULE MCKernels ------------------------------
(***************************************************************************)
(* The kernels of scan.cl and radixsort.cl, one at a time, for TLC: kernel *)
(* is the one that runs.  Variables of the same name are shared by the     *)
(* modules; those that a kernel does not have are None.                    *)
(***************************************************************************)
EXTENDS Integers, Sequences, ScanKernels

VARIABLES
    input, hist, sum, offset,               \* of several kernels
    geometry, total, inPlace, in, raw, priv, add,
    start, blocks, histogram, prev,
    config, mem, bias, digits, shuf, wgKeys, level0, l1addr, digitCount, outKeys, outValues

ofExclusive == <<geometry, total, inPlace, in, raw, priv, add>>
ofScan == <<start, blocks, histogram, prev>>
ofScatter == <<config, mem, bias, digits, shuf, wgKeys, level0, l1addr, digitCount,
               outKeys, outValues>>
vars == <<kernelVars, input, hist, sum, offset, ofExclusive, ofScan, ofScatter>>

-----------------------------------------------------------------------------
(* Kernels of scan.cl.                                                     *)
MCSizes == [wgs : {1, 2, 4, 8}, tiles : {1, 3}, group : {0, 2}]

\* What the proofs assume of these.
ASSUME KernelsSupported == Small!Supported /\ Summed!Supported

\* Work-groups of one work-item, of one warp, of two and of four warps, with
\* and without a private range; two tiles where that is cheap.
Geometries ==
    {[steps |-> 0, warp |-> 1, scale |-> 2, tiles |-> 2],
     [steps |-> 1, warp |-> 1, scale |-> 1, tiles |-> 2],
     [steps |-> 2, warp |-> 1, scale |-> 2, tiles |-> 1],
     [steps |-> 2, warp |-> 2, scale |-> 1, tiles |-> 2],
     [steps |-> 2, warp |-> 4, scale |-> 2, tiles |-> 1],
     [steps |-> 3, warp |-> 4, scale |-> 1, tiles |-> 1]}
Exclusive == INSTANCE ScanExclusive WITH Totals <- {3, 6}

(* Kernels of radixsort.cl.                                                *)

\* Three blocks of nine keys, the second one not full and the third empty; the
\* length is not a multiple of the work-group size.  A block of two rounds.
Block(group, len, n) ==
    [keys |-> [k \in 0 .. 20 |-> (7 * k * k + 3 * k) % 16],
     group |-> group, len |-> len, total |-> n, firstBit |-> 2]
Reduce == INSTANCE RadixsortReduce WITH
    RADIX <- 4, REDUCE_WORK_GROUP_SIZE <- 16, WarpSize <- 2, Uint <- 64,
    Inputs <- {Block(0, 9, 14), Block(1, 9, 14), Block(2, 9, 14), Block(0, 20, 20)}

\* Counts that are all different, and mostly zeroes.
Scan == INSTANCE RadixsortScan WITH
    RADIX <- 4, SCAN_BLOCKS <- 6, SCAN_WORK_GROUP_SIZE <- 8, WarpSize <- 1,
    BlockCounts <- {1, 5, 6}, sums <- partials,
    Histograms <- {[a \in 0 .. 23 |-> a * a + 1],
                   [a \in 0 .. 23 |-> IF a % 5 = 2 THEN 3 ELSE 0]}

\* Slices with a barrier, slices in one warp, a slice larger than RADIX,
\* the largest tile that the counters allow and one that is too large.
Configs ==
    {[radix |-> 4, slice |-> 4, scale |-> 1, warp |-> 1],
     [radix |-> 4, slice |-> 4, scale |-> 3, warp |-> 2],
     [radix |-> 4, slice |-> 4, scale |-> 2, warp |-> 8],
     [radix |-> 4, slice |-> 8, scale |-> 1, warp |-> 2],
     [radix |-> 4, slice |-> 4, scale |-> 4, warp |-> 4],
     [radix |-> 8, slice |-> 8, scale |-> 1, warp |-> 2]}

\* All keys alike, all with the digit of the padding, descending, mixed;
\* blocks that are full, not full, empty, and not a multiple of the tile.
Keys(F(_), n) == [k \in 0 .. n - 1 |-> F(k)]
ScatterInputs ==
    {[keys |-> Keys(LAMBDA k : 5, 20), total |-> 20, len |-> 20, block |-> 0, firstBit |-> 0],
     [keys |-> Keys(LAMBDA k : 15, 7), total |-> 7, len |-> 8, block |-> 0, firstBit |-> 2],
     [keys |-> Keys(LAMBDA k : 13 - k, 14), total |-> 14, len |-> 6, block |-> 1, firstBit |-> 0],
     [keys |-> Keys(LAMBDA k : (7 * k * k) % 16, 9), total |-> 9, len |-> 8, block |-> 1, firstBit |-> 2],
     [keys |-> Keys(LAMBDA k : (5 * k + 3) % 16, 13), total |-> 13, len |-> 12, block |-> 0, firstBit |-> 2],
     [keys |-> Keys(LAMBDA k : 1, 4), total |-> 4, len |-> 4, block |-> 1, firstBit |-> 0]}
Scatter == INSTANCE RadixsortScatter WITH
    Byte <- 16, Uint <- 32, KEY_MAX <- 15, Inputs <- ScatterInputs

-----------------------------------------------------------------------------
NoPC == pc = None
NoOut == out = None
NoHist == hist = None /\ sum = None
NoScanVars == SCAN_BLOCKS = None /\ inout = None /\ v = None /\ scale = None /\ size = None
NoPhase == phase = None
NoPartials == partials = None
NoInput == input = None
NoOffset == offset = None
NoExclusive == /\ geometry = None /\ total = None /\ inPlace = None /\ in = None
               /\ raw = None /\ priv = None /\ add = None
NoScan == start = None /\ blocks = None /\ histogram = None /\ prev = None
NoScatter == /\ config = None /\ mem = None /\ bias = None /\ digits = None
             /\ shuf = None /\ wgKeys = None /\ level0 = None /\ l1addr = None
             /\ digitCount = None /\ outKeys = None /\ outValues = None

Init ==
    \/ KernelInit /\ NoInput /\ NoHist /\ NoOffset /\ NoExclusive /\ NoScan /\ NoScatter
    \/ /\ kernel = "scanExclusive" /\ Exclusive!Init /\ NoScanVars
       /\ NoPC /\ NoPartials /\ NoInput /\ NoHist /\ NoScan /\ NoScatter
    \/ /\ kernel = "radixsortReduce" /\ Reduce!Init /\ NoScanVars
       /\ NoPhase /\ NoPartials /\ NoOffset /\ NoExclusive /\ NoScan /\ NoScatter
    \/ /\ kernel = "radixsortScan" /\ Scan!Init /\ NoScanVars
       /\ NoPhase /\ NoOut /\ NoInput /\ NoOffset /\ NoExclusive /\ NoScatter
    \/ /\ kernel = "radixsortScatter" /\ Scatter!Init /\ NoScanVars
       /\ NoPhase /\ NoPartials /\ NoOut /\ NoHist /\ NoExclusive /\ NoScan

ofScanVars == <<SCAN_BLOCKS, inout, v, scale, size>>

Next ==
    \/ KernelNext /\ UNCHANGED <<input, hist, sum, offset, ofExclusive, ofScan, ofScatter>>
    \/ /\ UNCHANGED <<kernel, ofScanVars>>
       /\ \/ /\ kernel = "scanExclusive" /\ Exclusive!Next
             /\ UNCHANGED <<pc, partials, input, hist, sum, ofScan, ofScatter>>
          \/ /\ kernel = "radixsortReduce" /\ Reduce!Next
             /\ UNCHANGED <<phase, partials, offset, ofExclusive, ofScan, ofScatter>>
          \/ /\ kernel = "radixsortScan" /\ Scan!Next
             /\ UNCHANGED <<phase, out, input, offset, ofExclusive, ofScatter>>
          \/ /\ kernel = "radixsortScatter" /\ Scatter!Next
             /\ UNCHANGED <<phase, partials, out, hist, sum, ofExclusive, ofScan>>

Spec == Init /\ [][Next]_vars

-----------------------------------------------------------------------------
(* What each kernel computes.  TypeOK says in each of them also that the   *)
(* cells of local memory that are used have been written.                  *)

(* scanExclusive leaves the exclusive scan of its block, although barriers *)
(* are dropped below the warp size.                                        *)
BlockScanned == kernel = "scanExclusive" => Exclusive!TypeOK /\ Exclusive!BlockScanned

(* radixsortReduce counts each key of the block once at every barrier and  *)
(* writes the histogram of the block.                                      *)
HistogramWritten ==
    kernel = "radixsortReduce" =>
        Reduce!TypeOK /\ Reduce!CountsPreserved /\ Reduce!HistogramWritten

(* radixsortScan keeps the steps of its prefix sum in place apart, and     *)
(* writes the first position of each digit of each block.                  *)
OffsetsWritten ==
    kernel = "radixsortScan" => Scan!TypeOK /\ Scan!PrefixSums /\ Scan!OffsetsWritten

(* radixsortScatter sorts a tile with counters that do not overflow, and   *)
(* never writes a key or a value to a wrong position.                      *)
WritesCorrect ==
    kernel = "radixsortScatter" =>
        Scatter!TypeOK /\ Scatter!ShuffleSorts /\ Scatter!WritesCorrect

(* radixsortScatter writes every pair of the block, in spite of padding.   *)
AllWritten == kernel = "radixsortScatter" => Scatter!AllWritten

=============================================================================
