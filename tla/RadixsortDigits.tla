-------------------------- MODULE RadixsortDigits --------------------------
(***************************************************************************)
(* What one pass of the radix sort computes: the promises of the kernels   *)
(* of src/kernels/radixsort.cl.  Radixsort composes the passes from these  *)
(* operators; RadixsortReduce, RadixsortScan and RadixsortScatter show     *)
(* that the work-items of the kernels compute them.                        *)
(***************************************************************************)
EXTENDS Naturals, FiniteSets, FiniteSetsExt

\* The digit of a key that a pass sorts on.
Digit(key, firstBit, radix) == (key \div 2 ^ firstBit) % radix

\* The keys with indices in lo .. hi - 1, counted by digit.
Histogram(keys, lo, hi, firstBit, radix) ==
    [d \in 0 .. radix - 1 |->
        Cardinality({i \in lo .. hi - 1 : Digit(keys[i], firstBit, radix) = d})]

\* Column-wise exclusive scan: the first position of digit d of block b is
\* the number of keys with smaller digits, and with digit d in blocks
\* before b; the histograms of blocks from blocks on count as empty.
Offset(hist, blocks, b, d) ==
    MapThenSumSet(LAMBDA e : MapThenSumSet(LAMBDA a : hist[a][e], 0 .. blocks - 1),
                  0 .. d - 1)
    + MapThenSumSet(LAMBDA a : hist[a][d],
                    {a \in 0 .. b - 1 : a < blocks})

\* Where the key at index i of the block lo .. hi - 1 goes, if its digits
\* start at the positions offset.
Destination(keys, lo, offset, i, firstBit, radix) ==
    LET digit == Digit(keys[i], firstBit, radix)
    IN  offset[digit]
        + Cardinality({j \in lo .. i - 1 : Digit(keys[j], firstBit, radix) = digit})

=============================================================================
