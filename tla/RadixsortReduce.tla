-------------------------- MODULE RadixsortReduce --------------------------
(***************************************************************************)
(* One work-group of the kernel radixsortReduce (src/kernels/radixsort.cl),*)
(* which counts the digits of the keys of a block.  WarpSize work-items    *)
(* run in lock step; there is a barrier after every phase.                 *)
(***************************************************************************)
EXTENDS Utils, Integers, RadixsortDigits

CONSTANTS
    RADIX, REDUCE_WORK_GROUP_SIZE, WarpSize,
    Uint,       \* 2^32 in the kernel: uint is taken modulo this
    Inputs      \* [keys, group, len, total, firstBit]

Items == 0 .. REDUCE_WORK_GROUP_SIZE - 1
Warps == 0 .. REDUCE_WORK_GROUP_SIZE \div WarpSize - 1
ItemsOf(w) == {lid \in Items : lid \div WarpSize = w}
Digits == 0 .. RADIX - 1

ratio == REDUCE_WORK_GROUP_SIZE \div RADIX
digit(lid) == lid \div ratio
c(lid) == lid % ratio

\* 2 ^ levels is ratio, REDUCE_WORK_GROUP_SIZE being a power of two.
levels == CHOOSE n \in Items : 2 ^ n = ratio
\* Phases: 0 count, 1 sum, 2 store, 3 .. levels + 2 reduce, then write.
WritePhase == levels + 3

VARIABLES
    input,  \* the member of Inputs, fixed
    pc,     \* the phase each warp runs next
    hist,   \* local memory
    sum,    \* a private variable of each work-item
    out     \* the block's row of the output, Digits -> counts

Garbage == -1   \* what memory holds before it is written

vars == <<input, pc, hist, sum, out>>

base == (input.group * input.len) % Uint
end  == MinOf((base + input.len) % Uint, input.total)

Init ==
    /\ input \in Inputs
    /\ pc = [w \in Warps |-> 0]
    /\ hist = [d \in Digits |-> [lid \in Items |-> Garbage]]
    /\ sum = [lid \in Items |-> 0]
    /\ out = [d \in Digits |-> Garbage]

\* Mutant: the barrier before the results are written is missing.
Arrived_NotLast(w) ==
    pc[w] <= WritePhase /\ (pc[w] = WritePhase \/ \A v \in Warps : pc[v] >= pc[w])

\* All the warps have passed the barrier before the phase that w runs next.
Arrived(w) == pc[w] <= WritePhase /\ \A v \in Warps : pc[v] >= pc[w]

\* The keys that a work-item counts, if the loop variable does not wrap around
\* behind the last of them.
Mine(lid) == {i \in base .. end - 1 : (i - base) % REDUCE_WORK_GROUP_SIZE = lid}

Count(w) ==
    /\ pc[w] = 0
    /\ hist' = [d \in Digits |-> [lid \in Items |->
          IF lid \in ItemsOf(w)
          THEN Cardinality({i \in Mine(lid) : Digit(input.keys[i], input.firstBit, RADIX) = d})
          ELSE hist[d][lid]]]
    /\ UNCHANGED <<sum, out>>

Sum(w) ==
    /\ pc[w] = 1
    /\ sum' = [lid \in Items |->
          IF lid \in ItemsOf(w)
          THEN MapThenSumSet(LAMBDA i : hist[digit(lid)][i * ratio + c(lid)], Digits)
          ELSE sum[lid]]
    /\ UNCHANGED <<hist, out>>

\* hist with the sums s of the given work-items.
Stored(s, lids) ==
    [d \in Digits |-> [k \in Items |->
        IF \E lid \in lids : digit(lid) = d /\ c(lid) = k
        THEN s[d * ratio + k] ELSE hist[d][k]]]

Store(w) ==
    /\ pc[w] = 2
    /\ hist' = Stored(sum, ItemsOf(w))
    /\ UNCHANGED <<sum, out>>

scale(p) == ratio \div 2 ^ (p - 2)

Reduce(w) ==
    /\ pc[w] \in 3 .. WritePhase - 1
    /\ sum' = [lid \in Items |->
          IF lid \in ItemsOf(w) /\ c(lid) < scale(pc[w])
          THEN sum[lid] + hist[digit(lid)][c(lid) + scale(pc[w])] ELSE sum[lid]]
    /\ hist' = Stored(sum', {lid \in ItemsOf(w) : c(lid) < scale(pc[w])})
    /\ UNCHANGED out

Write(w) ==
    /\ pc[w] = WritePhase
    /\ out' = [d \in Digits |-> IF d \in ItemsOf(w) THEN hist[d][0] ELSE out[d]]
    /\ UNCHANGED <<hist, sum>>

Step(w) ==
    /\ Arrived(w)
    /\ Count(w) \/ Sum(w) \/ Store(w) \/ Reduce(w) \/ Write(w)
    /\ pc' = [pc EXCEPT ![w] = @ + 1]
    /\ UNCHANGED input

Terminated == (\A w \in Warps : pc[w] > WritePhase) /\ UNCHANGED vars

Next == (\E w \in Warps : Step(w)) \/ Terminated

Spec == Init /\ [][Next]_vars

-----------------------------------------------------------------------------
(* Types; a work-item never adds up cells that nobody has written yet.     *)
TypeOK ==
    /\ pc \in [Warps -> 0 .. WritePhase + 1]
    /\ hist \in [Digits -> [Items -> Nat \union {Garbage}]]
    /\ sum \in [Items -> Nat]
    /\ out \in [Digits -> Nat \union {Garbage}]

\* The histogram of the block, without wrapping around.
Counts ==
    Histogram(input.keys, input.group * input.len,
              MinOf((input.group + 1) * input.len, input.total), input.firstBit, RADIX)

(* At every barrier each key of the block is counted once: the cells that  *)
(* later phases read, fewer after every phase, add up to the histogram.    *)
CountsPreserved ==
    \A p \in {1, 3} \union 4 .. WritePhase :
        (\A w \in Warps : pc[w] = p) =>
            LET cells == CASE p = 1 -> Items
                           [] p = 3 -> 0 .. ratio - 1
                           [] p > 3 -> 0 .. scale(p - 1) - 1
            IN  \A d \in Digits : MapThenSumSet(LAMBDA k : hist[d][k], cells) = Counts[d]

(* A work-item that has finished wrote the count of its digit, whatever    *)
(* the others are doing, for a block that is not full or past the end too. *)
HistogramWritten ==
    \A w \in Warps : pc[w] > WritePhase =>
        \A d \in ItemsOf(w) \intersect Digits : out[d] = Counts[d]

=============================================================================
