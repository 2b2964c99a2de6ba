----------------------------- MODULE ScanReduce -----------------------------
(***************************************************************************)
(* One work-group of the kernel reduce of kernels/scan.cl, which sums a    *)
(* block of the input.  A work-item runs from barrier to barrier in one    *)
(* step.  As in ScanSmall, values are bags of the indices they sum up.     *)
(***************************************************************************)
EXTENDS Integers, Bags

CONSTANT Sizes      \* [wgs, tiles, group]: REDUCE_WORK_GROUP_SIZE, len in
                    \* units of it, and the id of the work-group

IS_POWER2(x) == x > 0 /\ \A d \in 1 .. x : x % d = 0 => d = 1 \/ d % 2 = 0

\* The preprocessor conditions and the precondition on len.
Supported == /\ Sizes \subseteq [wgs : Nat, tiles : Nat, group : Nat]
             /\ \A s \in Sizes : IS_POWER2(s.wgs)

VARIABLES
    size,       \* the member of Sizes, fixed
    sums,       \* local memory
    scale,      \* of each work-item; wgs before the loop over scale
    out         \* the cell of the output

vars == <<size, sums, scale, out>>

Items == 0 .. size.wgs - 1
len   == size.tiles * size.wgs
Uninitialised == SetToBag({-1})

Init ==
    /\ size \in Sizes
    /\ sums = [l \in Items |-> Uninitialised]
    /\ scale = [l \in Items |-> size.wgs]
    /\ out = Uninitialised

\* Mutant: there is no barrier below a scale of two.
BarrierPassed_NotBelowTwo(l) == scale[l] >= 2 => \A m \in Items : scale[m] <= scale[l]

BarrierPassed(l) == \A m \in Items : scale[m] <= scale[l]

Accumulate(l) ==
    /\ scale[l] = size.wgs
    /\ sums' = [sums EXCEPT ![l] =
          SetToBag({size.group * len + l + i * size.wgs : i \in 0 .. size.tiles - 1})]

Upsweep(l) ==
    /\ scale[l] < size.wgs /\ scale[l] >= 1
    /\ BarrierPassed(l)
    /\ sums' = IF l < scale[l] THEN [sums EXCEPT ![l] = @ (+) sums[l + scale[l]]] ELSE sums

\* scale = REDUCE_WORK_GROUP_SIZE / 2 or scale >>= 1; after the last iteration
\* work-item 0 writes the sum, without another barrier.
Step(l) ==
    /\ Accumulate(l) \/ Upsweep(l)
    /\ scale' = [scale EXCEPT ![l] = @ \div 2]
    /\ out' = IF l = 0 /\ scale'[l] = 0 THEN sums'[0] ELSE out
    /\ UNCHANGED size

Terminated == (\A l \in Items : scale[l] = 0) /\ UNCHANGED vars

Next == (\E l \in Items : Step(l)) \/ Terminated

Spec == Init /\ [][Next]_vars

-----------------------------------------------------------------------------
Block == size.group * len .. (size.group + 1) * len - 1

(* Types; a work-item never adds a cell that nobody has written yet, and   *)
(* no element is counted twice.                                            *)
TypeOK ==
    /\ scale \in [Items -> 0 .. size.wgs]
    /\ \A b \in {out} \union {sums[l] : l \in Items} :
          b # Uninitialised =>
              BagToSet(b) \subseteq Block /\ \A e \in BagToSet(b) : b[e] = 1

(* Work-item 0 has the sum of the whole block when it has run its last     *)
(* iteration, without a barrier and with the others still running.         *)
BlockSummed == scale[0] = 0 => out = SetToBag(Block)

=============================================================================
