----------------------------- MODULE ScanSmall -----------------------------
(***************************************************************************)
(* The kernels scanExclusiveSmall and scanExclusiveSmallOffset of          *)
(* kernels/scan.cl: one work-group of SCAN_BLOCKS / 2 work-items scans the *)
(* SCAN_BLOCKS block sums in place, starting from an offset.  SCAN_BLOCKS  *)
(* is even and need not be a power of two.                                 *)
(*                                                                         *)
(* A work-item runs from barrier to barrier in one step.  The value of     *)
(* cell i of inout is the bag that holds i once, the offset the bag that   *)
(* holds Offset.                                                           *)
(***************************************************************************)
EXTENDS Integers, Bags

CONSTANT BlockCounts    \* values of SCAN_BLOCKS to explore

\* The preconditions of the kernels.
Supported == \A n \in BlockCounts : n \in Nat /\ n >= 2 /\ n % 2 = 0

VARIABLES
    SCAN_BLOCKS,    \* fixed when the program is built
    inout,          \* global memory: the sums buffer
    v,              \* local memory
    pc,             \* the segment that each work-item runs next
    scale,          \* of each work-item, in the two loops
    phase           \* number of barriers each work-item has reached

vars == <<SCAN_BLOCKS, inout, v, pc, scale, phase>>

Offset == -1
Unit(a) == SetToBag({a})
Uninitialised == Unit(-2)

wgs   == SCAN_BLOCKS \div 2
Items == 0 .. wgs - 1
Cells == 0 .. SCAN_BLOCKS - 1

Init ==
    /\ SCAN_BLOCKS \in BlockCounts
    /\ inout = [i \in Cells |-> Unit(i)]
    /\ v = [i \in Cells |-> Uninitialised]
    /\ pc = [l \in Items |-> "load"]
    /\ scale = [l \in Items |-> 1]
    /\ phase = [l \in Items |-> 0]

\* Mutant: no barrier in the upsweep loop.
BarrierPassed_NotInUpsweep(l) ==
    \/ pc[l] = "up" /\ scale[l] > 1
    \/ pc[l] = "down" /\ 2 * scale[l] > wgs
    \/ \A m \in Items : phase[m] >= phase[l]

BarrierPassed(l) == \A m \in Items : phase[m] >= phase[l]

\* Work-item l runs a segment up to the next barrier.
Run(l, next, nextScale) ==
    /\ BarrierPassed(l)
    /\ phase' = [phase EXCEPT ![l] = @ + 1]
    /\ pc' = [pc EXCEPT ![l] = next]
    /\ scale' = [scale EXCEPT ![l] = nextScale]
    /\ UNCHANGED SCAN_BLOCKS

\* pos is doubled and halved along with scale.
pos(l) == (l + 1) * (2 * scale[l])

(* The copy to local memory, shifted by one.                               *)
Load(l) ==
    /\ pc[l] = "load"
    /\ Run(l, "up", 1)
    /\ v' = [v EXCEPT ![l] = IF l = 0 THEN Unit(Offset) ELSE inout[l - 1],
                      ![l + wgs] = inout[l + wgs - 1]]
    /\ UNCHANGED inout

(* An iteration of the upsweep; after the last one scale is that of the    *)
(* iteration again.                                                        *)
Upsweep(l) ==
    /\ pc[l] = "up"
    /\ IF 2 * scale[l] <= wgs THEN Run(l, "up", 2 * scale[l]) ELSE Run(l, "down", scale[l])
    /\ v' = IF pos(l) <= SCAN_BLOCKS
            THEN [v EXCEPT ![pos(l) - 1] = @ (+) v[pos(l) - scale[l] - 1]]
            ELSE v
    /\ UNCHANGED inout

(* An iteration of the downsweep.                                          *)
Downsweep(l) ==
    /\ pc[l] = "down"
    /\ IF scale[l] \div 2 >= 1 THEN Run(l, "down", scale[l] \div 2) ELSE Run(l, "write", 0)
    /\ v' = IF pos(l) <= SCAN_BLOCKS - scale[l]
            THEN [v EXCEPT ![pos(l) + scale[l] - 1] = @ (+) v[pos(l) - 1]]
            ELSE v
    /\ UNCHANGED inout

Writeback(l) ==
    /\ pc[l] = "write"
    /\ Run(l, "end", 0)
    /\ inout' = [inout EXCEPT ![l] = v[l], ![l + wgs] = v[l + wgs]]
    /\ UNCHANGED v

Finished == \A l \in Items : pc[l] = "end"

\* Only a finished work-group may stop: TLC reports a barrier that some
\* work-item waits for in vain as a deadlock.
Terminated == Finished /\ UNCHANGED vars

Next ==
    \/ \E l \in Items : Load(l) \/ Upsweep(l) \/ Downsweep(l) \/ Writeback(l)
    \/ Terminated

Spec == Init /\ [][Next]_vars

-----------------------------------------------------------------------------
\* A sum of cells and the offset, each counted at most once.
IsSum(b) ==
    /\ BagToSet(b) \subseteq Cells \union {Offset}
    /\ \A e \in BagToSet(b) : b[e] = 1

(* The types; in particular no value is computed from local memory that    *)
(* was not loaded before, and none counts a block twice.                   *)
TypeOK ==
    /\ SCAN_BLOCKS \in BlockCounts
    /\ DOMAIN inout = Cells /\ DOMAIN v = Cells
    /\ \A i \in Cells :
          /\ IsSum(inout[i])
          /\ v[i] = Uninitialised \/ IsSum(v[i])
    /\ pc \in [Items -> {"load", "up", "down", "write", "end"}]
    /\ scale \in [Items -> 0 .. wgs]
    /\ phase \in [Items -> Nat]

(* scan.cl:219: an exclusive prefix sum of all SCAN_BLOCKS values plus the *)
(* offset, for every even SCAN_BLOCKS and every order of work-items.       *)
ExclusiveScan ==
    Finished => \A i \in Cells : inout[i] = SetToBag(0 .. i - 1 \union {Offset})

=============================================================================
