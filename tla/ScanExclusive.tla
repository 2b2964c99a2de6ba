--------------------------- MODULE ScanExclusive ---------------------------
(***************************************************************************)
(* One work-group of the kernel scanExclusive of kernels/scan.cl, which    *)
(* scans its block tile by tile from the offset that scanExclusiveSmall    *)
(* computed.                                                               *)
(*                                                                         *)
(* A work-item runs from one synchronisation to the next in one step.  In  *)
(* the loops over scale that is a barrier only where the kernel cannot     *)
(* rely on WARP_SIZE_MEM work-items running in lockstep; below that size   *)
(* work-items wait for their own warp only.                                *)
(*                                                                         *)
(* The value of in[i] is the bag that holds i once; the offset holds       *)
(* Offset.  raw and reduced are the same local array, as in the code.      *)
(***************************************************************************)
EXTENDS Integers, Bags, SequencesExt

CONSTANTS
    Geometries,     \* [steps, warp, scale, tiles] to explore, see Init
    Totals          \* values of the argument total to explore

VARIABLES
    geometry,       \* SCAN_WORK_GROUP_SIZE = 2^steps, WARP_SIZE_MEM,
                    \* SCAN_WORK_SCALE and the number of tiles in a block
    total,          \* elements left from the start of the block
    inPlace,        \* whether out is the same buffer as in
    in, out,        \* global memory; out is unused when inPlace
    raw,            \* local memory, raw_reduced in the code
    priv, add,      \* private memory of each work-item
    offset,         \* private, only work-item 0's is up to date
    phase           \* number of segments each work-item has finished

vars == <<geometry, total, inPlace, in, out, raw, priv, add, offset, phase>>
fixed == <<geometry, total, inPlace>>

Offset == -1
Unit(a) == SetToBag({a})
Uninitialised == Unit(-2)

SCAN_WORK_GROUP_SIZE == 2 ^ geometry.steps
SCAN_WORK_SCALE == geometry.scale
WARP_SIZE_MEM == geometry.warp
Tile == SCAN_WORK_SCALE * SCAN_WORK_GROUP_SIZE
len == geometry.tiles * Tile

Items == 0 .. SCAN_WORK_GROUP_SIZE - 1
Local == 0 .. (IF SCAN_WORK_SCALE < 2 THEN 2 ELSE SCAN_WORK_SCALE)
                 * SCAN_WORK_GROUP_SIZE - 1
Addresses == 0 .. len - 1

-----------------------------------------------------------------------------
(***************************************************************************)
(* The body of the loop over tiles as a sequence of segments, each with    *)
(* the synchronisation that follows it.                                    *)
(***************************************************************************)
Segment(op, scale, sync) == [op |-> op, scale |-> scale, sync |-> sync]

\* Mutant: one more level of the loop relies on lockstep execution.
DownsweepSync_TooLate(scale) ==
    IF scale > WARP_SIZE_MEM THEN "barrier" ELSE "warp"

UpsweepSync(scale)   == IF scale > WARP_SIZE_MEM THEN "barrier" ELSE "warp"
DownsweepSync(scale) == IF scale >= WARP_SIZE_MEM THEN "barrier" ELSE "warp"

UpsweepSegments ==
    [k \in 1 .. geometry.steps |->
        LET scale == 2 ^ (geometry.steps - k)
        IN  Segment("upsweep", scale, UpsweepSync(scale))]

DownsweepSegments ==
    [k \in 1 .. geometry.steps |->
        LET scale == 2 ^ (k - 1)
        IN  Segment("downsweep", scale, DownsweepSync(scale))]

ReduceSync == "barrier"

Body ==
    <<Segment("load", 0, "barrier"),
      Segment("read", 0, "barrier"),
      Segment("reduce", 0, ReduceSync)>>
    \o UpsweepSegments
    \o <<Segment("exchange", 0, "none")>>
    \o DownsweepSegments
    \o <<Segment("take", 0, "barrier"),
         Segment("feed", 0, "barrier"),
         Segment("write", 0, "barrier")>>

End == geometry.tiles * Len(Body)

\* Segment p of the whole kernel and the tile it works on.
SegmentAt(p) == Body[(p % Len(Body)) + 1]
Start(p)     == (p \div Len(Body)) * Tile

Warp(l) == l \div WARP_SIZE_MEM

\* Work-item l may begin segment p: the work-items that the preceding
\* synchronisation covers have finished the segment before.
Synchronised(l, p) ==
    p > 0 =>
        CASE SegmentAt(p - 1).sync = "barrier" ->
                \A m \in Items : phase[m] >= p
          [] SegmentAt(p - 1).sync = "warp" ->
                \A m \in Items : Warp(m) = Warp(l) => phase[m] >= p
          [] OTHER -> TRUE

Init ==
    /\ geometry \in Geometries
    /\ total \in Totals
    /\ inPlace \in BOOLEAN
    /\ in = [i \in Addresses |-> Unit(i)]
    /\ out = [i \in Addresses |-> Uninitialised]
    /\ raw = [i \in Local |-> Uninitialised]
    /\ priv = [l \in Items |-> [i \in 0 .. SCAN_WORK_SCALE - 1 |-> Uninitialised]]
    /\ add = [l \in Items |-> Uninitialised]
    /\ offset = [l \in Items |-> Unit(Offset)]
    /\ phase = [l \in Items |-> 0]

-----------------------------------------------------------------------------
Run(l, op) ==
    /\ phase[l] < End
    /\ SegmentAt(phase[l]).op = op
    /\ Synchronised(l, phase[l])
    /\ phase' = [phase EXCEPT ![l] = @ + 1]
    /\ UNCHANGED fixed

\* The cells of a tile that work-item l loads and writes back.
Strided(l) == {l + i * SCAN_WORK_GROUP_SIZE : i \in 0 .. SCAN_WORK_SCALE - 1}

(* Coalesced load; past the end of the input a tile is filled with zeros.  *)
Load(l) ==
    /\ Run(l, "load")
    /\ raw' = [i \in Local |->
                  IF i \in Strided(l)
                  THEN LET addr == Start(phase[l]) + i
                       IN  IF addr < total THEN in[addr] ELSE EmptyBag
                  ELSE raw[i]]
    /\ UNCHANGED <<in, out, priv, add, offset>>

(* Each work-item's SCAN_WORK_SCALE contiguous elements, scanned.          *)
ReadPrivate(l) ==
    /\ Run(l, "read")
    /\ LET prefix[i \in 0 .. SCAN_WORK_SCALE - 1] ==
             IF i = 0 THEN raw[l * SCAN_WORK_SCALE]
             ELSE prefix[i - 1] (+) raw[l * SCAN_WORK_SCALE + i]
       IN  priv' = [priv EXCEPT ![l] = prefix]
    /\ UNCHANGED <<in, out, raw, add, offset>>

WriteReduced(l) ==
    /\ Run(l, "reduce")
    /\ raw' = [raw EXCEPT ![SCAN_WORK_GROUP_SIZE + l] = priv[l][SCAN_WORK_SCALE - 1]]
    /\ UNCHANGED <<in, out, priv, add, offset>>

Upsweep(l) ==
    /\ Run(l, "upsweep")
    /\ LET scale == SegmentAt(phase[l]).scale
           pos   == scale + l
       IN  raw' = IF l < scale
                  THEN [raw EXCEPT ![pos] = raw[2 * pos] (+) raw[2 * pos + 1]]
                  ELSE raw
    /\ UNCHANGED <<in, out, priv, add, offset>>

(* Work-item 0 replaces the total of the tile by the offset and adds the   *)
(* total to the offset of the next tile.                                   *)
Exchange(l) ==
    /\ Run(l, "exchange")
    /\ IF l = 0
       THEN /\ raw' = [raw EXCEPT ![1] = offset[0]]
            /\ offset' = [offset EXCEPT ![0] = @ (+) raw[1]]
       ELSE UNCHANGED <<raw, offset>>
    /\ UNCHANGED <<in, out, priv, add>>

Downsweep(l) ==
    /\ Run(l, "downsweep")
    /\ LET scale == SegmentAt(phase[l]).scale
           pos   == scale + l
       IN  raw' = IF l < scale
                  THEN [raw EXCEPT ![2 * pos + 1] = raw[pos] (+) raw[2 * pos],
                                   ![2 * pos] = raw[pos]]
                  ELSE raw
    /\ UNCHANGED <<in, out, priv, add, offset>>

TakeReduced(l) ==
    /\ Run(l, "take")
    /\ add' = [add EXCEPT ![l] = raw[SCAN_WORK_GROUP_SIZE + l]]
    /\ UNCHANGED <<in, out, raw, priv, offset>>

(* The private sums, made exclusive, go back to local memory.              *)
FeedBack(l) ==
    /\ Run(l, "feed")
    /\ raw' = [i \in Local |->
                  LET j == i - l * SCAN_WORK_SCALE
                  IN  CASE j = 0 -> add[l]
                        [] j \in 1 .. SCAN_WORK_SCALE - 1 -> priv[l][j - 1] (+) add[l]
                        [] OTHER -> raw[i]]
    /\ UNCHANGED <<in, out, priv, add, offset>>

\* The cells of a buffer after work-item l has written its part of a tile.
Written(buffer, l) ==
    [a \in Addresses |->
        LET i == a - Start(phase[l])
        IN  IF i \in Strided(l) /\ a < total THEN raw[i] ELSE buffer[a]]

WriteBack(l) ==
    /\ Run(l, "write")
    /\ IF inPlace
       THEN in' = Written(in, l) /\ UNCHANGED out
       ELSE out' = Written(out, l) /\ UNCHANGED in
    /\ UNCHANGED <<raw, priv, add, offset>>

Finished == \A l \in Items : phase[l] = End

\* Only a finished work-group may stop.
Terminated == Finished /\ UNCHANGED vars

Next ==
    \/ \E l \in Items :
          \/ Load(l) \/ ReadPrivate(l) \/ WriteReduced(l) \/ Upsweep(l)
          \/ Exchange(l) \/ Downsweep(l) \/ TakeReduced(l) \/ FeedBack(l)
          \/ WriteBack(l)
    \/ Terminated

Spec == Init /\ [][Next]_vars

-----------------------------------------------------------------------------
\* A sum of elements and the offset, each counted at most once.
IsSum(b) ==
    /\ BagToSet(b) \subseteq Addresses \union {Offset}
    /\ \A e \in BagToSet(b) : b[e] = 1

(* The types; in particular no value is computed from local or private     *)
(* memory that was not written before, and none counts an element twice.   *)
TypeOK ==
    /\ geometry \in Geometries
    /\ \A i \in Local : raw[i] = Uninitialised \/ IsSum(raw[i])
    /\ \A i \in Addresses :
          /\ IsSum(in[i])
          /\ out[i] = Uninitialised \/ IsSum(out[i])
    /\ \A l \in Items :
          /\ add[l] = Uninitialised \/ IsSum(add[l])
          /\ IsSum(offset[l])
    /\ phase \in [Items -> 0 .. End]

Result == IF inPlace THEN in ELSE out

(* scan.cl:283: when the work-group is done, every element of the block is *)
(* the offset plus the elements before it in the block, in any order of    *)
(* work-items that the barriers and warps allow, in place or not; cells    *)
(* past the end of the input are left alone.                               *)
BlockScanned ==
    Finished =>
        \A a \in Addresses :
            Result[a] = IF a < total
                        THEN SetToBag((0 .. a - 1) \union {Offset})
                        ELSE IF inPlace THEN Unit(a) ELSE Uninitialised

=============================================================================
