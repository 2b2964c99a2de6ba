------------------------------ MODULE TuneStages ------------------------------
(***************************************************************************)
(* Reduce::tune, Scan::tune and Radixsort::tune (src/reduce.cpp, scan.cpp, *)
(* radixsort.cpp): parameters are tuned in stages, each of which makes     *)
(* candidates from what the stages before it have selected.                *)
(*                                                                         *)
(* tuneOne returns some candidate that worked, or throws (module Tune).  A *)
(* candidate can work only if its kernels build for the device; whether    *)
(* one that builds works, and how fast, is left open.                      *)
(***************************************************************************)
EXTENDS Utils, Integers, FiniteSets

CONSTANTS
    Devices,    \* [maxWorkGroupSize, localMem, warpSize, computeUnits]
    Sizes       \* for each algorithm [key, value]: sizes of keys or elements, and values

\* A warp has at most 64 work-items, and the memory and the work-groups that
\* a device reports are small enough for Doubling.
Supported ==
    /\ Devices \subseteq [maxWorkGroupSize : Nat \ {0}, localMem : Nat,
                          warpSize : {1, 2, 4, 8, 16, 32, 64}, computeUnits : Nat \ {0}]
    /\ \A d \in Devices : /\ d.maxWorkGroupSize <= 65536
                          /\ 16 * 1024 <= d.localMem /\ d.localMem <= 4096 * 1024
    /\ \A a \in {"reduce", "scan", "radixsort"} : Sizes[a] \subseteq [key : 1 .. 128, value : 0 .. 128]
    /\ \A s \in Sizes["radixsort"] : s.key <= 8

VARIABLES
    algorithm,  \* "reduce", "scan" or "radixsort"
    device, size,
    stage,      \* the stages that are done
    cand,       \* the parameters so far
    status      \* "running", "returned", "uninitialized", or "TuneError" for
                \* any exception

stagesVars == <<algorithm, device, size, stage, cand, status>>

maxWorkGroupSize == device.maxWorkGroupSize
localMemElements == device.localMem \div size.key

Powers == {1, 2, 4, 8, 16, 32, 64, 128, 256, 512, 1024, 2048, 4096, 8192, 16384, 32768, 65536}

\* start, 2 * start, ... <= limit
Doubling(start, limit) == {start * q : q \in Powers} \cap 1 .. limit
IsPower2(n) == n \in Powers

Even(n) == n - (n % 2)
radix == 16
slice == MaxOf(device.warpSize, radix)      \* scatterSlice

-----------------------------------------------------------------------------
(* Reduce::tune.                                                           *)
ReduceSets ==
    IF stage = 0
    THEN {[reduceWorkGroupSize |-> w, reduceBlocks |-> 16 * device.computeUnits] :
             w \in Doubling(1, MinOf(maxWorkGroupSize, localMemElements))}
    ELSE {[cand EXCEPT !.reduceBlocks = 4 * n * device.computeUnits] : n \in 1 .. 16}

\* Local memory holds sums, and done in one byte.
ReduceBuilds(p) ==
    /\ p.reduceWorkGroupSize <= maxWorkGroupSize
    /\ p.reduceWorkGroupSize * size.key + 1 <= device.localMem

-----------------------------------------------------------------------------
(* Scan::tune.                                                             *)
scanMaxBlocks == Even(MinOf(2 * maxWorkGroupSize, localMemElements))

\* Mutant: the first number of blocks may be zero.
scanStartBlocks_Half == Even(scanMaxBlocks \div 2)

scanStartBlocks == Even(MaxOf(2, scanMaxBlocks \div 2))

ScanSets ==
    CASE stage = 0 ->
            {[reduceWorkGroupSize |-> w, scanWorkGroupSize |-> 1, scanWorkScale |-> 1,
              scanBlocks |-> scanStartBlocks] : w \in Doubling(1, maxWorkGroupSize)}
      [] stage = 1 ->
            UNION {{[cand EXCEPT !.scanWorkGroupSize = w, !.scanWorkScale = s] :
                       s \in Doubling(1, MinOf(localMemElements \div w, 16))} :
                   w \in Doubling(1, maxWorkGroupSize)}
      [] stage = 2 -> {[cand EXCEPT !.scanBlocks = b] : b \in Doubling(2, scanMaxBlocks)}

ScanBuilds(p) ==
    /\ p.scanBlocks % 2 = 0
    /\ \A w \in {p.reduceWorkGroupSize, p.scanWorkGroupSize, p.scanBlocks \div 2} :
          w \in 1 .. maxWorkGroupSize
    /\ \A n \in {p.reduceWorkGroupSize, p.scanBlocks,
                 MaxOf(2, p.scanWorkScale) * p.scanWorkGroupSize} : n <= localMemElements

-----------------------------------------------------------------------------
(* Radixsort::tune, for the only value of radixBits.                       *)
scanWorkGroupSize == 4 * radix
maxBlocks == ((device.localMem \div 4) - 2 * scanWorkGroupSize) \div radix
startBlocks == roundDown(maxBlocks \div 2, scanWorkGroupSize \div radix)
slicesPerWorkGroup(p) == p.scatterWorkGroupSize \div slice

\* Mutant: the number of blocks is not a multiple of slicesPerWorkGroup.
ScatterBlocks_NotRounded(w) == startBlocks

ScatterBlocks(w) == roundDown(startBlocks, w \div slice)

\* Block counts that are powers of two, multiples of computeUnits, the limit.
BlockCounts ==
    LET slices == slicesPerWorkGroup(cand)
        limit == roundDown(roundDown(maxBlocks, slices), cand.scatterWorkGroupSize \div radix)
        least == scanWorkGroupSize \div radix
    IN  Doubling(MaxOf(least, slices), limit)
        \cup {b \in {roundDown(n, slices) : n \in Doubling(device.computeUnits, limit)} :
                 b >= least}
        \cup {limit}

RadixsortSets ==
    CASE stage = 0 ->
            {[reduceWorkGroupSize |-> w, scanBlocks |-> startBlocks,
              scatterWorkGroupSize |-> slice, scatterWorkScale |-> 1] :
                 w \in Doubling(radix, maxWorkGroupSize)}
      [] stage = 1 ->
            {[cand EXCEPT !.scanBlocks = ScatterBlocks(w), !.scatterWorkGroupSize = w,
                          !.scatterWorkScale = s] :
                 w \in Doubling(slice, maxWorkGroupSize), s \in 1 .. 255 \div slice}
      [] stage = 2 -> {[cand EXCEPT !.scanBlocks = b] : b \in BlockCounts}

\* The size of ScatterData, with what aligns its parts: a union of counters and
\* values, bias, digits and shuf, and the keys.
ScatterData(p) ==
    LET tile == slice * p.scatterWorkScale
        hist == MaxOf(slice * radix + 2 * slice, tile * size.value)
        keys == roundUp(roundUp(hist, MaxOf(4, size.value)) + 4 * radix + 2 * tile, size.key)
    IN  roundUp(keys + size.key * tile, MaxOf(4, MaxOf(size.key, size.value)))

\* The conditions of radixsort.cl, and a histogram buffer that is not empty.
RadixsortBuilds(p) ==
    /\ p.scanBlocks > 0
    /\ (p.scanBlocks * radix) % scanWorkGroupSize = 0
    /\ IsPower2(p.reduceWorkGroupSize) /\ p.reduceWorkGroupSize >= radix
    /\ IsPower2(p.scatterWorkGroupSize) /\ p.scatterWorkGroupSize % slice = 0
    /\ slice * p.scatterWorkScale < 256
    /\ \A w \in {p.reduceWorkGroupSize, scanWorkGroupSize, p.scatterWorkGroupSize} :
          w <= maxWorkGroupSize
    /\ \A n \in {4 * radix * p.reduceWorkGroupSize,
                 4 * (p.scanBlocks * radix + 2 * scanWorkGroupSize),
                 slicesPerWorkGroup(p) * ScatterData(p)} : n <= device.localMem

-----------------------------------------------------------------------------
Stages == IF algorithm = "reduce" THEN 2 ELSE 3

TooSmall == algorithm = "radixsort" /\ maxWorkGroupSize < radix

Sets == CASE algorithm = "reduce" -> ReduceSets
          [] algorithm = "scan" -> ScanSets
          [] algorithm = "radixsort" -> RadixsortSets

Builds(p) == CASE algorithm = "reduce" -> ReduceBuilds(p)
               [] algorithm = "scan" -> ScanBuilds(p)
               [] algorithm = "radixsort" -> RadixsortBuilds(p)

StagesInit ==
    /\ algorithm \in {"reduce", "scan", "radixsort"}
    /\ device \in Devices /\ size \in Sizes[algorithm]
    /\ stage = 0
    /\ cand = <<>>
    /\ status = "running"

\* break leaves the loop before status is assigned.
Break ==
    /\ status = "running" /\ stage = 0 /\ TooSmall
    /\ status' = "uninitialized"
    /\ UNCHANGED <<algorithm, device, size, stage, cand>>

tuneOne ==
    /\ status = "running" /\ stage < Stages /\ ~TooSmall
    /\ \/ /\ \E p \in Sets : Builds(p) /\ cand' = p
          /\ stage' = stage + 1
          /\ status' = IF stage' = Stages THEN "returned" ELSE status
       \/ status' = "TuneError" /\ UNCHANGED <<stage, cand>>
    /\ UNCHANGED <<algorithm, device, size>>

StagesNext == Break \/ tuneOne

StagesSpec == StagesInit /\ [][StagesNext]_stagesVars

-----------------------------------------------------------------------------
(* The assertion of Radixsort::getBlocks holds when the candidates that    *)
(* build are tested, and for the object that is constructed: scanBlocks    *)
(* leaves room for a number of blocks that is rounded up to whole          *)
(* work-groups.  (It would end the process, not drop the candidate.)       *)
BlocksAligned ==
    status = "running" /\ algorithm = "radixsort" /\ ~TooSmall =>
        \A p \in Sets : Builds(p) => p.scanBlocks % slicesPerWorkGroup(p) = 0

\* The callbacks of Reduce and Scan divide by the number of blocks before
\* they construct anything: no candidate has zero.
NoDivisionByZero ==
    status = "running" =>
        /\ algorithm = "reduce" => \A p \in ReduceSets : p.reduceBlocks * p.reduceWorkGroupSize > 0
        /\ algorithm = "scan" =>
              \A p \in ScanSets : p.scanBlocks * p.scanWorkGroupSize * p.scanWorkScale > 0

\* Each stage has a candidate that can be built, whatever was selected before.
CanBuild ==
    status = "running" /\ ~TooSmall /\ (algorithm = "radixsort" => maxWorkGroupSize >= scanWorkGroupSize)
        => \E p \in Sets : Builds(p)

(* Tuning never runs out of candidates: each stage of a tune function has  *)
(* one that builds, whatever was selected before, and no callback divides  *)
(* by zero.                                                                *)
CanTune == NoDivisionByZero /\ CanBuild

(* A configuration that cannot be tuned is reported as a TuneError: tune   *)
(* never returns parameters that nothing has assigned.                     *)
ReturnsTuned == status # "uninitialized"

=============================================================================
