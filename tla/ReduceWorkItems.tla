-------------------------- MODULE ReduceWorkItems --------------------------
(***************************************************************************)
(* The reduce kernel of kernels/reduce.cl, work-item by work-item.         *)
(*                                                                         *)
(* A work-item runs from barrier to barrier in one step; the work-items of *)
(* a group take these steps in any order, held together only by the        *)
(* barriers.  Between two barriers a work-item writes no cell that another *)
(* one reads or writes, which is what the checks here would refute.        *)
(* Work-item 0 goes on alone after each reduceRange: its accesses to       *)
(* global memory are steps of their own.                                   *)
(*                                                                         *)
(* Values are bags of input elements, so that adding is (+) and an element *)
(* lost or added twice shows.                                              *)
(***************************************************************************)
EXTENDS Integers, Bags, Functions

CONSTANTS
    Blocks, WGS, Uint, OutCells, Requests, MaxLaunches,   \* see ReduceKernel
    Steps          \* log2(WGS), the iterations of the loop over scale

ASSUME BlocksAssumption == Blocks \in Nat \ {0}
ASSUME StepsAssumption == Steps \in Nat /\ WGS \in Nat \ {0} /\ WGS = 2 ^ Steps

VARIABLES
    launch, request, running, pending, wgc,   \* as in ReduceKernel
    partial,    \* global memory: one bag per group
    issued,     \* the value each group last stored to partial
    out,        \* contents of the destination cells
    sums,       \* local memory: one bag per work-item of each group
    done,       \* local memory: one flag per group
    phase,      \* number of barrier-delimited segments each work-item finished
    leader      \* what work-item 0 of each group does next

itemVars == <<launch, request, running, pending, wgc, partial, issued, out,
              sums, done, phase, leader>>
localVars == <<sums, done, phase, leader>>

Groups == 0 .. Blocks - 1
Items  == 0 .. WGS - 1

\* A bag in which each element occurs once stands for a set of elements; any
\* other bag is mapped to a set no block sum is equal to.
AsSet(b) == IF IsABag(b) /\ \A e \in DOMAIN b : b[e] = 1
            THEN DOMAIN b
            ELSE {<<0, 1>>}

(***************************************************************************)
(* Segment 0 loads the block, segments 1..Steps halve the scale, Final     *)
(* tests done and loads the partial sums, the others halve the scale.      *)
(***************************************************************************)
Final == Steps + 1
End   == 2 * Steps + 2

\* The scale of the reduction step in segment p of either reduceRange.
Scale(p) == WGS \div 2 ^ (IF p < Final THEN p ELSE p - Final)

(***************************************************************************)
(* What this module implements.                                            *)
(***************************************************************************)
GroupPC(g) ==
    CASE phase[g][0] < Final /\ leader[g] \in {"segment", "store"} -> "range"
      [] phase[g][0] < Final /\ leader[g] = "count" -> "fence"
      [] phase[g][0] >= Final /\ ~done[g] -> "exit"
      [] phase[g][0] = End /\ done[g] -> "end"
      [] OTHER -> IF leader[g] = "segment" THEN "final" ELSE leader[g]

Finished == {g \in Groups : GroupPC(g) \in {"reset", "write", "end"}}

Kernel == INSTANCE ReduceKernel WITH
    gpc     <- [g \in Groups |-> GroupPC(g)],
    partial <- [g \in Groups |-> AsSet(partial[g])],
    acc     <- IF Finished = {} THEN SetToBag({<<0, 0>>})
               ELSE sums[CHOOSE g \in Finished : TRUE][0]

Uninitialised == SetToBag({Kernel!Garbage})

Init ==
    /\ launch = 0
    /\ request \in Requests
    /\ running = FALSE
    /\ pending = {}
    /\ wgc = Blocks
    /\ partial = [g \in Groups |-> Uninitialised]
    /\ issued = [g \in Groups |-> Uninitialised]
    /\ out = [c \in OutCells |-> Uninitialised]
    /\ sums = [g \in Groups |-> [l \in Items |-> Uninitialised]]
    /\ done = [g \in Groups |-> FALSE]
    /\ phase = [g \in Groups |-> [l \in Items |-> End]]
    /\ leader = [g \in Groups |-> "segment"]

-----------------------------------------------------------------------------
(* A launch: local memory starts with arbitrary contents.                  *)
Launch(r) ==
    /\ ~running
    /\ launch < MaxLaunches
    /\ launch' = launch + 1
    /\ request' = r
    /\ running' = TRUE
    /\ sums' = [g \in Groups |-> [l \in Items |-> Uninitialised]]
    /\ done' \in [Groups -> BOOLEAN]
    /\ phase' = [g \in Groups |-> [l \in Items |-> 0]]
    /\ leader' = [g \in Groups |-> "segment"]
    /\ UNCHANGED <<pending, wgc, partial, issued, out>>

\* Mutant: the barrier in the loop over scale is missing.
BarrierPassed_NotInLoop(g, l) ==
    phase[g][l] = Final => \A m \in Items : phase[g][m] >= phase[g][l]

\* Mutant: the barrier before done is tested is missing.
BarrierPassed_NotForDone(g, l) ==
    phase[g][l] # Final => \A m \in Items : phase[g][m] >= phase[g][l]

\* Every segment but the first starts with a barrier of the work-group.
BarrierPassed(g, l) == \A m \in Items : phase[g][m] >= phase[g][l]

\* Work-item l of group g can run its next segment.
CanRun(g, l) ==
    /\ phase[g][l] < End
    /\ l = 0 => leader[g] = "segment"
    /\ BarrierPassed(g, l)

\* End of a segment; after a reduceRange work-item 0 still has to publish.
FinishSegment(g, l) ==
    IF l = 0 /\ phase[g][l] \in {Steps, End - 1}
    THEN /\ leader' = [leader EXCEPT ![g] = IF phase[g][l] = Steps
                                            THEN "store" ELSE "reset"]
         /\ UNCHANGED phase
    ELSE /\ phase' = [phase EXCEPT ![g][l] = @ + 1]
         /\ UNCHANGED leader

SetSum(g, l, v) == sums' = [sums EXCEPT ![g][l] = v]

\* The indices i + lid that reduceRange visits in first .. last - 1.
Strided(first, last, l) == {i \in first .. last - 1 : (i - first) % WGS = l}

(* reduceRange on the input: accum over the strided elements of the block. *)
LoadBlock(g, l) ==
    /\ CanRun(g, l)
    /\ phase[g][l] = 0
    /\ SetSum(g, l,
              SetToBag({<<launch, Kernel!startArg + i>> :
                           i \in Strided(Kernel!First(g), Kernel!Last(g), l)}))
    /\ FinishSegment(g, l)
    /\ UNCHANGED <<launch, request, running, pending, wgc, partial, issued,
                   out, done>>

(* One iteration of the loop over scale.                                   *)
ReduceStep(g, l) ==
    /\ CanRun(g, l)
    /\ phase[g][l] \notin {0, Final}
    /\ LET scale == Scale(phase[g][l])
       IN  IF l < scale
           THEN SetSum(g, l, sums[g][l] (+) sums[g][l + scale])
           ELSE UNCHANGED sums
    /\ FinishSegment(g, l)
    /\ UNCHANGED <<launch, request, running, pending, wgc, partial, issued,
                   out, done>>

(* partial[group] = sums[0] by work-item 0, without a barrier before it.   *)
StorePartial(g) ==
    /\ leader[g] = "store"
    /\ issued' = [issued EXCEPT ![g] = sums[g][0]]
    /\ pending' = pending \union {g}
    /\ leader' = [leader EXCEPT ![g] = "count"]
    /\ UNCHANGED <<launch, request, running, wgc, partial, out, sums, done,
                   phase>>

(* The store becomes visible to the other work-groups.                     *)
Flush(g) ==
    /\ g \in pending
    /\ pending' = pending \ {g}
    /\ partial' = [partial EXCEPT ![g] = issued[g]]
    /\ UNCHANGED <<launch, request, running, wgc, issued, out, sums, done,
                   phase, leader>>

(* mem_fence, atomic_dec and the assignment to done by work-item 0.        *)
DecrementCounter(g) ==
    /\ leader[g] = "count"
    /\ g \notin pending
    /\ wgc' = wgc - 1
    /\ done' = [done EXCEPT ![g] = (wgc = 1)]
    /\ phase' = [phase EXCEPT ![g][0] = @ + 1]
    /\ leader' = [leader EXCEPT ![g] = "segment"]
    /\ UNCHANGED <<launch, request, running, pending, partial, issued, out,
                   sums>>

(* done is false: the work-item returns.                                   *)
Return(g, l) ==
    /\ CanRun(g, l)
    /\ phase[g][l] = Final
    /\ ~done[g]
    /\ phase' = [phase EXCEPT ![g][l] = End]
    /\ UNCHANGED <<launch, request, running, pending, wgc, partial, issued,
                   out, sums, done, leader>>

(* done is true: reduceRange on the partial sums.                          *)
LoadPartials(g, l) ==
    /\ CanRun(g, l)
    /\ phase[g][l] = Final
    /\ done[g]
    /\ SetSum(g, l, FoldFunctionOnSet(LAMBDA x, y : x (+) y, EmptyBag, partial,
                                      Strided(0, Blocks, l)))
    /\ FinishSegment(g, l)
    /\ UNCHANGED <<launch, request, running, pending, wgc, partial, issued,
                   out, done>>

(* *wgc = REDUCE_BLOCKS and out[outPos] = sums[0] by work-item 0.          *)
ResetCounter(g) ==
    /\ leader[g] = "reset"
    /\ wgc' = Blocks
    /\ leader' = [leader EXCEPT ![g] = "write"]
    /\ UNCHANGED <<launch, request, running, pending, partial, issued, out,
                   sums, done, phase>>

WriteOut(g) ==
    /\ leader[g] = "write"
    /\ out' = [out EXCEPT ![request.out] = sums[g][0]]
    /\ phase' = [phase EXCEPT ![g][0] = End]
    /\ leader' = [leader EXCEPT ![g] = "segment"]
    /\ UNCHANGED <<launch, request, running, pending, wgc, partial, issued,
                   sums, done>>

Complete ==
    /\ running
    /\ \A g \in Groups, l \in Items : phase[g][l] = End
    /\ pending = {}
    /\ running' = FALSE
    /\ UNCHANGED <<launch, request, pending, wgc, partial, issued, out,
                   localVars>>

ItemStep(g, l) ==
    LoadBlock(g, l) \/ ReduceStep(g, l) \/ Return(g, l) \/ LoadPartials(g, l)

LeaderStep(g) ==
    \/ StorePartial(g)
    \/ Flush(g)
    \/ DecrementCounter(g)
    \/ ResetCounter(g)
    \/ WriteOut(g)

DeviceStep ==
    \/ \E g \in Groups, l \in Items : ItemStep(g, l)
    \/ \E g \in Groups : LeaderStep(g)
    \/ Complete

Next ==
    \/ \E r \in Requests : Launch(r)
    \/ DeviceStep

\* The device keeps executing work-items that can run.
Spec == Init /\ [][Next]_itemVars /\ WF_itemVars(DeviceStep)

-----------------------------------------------------------------------------
TypeOK ==
    /\ running \in BOOLEAN
    /\ pending \subseteq Groups
    /\ wgc \in 0 .. Blocks
    /\ DOMAIN sums = Groups /\ \A g \in Groups : DOMAIN sums[g] = Items
    /\ done \in [Groups -> BOOLEAN]
    /\ phase \in [Groups -> [Items -> 0 .. End]]
    /\ leader \in [Groups -> {"segment", "store", "count", "reset", "write"}]

(* OpenCL requires that all work-items of a group meet the same barriers:  *)
(* the test of done at reduce.cl:143 must send all of them the same way.   *)
UniformExit ==
    /\ TypeOK
    /\ running =>
        \A g \in Groups : \A l, m \in Items :
            /\ phase[g][l] \in Final + 1 .. End - 1 => done[g]
            /\ phase[g][l] = End =>
                  phase[g][m] >= IF done[g] THEN End - 1 ELSE Final

(* The work-items together behave as the work-groups of ReduceKernel: the  *)
(* tree of additions delivers the block sum to work-item 0, whatever the   *)
(* order in which work-items run between barriers.                         *)
ImplementsKernel == Kernel!FairKernelSpec

=============================================================================
