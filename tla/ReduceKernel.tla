---------------------------- MODULE ReduceKernel ----------------------------
(***************************************************************************)
(* The reduce kernel of kernels/reduce.cl, one step per action of a        *)
(* work-group on global memory, launched again and again by one object.    *)
(*                                                                         *)
(* Every work-group sums its own block of the input into partial[group]    *)
(* and decrements the counter wgc; the group that takes it from 1 to 0     *)
(* sums the partial sums, puts the counter back for the next launch and    *)
(* writes the result.  What happens between the work-items of a group is   *)
(* in ReduceWorkItems, which implements this module.                       *)
(*                                                                         *)
(* Element values are abstract.  An element of the input is the pair       *)
(* <<launch, index>>, so the same position is another value in each        *)
(* launch; a block sum is the set of the elements added up, and a final    *)
(* sum says how often each element was added.                              *)
(***************************************************************************)
EXTENDS Utils, FiniteSets

CONSTANTS
    Blocks,        \* REDUCE_BLOCKS, the number of work-groups launched
    WGS,           \* REDUCE_WORK_GROUP_SIZE
    Uint,          \* 2^32 in the code: kernel arguments are taken modulo this
    OutCells,      \* memory cells a caller can name as the destination
    Requests,      \* what callers ask for: [first, elements, out]
    MaxLaunches    \* bound on the launches explored

ASSUME BlocksAssumption == Blocks \in Nat \ {0}
ASSUME WGSAssumption == WGS \in Nat \ {0}
ASSUME UintAssumption == Uint \in Nat \ {0}
ASSUME MaxLaunchesAssumption == MaxLaunches \in Nat
ASSUME RequestsAssumption ==
    Requests \subseteq [first : Nat, elements : Nat \ {0}, out : OutCells]

VARIABLES
    launch,     \* number of launches so far; names the current input
    request,    \* the request the last launch serves
    running,    \* whether the launch is executing
    gpc,        \* where each work-group is
    pending,    \* groups whose store to partial is not visible yet
    partial,    \* the first Blocks elements of the buffer sums
    wgc,        \* the work-group counter
    acc,        \* sums[0] of the last work-group after its second reduceRange
    out         \* contents of the destination cells

kernelVars ==
    <<launch, request, running, gpc, pending, partial, wgc, acc, out>>

Groups == 0 .. Blocks - 1

\* Memory nobody wrote yet holds an element of no launch.
Garbage == <<0, 0>>

(***************************************************************************)
(* The kernel arguments, computed by Reduce::enqueue.                      *)
(***************************************************************************)
\* Mutant: rounds to the work-group size before dividing among the blocks.
blockSize_RoundsToGroup == roundUp(request.elements, WGS) \div Blocks
blockSize == roundUp(request.elements, WGS * Blocks) \div Blocks

startArg     == request.first % Uint
elementsArg  == request.elements % Uint
blockSizeArg == blockSize % Uint

(***************************************************************************)
(* The range of a work-group: uint arithmetic, so both ends wrap.          *)
(***************************************************************************)
First(g) == (g * blockSizeArg) % Uint
Last(g)  == MinOf((First(g) + blockSizeArg) % Uint, elementsArg)

\* What reduceRange(in + start, first, last, ...) adds up in group g.
BlockSum(g) == {<<launch, startArg + i>> : i \in First(g) .. Last(g) - 1}

\* Adding up one set of elements per group: how often each one occurs.
Total(sums) ==
    [a \in UNION {sums[g] : g \in Groups} |->
        Cardinality({g \in Groups : a \in sums[g]})]

\* The sum in which every element of S occurs exactly once.
Once(S) == [a \in S |-> 1]

Init ==
    /\ launch = 0
    /\ request \in Requests
    /\ running = FALSE
    /\ gpc = [g \in Groups |-> "exit"]
    /\ pending = {}
    /\ partial = [g \in Groups |-> {Garbage}]
    /\ wgc = Blocks
    /\ acc = Once({Garbage})
    /\ out = [c \in OutCells |-> Once({Garbage})]

-----------------------------------------------------------------------------
(* The device starts the kernel for request r.                             *)
Launch(r) ==
    /\ ~running
    /\ launch < MaxLaunches
    /\ launch' = launch + 1
    /\ request' = r
    /\ running' = TRUE
    /\ gpc' = [g \in Groups |-> "range"]
    /\ acc' = Once({Garbage})
    /\ UNCHANGED <<pending, partial, wgc, out>>

(* reduceRange over the block, then work-item 0 executes                   *)
(* partial[group] = sums[0]: the store is issued, not yet visible.         *)
StorePartial(g) ==
    /\ gpc[g] = "range"
    /\ pending' = pending \union {g}
    /\ gpc' = [gpc EXCEPT ![g] = "fence"]
    /\ UNCHANGED <<launch, request, running, partial, wgc, acc, out>>

(* The memory system makes the store of group g visible to other groups.   *)
Flush(g) ==
    /\ g \in pending
    /\ pending' = pending \ {g}
    /\ partial' = [partial EXCEPT ![g] = BlockSum(g)]
    /\ UNCHANGED <<launch, request, running, gpc, wgc, acc, out>>

\* Mutant: no mem_fence between the store and the decrement.
DecrementCounter_NoFence(g) ==
    /\ gpc[g] = "fence"
    /\ wgc' = wgc - 1
    /\ gpc' = [gpc EXCEPT ![g] = IF wgc = 1 THEN "final" ELSE "exit"]
    /\ UNCHANGED <<launch, request, running, pending, partial, acc, out>>

(* mem_fence; old = atomic_dec(wgc); done = (old == 1).  The fence is      *)
(* passed only when the store is visible.                                  *)
DecrementCounter(g) ==
    /\ gpc[g] = "fence"
    /\ g \notin pending
    /\ wgc' = wgc - 1
    /\ gpc' = [gpc EXCEPT ![g] = IF wgc = 1 THEN "final" ELSE "exit"]
    /\ UNCHANGED <<launch, request, running, pending, partial, acc, out>>

(* reduceRange(partial, 0, REDUCE_BLOCKS, ...) in the last group.          *)
ReducePartials(g) ==
    /\ gpc[g] = "final"
    /\ acc' = Total(partial)
    /\ gpc' = [gpc EXCEPT ![g] = "reset"]
    /\ UNCHANGED <<launch, request, running, pending, partial, wgc, out>>

\* Mutant: the counter is left at zero.
ResetCounter_Forgotten(g) ==
    /\ gpc[g] = "reset"
    /\ gpc' = [gpc EXCEPT ![g] = "write"]
    /\ UNCHANGED <<launch, request, running, pending, partial, wgc, acc, out>>

(* *wgc = REDUCE_BLOCKS, for the next launch.                              *)
ResetCounter(g) ==
    /\ gpc[g] = "reset"
    /\ wgc' = Blocks
    /\ gpc' = [gpc EXCEPT ![g] = "write"]
    /\ UNCHANGED <<launch, request, running, pending, partial, acc, out>>

(* out[outPos] = sums[0].                                                  *)
WriteOut(g) ==
    /\ gpc[g] = "write"
    /\ out' = [out EXCEPT ![request.out] = acc]
    /\ gpc' = [gpc EXCEPT ![g] = "end"]
    /\ UNCHANGED <<launch, request, running, pending, partial, wgc, acc>>

(* All work-groups have returned: the command is complete.                 *)
Complete ==
    /\ running
    /\ \A g \in Groups : gpc[g] \in {"exit", "end"}
    /\ pending = {}
    /\ running' = FALSE
    /\ UNCHANGED <<launch, request, gpc, pending, partial, wgc, acc, out>>

GroupStep(g) ==
    \/ StorePartial(g)
    \/ Flush(g)
    \/ DecrementCounter(g)
    \/ ReducePartials(g)
    \/ ResetCounter(g)
    \/ WriteOut(g)

\* What the device does by itself once a kernel is launched.
DeviceStep ==
    \/ \E g \in Groups : GroupStep(g)
    \/ Complete

KernelNext ==
    \/ \E r \in Requests : Launch(r)
    \/ DeviceStep

KernelSpec == Init /\ [][KernelNext]_kernelVars

\* Work-groups never wait for each other, so a device that keeps executing
\* finishes the launch; starting one is up to the caller.
FairKernelSpec == KernelSpec /\ WF_kernelVars(DeviceStep)

-----------------------------------------------------------------------------
(* Groups that have not decremented the counter in this launch, and those  *)
(* that were told they are the last one.                                   *)
NotCounted == {g \in Groups : gpc[g] \in {"range", "fence"}}
LastGroups == {g \in Groups : gpc[g] \in {"final", "reset", "write", "end"}}

Element == Nat \X Nat

TypeOK ==
    /\ launch \in 0 .. MaxLaunches
    /\ request \in Requests
    /\ running \in BOOLEAN
    /\ gpc \in [Groups ->
          {"range", "fence", "final", "reset", "write", "end", "exit"}]
    /\ pending \in SUBSET Groups
    /\ DOMAIN partial = Groups
    /\ \A g \in Groups : partial[g] \subseteq Element
    /\ wgc \in 0 .. Blocks
    /\ DOMAIN out = OutCells

(* The result a caller asks for: every element of the range, once.         *)
Requested ==
    Once({<<launch, request.first + i>> : i \in 0 .. request.elements - 1})

(* The requests whose rounded-up range can be addressed with a uint, the   *)
(* type of the kernel arguments.                                           *)
RequestsFit ==
    \A r \in Requests :
        /\ r.first < Uint
        /\ Blocks * (roundUp(r.elements, WGS * Blocks) \div Blocks) < Uint

(* Reduce::enqueue promises the sum of the given range: when a launch is   *)
(* complete its destination holds every requested element exactly once, no *)
(* element of an earlier launch left in the partial sums and none lost to  *)
(* the rounding of the block size.                                         *)
ResultCorrect ==
    launch > 0 /\ ~running => out[request.out] = Requested

(* reduce.cl:143: a work-group that finds done set sees the partial sum of *)
(* every group of this launch; mem_fence and the counter guarantee it.     *)
LastGroupSeesAll ==
    \A g \in LastGroups : \A h \in Groups : partial[h] = BlockSum(h)

(* At most one group ever believes it is the last, and once all groups     *)
(* have decremented the counter exactly one does.                          *)
ExactlyOneLastGroup ==
    /\ \A g, h \in LastGroups : g = h
    /\ launch > 0 /\ NotCounted = {} => LastGroups # {}

(* The counter buffer is initialised once, in Reduce::initialize: between  *)
(* launches the kernel itself must have put it back.                       *)
CounterRestored == ~running => wgc = Blocks

(* reduce.cl:147-151: nobody stores a partial sum while the last group is  *)
(* adding them up.                                                         *)
PartialsStable ==
    [][\A g \in Groups : gpc[g] = "final" => partial' = partial]_kernelVars

-----------------------------------------------------------------------------
(***************************************************************************)
(* The inductive invariant behind these properties.                        *)
(***************************************************************************)
BlockSums == [g \in Groups |-> BlockSum(g)]

Phases ==
    /\ launch = 0 => ~running /\ \A g \in Groups : gpc[g] = "exit"
    /\ ~running => \A g \in Groups : gpc[g] \in {"exit", "end"}

Visibility ==
    /\ \A g \in pending : gpc[g] = "fence"
    /\ \A g \in Groups :
          launch > 0 /\ gpc[g] # "range" /\ g \notin pending
              => partial[g] = BlockSum(g)

\* No group of this launch has put the counter back yet.
Counting == launch > 0 /\ \A g \in Groups : gpc[g] \notin {"write", "end"}

Counter == wgc = IF Counting THEN Cardinality(NotCounted) ELSE Blocks

LastIsLast == LastGroups # {} => NotCounted = {}

Results ==
    \A g \in Groups :
        /\ gpc[g] \in {"reset", "write"} => acc = Total(BlockSums)
        /\ gpc[g] = "end" => out[request.out] = Total(BlockSums)

(* The counter counts the groups that have not decremented it, a partial   *)
(* sum is in place before its group is counted, so the group that takes    *)
(* the counter to zero is the only one and adds up the sums of this launch.*)
IInv ==
    /\ TypeOK
    /\ Phases
    /\ Visibility
    /\ Counter
    /\ LastIsLast
    /\ ExactlyOneLastGroup
    /\ Results

=============================================================================
