# TLA+ specifications of CLOGS

CLOGS is a C++ library that runs three algorithms on OpenCL devices: a
reduction, an exclusive scan and a radix sort. This directory holds TLA+ models
of it, the TLC configurations that check them and TLAPS proofs about them.
`PROJECT.json` lists, for every definition, the source lines it stands for.

## The system

| Component | State | Operations | Interacts with |
|---|---|---|---|
| Reduce kernel (`kernels/reduce.cl`) | group counter `wgc`, `partial` sums, local `sums` and `done` | one launch: every work-group reduces a block, the last one reduces the partial sums | reads and writes the buffers of Reduce host |
| Reduce host (`src/reduce.cpp`) | kernel arguments, `sums`, `wgc`, tuning parameters | constructor, `enqueue` to a buffer, `enqueue` to host memory | command queue, Cache, Tune, build |
| Scan kernels (`kernels/scan.cl`) | `sums`, local arrays | `reduce`, `scanExclusiveSmall`, `scanExclusiveSmallOffset`, `scanExclusive` | buffers of Scan host |
| Scan host (`src/scan.cpp`) | kernel arguments, `sums`, tuning parameters | constructor, `enqueue` with no offset, a host offset or an offset in a buffer | command queue, Cache, Tune, build |
| Radixsort (`src/radixsort.cpp`, `kernels/radixsort.cl`) | histogram, temporary buffers, tuning parameters | `enqueue`, `setTemporaryBuffers`, constructor; kernels reduce, scan, scatter | as Scan; sorts in passes between two pairs of buffers |
| Cache (`src/cache.cpp`) | SQLite tables, prepared statements shared by the process | `lookup`, `add`, opening of the file | constructors and `build`; other processes through the file |
| Tune (`src/tune.cpp`) | none beyond a call | `tuneOne` | constructors |
| Build and devices (`src/utils.cpp`) | none | `build`, `getWarpSizeMem`, `deviceKey` | Cache, OpenCL compiler |
| Core (`src/core.cpp`) | pointer to the implementation, event callback and its user data | move, swap, `setEventCallback` | every algorithm |

What makes it hard:

* **Work-groups and work-items** run in any order. They meet only at barriers
  inside a work-group, and between work-groups only through one atomic counter.
* **Memory**: global stores become visible late unless a fence orders them.
  Local arrays are reused, and some barriers are dropped where a warp is
  assumed to run in lockstep.
* **Commands** of an out-of-order queue are ordered by events only, and an
  object's internal buffers are shared by all its calls.
* **Partial failure**: an `enqueue` makes several OpenCL calls; a later one may
  throw when the earlier ones are already in the queue.
* **Sizes**: `size_t` sizes are rounded up, divided among blocks and cast to
  `cl_uint`.
* **Persistent state**: tuned parameters are shared by threads and processes.

Correctness of each component, in one line each: a reduction delivers the sum of
exactly its range and leaves the object reusable; a scan replaces element *i* by
the offset plus all elements before *i*, also in place; a sort is a stable
permutation on the chosen key bits; a cache lookup returns something a tuning run
stored for that key; tuning returns a candidate that worked; the user data of a
callback is freed exactly once. `PROJECT.json` lists the places where these could
go wrong under `hazards`.

## Modules

| Module | Models | Extends / instantiates |
|---|---|---|
| `Utils` | `roundDown`, `roundUp` of `utils.h`; min and max | |
| `UtilsProofs` | lemmas about them, and about queues of commands that wait for earlier ones | `Utils` |
| `ReduceKernel` | `kernels/reduce.cl`, one step per work-group and memory operation | `Utils` |
| `ReduceWorkItems` | the same kernel, one step per work-item and barrier interval | refines `ReduceKernel` |
| `ReduceWorkItemsProofs` | its theorems | `ReduceWorkItems` |
| `Reduce` | `Reduce::enqueue` (both), command queue and device | `ReduceKernel` |
| `ReduceProofs` | theorems about `ReduceKernel`, and about `Reduce` through it | `Reduce`, `UtilsProofs` |
| `ScanSmall` | `scanExclusiveSmall` and `scanExclusiveSmallOffset`, per work-item | |
| `ScanExclusive` | a work-group of `scanExclusive`, per work-item | |
| `Scan` | `Scan::enqueueInternal`, command queue and device, kernels per work-group | `Utils` |
| `ScanProofs` | its theorems, and those of two kernels | `Scan`, `ScanKernels`, `UtilsProofs` |
| `ScanReduce` | a work-group of the kernel `reduce` of `scan.cl`, per work-item | |
| `ScanKernels` | a work-group of either of these two kernels, and what it computes | instantiates `ScanSmall` and `ScanReduce` |
| `RadixsortDigits` | digits, histograms and offsets as pure definitions | |
| `Radixsort` | `Radixsort::enqueue` and `setTemporaryBuffers`, command queue and device, kernels per work-group | `Utils`, `RadixsortDigits` |
| `RadixsortProofs` | its theorems | `Radixsort`, `UtilsProofs` |
| `RadixsortReduce` | a work-group of `radixsortReduce`, per warp | `RadixsortDigits` |
| `RadixsortScan` | the work-group of `radixsortScan`, per warp | `RadixsortDigits` |
| `RadixsortScatter` | a slice of `radixsortScatter`, per warp | `RadixsortDigits` |
| `Cache` | constructors of the three algorithms, `Table`, `DB`, `build`, SQLite as they use it | |
| `CacheProofs` | its theorems | `Cache`, `UtilsProofs` |
| `Tune` | `tuneOne` | |
| `TuneStages` | the candidates of `Reduce::tune`, `Scan::tune` and `Radixsort::tune`, stage by stage | `Utils` |
| `TuneProofs` | theorems about both | `Tune`, `TuneStages`, `UtilsProofs` |
| `Core` | ownership in `clogs::Algorithm` and `detail::Algorithm` | |
| `CoreProofs` | its theorems | `Core` |
| `MCKernels` | one work-group of one of the kernels above, chosen in its initial state | `ScanKernels`; instantiates the other four modules of scan and sort kernels |
| `MCTuning` | one call of `tuneOne` or of a `tune` function | `Tune`, `TuneStages` |
| `MC*` (others) | constants for TLC | the module they are named after |

### Values

The algorithms add numbers whose values do not matter, so a value is a *bag* of
the input elements it is the sum of, and adding is bag union. An element that is
missing, counted twice, stale or uninitialised then shows in the result. In the
reduction every element also carries the number of its launch, so that a result
made of an earlier launch's partial sums is wrong even if the elements are the
same ones.

### The reduce kernel

`ReduceKernel` has the launch argument `request`, the counter `wgc`, the array
`partial` as other groups see it and the set `pending` of groups whose store to it is
not visible yet. `Flush` lets a store become visible at any time, and the fence
before `atomic_dec` (line 137) is passed only when it is. `DecrementCounter` is lines 137-143: a
group that reads 1 becomes the last one and goes on to `ReducePartials`,
`ResetCounter` and `WriteOut`; the others finish. `Complete` ends the launch
and `Launch` starts the next one with whatever the counter and the partial sums
hold then: nothing is reset by the host.

`ReduceWorkItems` splits every group into work-items that run from barrier to
barrier, with the strided loads and the tree reduction of `reduceRange`, and is
checked to implement `ReduceKernel`, fairness included.

### The Reduce object

`Reduce` adds the host: validation with `size_t` arithmetic modulo `SizeT`, the
kernel command, the read command of the host variant, blocking or not, and an OpenCL
call that fails at any of those points. The caller is modelled as the manual
(`doc/clogs-user.xml`, "Reentrance") asks it to behave: calls do not overlap and
on an out-of-order queue a call waits for the event of the previous one. After a
failure half way through there is no such event, so the caller drains the queue
(`QueueFinish`). The output position is cut to `Uint` on its way to the kernel, as in
`reduce.cpp:296`; `PositionsAssumption` says that accepted calls have positions below it.

### The scan

`Scan` is laid out in the same way with up to three commands per call: `reduce`
for all blocks but the last (none if there is one block), the scan of the block
sums with the offset, and `scanExclusive`. Each kernel runs a work-group at a time
on the caller's buffers; this granularity is what `ScanSmall` and
`ScanExclusive` justify from the inside, since work-groups of one kernel touch
disjoint cells (which `InBounds` and the block lemmas show). The history variable
`before` records the caller's buffers when a call starts to execute, so that
`ScanResult` can compare the outcome with a scan of what was there.

`ScanExclusive` describes the loop body as a sequence of segments with the
synchronisation after each: a barrier, the lockstep of a warp, or nothing. A
work-item may run ahead of the others as far as these allow.

`ScanReduce` is the kernel `reduce` of `scan.cl`: strided accumulation, then a tree
with a barrier before each iteration and none after the last; the position of a work-item is
its `scale`. In `ScanSmall` it is the segment, `scale` and the number of barriers reached.

### The radix sort

`Radixsort` has the host's call in progress (`host`), the commands (`cmds`), the
memory of every buffer (`mem`) and the histogram of the object. One call enqueues
reduce, scan and scatter for each pass, then copies keys and values back if the number
of passes is odd; temporary buffers come from `setTemporaryBuffers` if they are large
enough and are allocated otherwise. Every OpenCL call may fail, and what is in the
queue stays there. The kernels run a work-group at a time and use the definitions of
`RadixsortDigits`, which say what the three kernels compute: the counts of a block, the
first position of each digit of each block, and where a key goes.

The three kernel modules show from the inside that this is what they compute, for every
order in which warps pass the barriers. `RadixsortReduce` counts into local memory and
folds the counts of a digit; `RadixsortScan` transposes the histogram into chunks and
makes an in-place prefix sum with two barriers per step; `RadixsortScatter` sorts a tile
with counters packed in bytes, which are swept up and down in words of four, and reuses
their memory for values. The range of a block is computed modulo `Uint` in `RadixsortReduce`
and `RadixsortScatter`, and compared with the range that is meant. Only the variable of the
loop over a block in `radixsortReduce` does not wrap. Work-items of a warp run in lockstep, as the code assumes where
it replaces a barrier by a fence.

### The cache

`Cache` runs the constructors: open the database if this is the first one of the process
(`getDB`, a static variable whose initialization other threads wait for), look the
parameters up, and on a miss try each candidate, which means building its program,
and save one that worked; then build the program. `build` looks a binary up, builds it, or
compiles the source and adds the binary. A construction may also fail for a reason outside
the cache: buffers or the context of a candidate are not created, the binary cannot be
asked for, kernels are not created. A `CacheError` of a candidate is an `InternalError`, so
`tuneOne` drops the candidate; it also drops candidates that it finds no rate for, possibly all.
The passes and stages of tuning are one round over the candidates here, since they all use the
cache in the same way; `Tune` and `TuneStages` have them.

Every call of the SQLite API is a step; the calls of a thread interleave with those of
others on the same prepared statement. Of SQLite the model has what decides the outcome.
A connection has a lock on the file: shared, reserved or exclusive. A write takes the
reserved lock, and at its end the exclusive one, which fails while another
process reads; this is rolled back. A transaction ends only when no other statement of
the connection is active, and it commits only when no other writing statement is. A
statement is active while it stands at a row, and also when its very first lock was
refused (`sqlite3.c`, `OP_Transaction`): it waits there to be tried again until it is
reset. `dirty` is what a connection has written and not committed. `Stop` ends or kills
a process, which loses its connection, its constructors and `dirty`.

One table of parameters stands for the three, types that a device does not support are
not tried, and a key or a value is bound and read in one step.

### Tuning

`Tune` is `tuneOne`, one step per iteration of its loops: each candidate is tested on
problems of growing size, those below half of the best rate are dropped between passes, and
the first of the last pass whose rate B is at least the best rate A is returned. A test may
throw, give NaN or throw what `tuneOne` does not catch (`Throw`); `tests` records what was tested, for the properties. `TuneStages`
generates the candidates of the three `tune` functions, where each stage builds on what
an earlier one selected, and asks of each candidate whether its kernels build (the
`#error` conditions, and the local memory, with its alignment) on the device.

### Ownership

`Core` has the handles of a program (`Scan`, `Reduce`, `Radixsort` objects), the detail
objects they own and the user data of each with the function that frees it. Construction,
move, move assignment (also to itself), swap, `setEventCallback` and destruction happen
in any order. Whether the callback is NULL makes no difference to what is kept and freed, so it is
not a variable. Setting a callback on an object that owns nothing throws
(`SetEventCallbackThrows`); what the C++ overloads have allocated for it is then in `lost`.
Callbacks do not call back into the objects.

## Runs

| Run | Question | Instance |
|---|---|---|
| `reduce` | kernel: the inductive invariant (one last group per launch, sees all partial sums, counter restored), partial sums stable while they are added up, result complete; host: calls are kept apart, each read returns its own sum, accepted calls stay in bounds and write where they were asked to, nothing is stuck | 3 groups, 3 calls, 1 failure, in-order and out-of-order queue, `size_t` of 4 bits, element counts below, at and above a multiple of the rounding |
| `reduce_work_items` | barriers suffice: refinement of `ReduceKernel`; no barrier divergence | 2 groups of 4 work-items, 2 launches |
| `kernels` | every order that barriers and warps allow gives what the host models assume; nobody is stuck at a barrier | one kernel at a time, see below |
| `scan_host` | assertions, bounds, isolation of calls, the postcondition of `scan.h`, completion | 3 calls, 1 failure, up to 3 blocks out of 4 in use |
| `radixsort` | assertions, bounds, isolation of calls, stable sort, no pair lost in a failure, completion | 2 calls of 1 to 3 passes, 1 failure, keys of 6 bits, 4 sets of parameters, lent and allocated temporary buffers |
| `cache` | rows and objects match their keys, what was used is in the file, statements are reset before they are bound, every constructor ends | 2 processes, 3 objects, 1 process killed at any point; 2 threads of a process and another process; a choice of candidates and a reader |
| `tuning` | `tuneOne`: what `tune.h` promises, a `TuneError` only if all fail; stages: block counts fit, no division by zero, each stage has a candidate that builds | 3 candidates, 2 passes, 5 rates, exceptions, NaN; 35 devices, 9 types |
| `core` | owned once, freed once, not leaked unless the call throws, deleted only when given up | 3 handles, 3 detail objects, 3 user data |
| `reduce_overflow` | violation: see Findings | `uint` of 4 bits |
| `scan_wrap` | violation: see Findings | `uint` of 4 bits, `size_t` of 8 bits |
| `cache_lost` | violation: see Findings | 2 processes |
| `tune_uninitialized` | violation: see Findings | the devices of `tuning` |

Type invariants are conjuncts of the properties of the runs, or proved: `IInv` has `TypeOK` of
`ReduceKernel`, `AccessesInBounds` that of `Reduce`, `UniformExit` that of `ReduceWorkItems`,
`AssertionsHold` that of `Radixsort`. What follows from `IInv` alone (`LastGroupSeesAll`,
`ExactlyOneLastGroup`, `CounterRestored`) is proved and not checked again by TLC.

The kernels of the run `kernels`:

| Module | Properties | Instance |
|---|---|---|
| `ScanSmall` | `ExclusiveScan` | every even `SCAN_BLOCKS` up to 18, with and without an offset |
| `ScanExclusive` | `BlockScanned` | 1 to 8 work-items, warps of 1, 2 and 4, scale 1 and 2, up to 2 tiles, block full or cut off |
| `ScanReduce` | `BlockSummed` | 1 to 8 work-items, 1 and 3 rounds |
| `RadixsortReduce` | `HistogramWritten` | 16 work-items, warps of 2, radix 4, blocks full, short, empty and not a multiple of the work-group |
| `RadixsortScan` | `OffsetsWritten` | 8 work-items, radix 4, 1, 5 and 6 of 6 blocks |
| `RadixsortScatter` | `WritesCorrect`, `AllWritten` | slices of 4 and 8, warps of 1 to 8, scale 1 to 4, bytes of 4 bits |

Why the bounds are enough to see the interesting cases: three work-groups allow a
first, a middle and a last decrement; two launches expose a counter or partial sum
that was not restored; three calls allow one before and one after a failing call;
four blocks with three in use leave a stale entry in `sums` and a partly filled last
block; four work-items in warps of one, two and four put every level of the sweeps on
either side of the warp size. In the sort, one, two and three passes end in either pair of
buffers; a tile of 12 keys is the largest below the limit of a byte counter of 4 bits, and
one of 16 must not compile. Two processes suffice for every conflict of locks, since SQLite
lets one process write at a time; with three candidates, the middle one not compiling, an
add can fail before and after one that succeeds. Integer widths are parameters (`Uint`, `SizeT`), shrunk so
that wrap-around is within reach.

Every property of a passing run has a mutant of the modelled code (`*_...` operators
above the definitions they replace) under which TLC reports it violated.

### Fairness

The device keeps executing what it can: weak fairness of the device's steps as a
whole (`DeviceStep` in the kernel modules, `Work` in the host modules), not of single
work-groups or work-items. OpenCL does not let a kernel rely on work-groups making progress
concurrently, and the models do not need it: no work-group ever waits for another. The
host finishes a call it has started (weak fairness of the later enqueues); it need not
make calls, so fairness is not assumed of those, nor of `QueueFinish`. A deadlock
is an error in `kernels`, where only a finished work-group may stop; in the other runs the system may stop when the bounded calls or launches are used
up, and a stuck command is caught by `CommandsComplete`. In
`Cache` each thread keeps running (weak fairness of the steps of a thread): nothing there
waits except for the initialization of the database and for the mutex of the connection,
since SQLite returns at once when a lock is refused.

## Proofs

TLAPS checks the following for all values of the constants (any number of blocks,
work-group size, launches, calls).

`ReduceProofs`, the kernel. `ResultCorrect` is not inductive: that the last group may
sum the partial sums depends on what the other groups have done. The invariant
`IInv` says that the counter equals the number of groups that have not decremented
it yet, until it is put back (`Counter`); that a group whose store is no longer
pending has its sum of this launch in `partial`, and only groups at the fence have a
pending store (`Visibility`); that a group is the last one only when all are counted,
and is the only one (`LastIsLast`, `ExactlyOneLastGroup`); and what that group has
accumulated and written (`Results`).
`KernelInvariant` proves it inductive, action by action; the cardinality facts come
from `FiniteSetTheorems`. From it follow `KernelTypeOK`, `OneLastGroup`,
`LastGroupSees`, `CounterReusable`, `PartialsUntouched` and, with the block lemmas
of `UtilsProofs` (each index lies in exactly one block), `ReduceCorrect`. The last one
assumes `RequestsFit`: the rounded-up range is below 2^32. `reduce_overflow` shows
that the assumption is needed.

`ScanProofs`. `ScanTypeOK` is inductive as it stands: every command comes from a
validated call, waits for earlier commands only and has only its own groups left.
`ScanAssertions` derives the three assertions of `scan.cpp:470-472` from it for all
tuning parameters. `ScanInBounds` shows that no kernel leaves the buffers: the block
size is a whole number of work-groups of `reduce` and of tiles of `scanExclusive`
(`KernelPreconditions`, the `@pre` of both kernels), all blocks that `reduce` reads are
full, and the last one is cut off by `total`. It assumes `CallsFit`, that sizes fit
their integer types, and `scan_wrap` shows what happens when they do not.
`ParametersAssumption` states what `scan.cl:102-148` enforces with `#error`, in the weaker form that is used: a tile is a multiple of both work-group sizes.

`CoreProofs`. `FreedOnce` is not inductive: two detail objects that share user data would
free it one after the other. `IInv` adds `Unshared`: live objects do not share user data
that is to be freed, and what was not given away is not freed. `DetailOwned` makes the
argument go through for moves, since an object that is deleted has exactly one handle. From it
follow `DetailsAreOwned`, `UserDataFreedOnce`, `UserDataNotLeaked` and, for every step,
`DeletesOnlyGivenUp`. `UserDataNotLeaked` leaves out what is in `lost`.

`ReduceWorkItemsProofs`. `UniformExit` needs to know how far the work-items of a group can
be apart. `ItemsInv` says that barriers keep them within one segment of each other, except
for those that have returned because `done` is false (`Together`); that only a group whose
`done` is true is past the test (`SecondRange`); where the others can be while work-item 0
publishes alone (`LeaderOK`); and that `wgc` is the number of groups still to count, or
that the group that is to put it back exists (`CounterOK`). `ItemsExitTogether` follows. The
work-group size is any power of two. What the work-items add up is not part of it: that is
the refinement `ImplementsKernel`, which TLC checks.

`ReduceProofs`, the host. `QueueInv` says that commands wait for earlier commands only and cannot
overtake each other, on either kind of queue; that the last event a call returned covers all
that is in flight, unless a failure lost it and the caller has to drain the queue; and that the
kernel executes for one command, with the arguments of an accepted call. From it, every step of `Reduce` is a step of
`ReduceKernel` or leaves its variables alone, so `RefinesKernel` carries the theorems of the
kernel over to the host (`HostKernelInvariant`, `HostPartialsStable`, `HostResultCorrect`).
`ReduceExecutionsDisjoint` and `ReduceAccessesInBounds` follow from `QueueInv` with the block
lemmas, and `HostResult` adds what the result slot holds between a kernel and the read of
the same call. The assumptions are positive sizes, calls of the right type, and that
`Requests` has the requests of the valid calls; `ReduceAccessesInBounds` uses
`PositionsAssumption`, and `HostResultCorrect` and `HostResult` also
assume `RequestsFit`, as `ReduceCorrect` does.

`ScanExecutionsDisjoint` has the same argument (`OrderInv`), with up to three commands per
call. The lemmas about such queues (`AppendOrdered`, `ProgressOrdered`, `ReadyAfterAll`) are in
`UtilsProofs`, for the three hosts.

`ScanCallResult` is the postcondition of a scan, from `CallsFit`. Its invariant has two parts
besides `OrderInv`. `Structure`: the commands of a call follow each other in the queue, in the
order reduce, small scan, scan, with the same arguments. `ResultInv`: of the newest command that
has started, it says how far the call has come (`Progress`). While reduce runs, `sums` holds the sums
of the blocks it has done; then the sums of everything before a block, with the offset; and
while the scan runs, the output buffer is scanned in the blocks whose work-groups have run
and still what it was in the others (`ScanBut`), which is why scanning in place and overwriting
the offset are harmless. Earlier commands need not be described, since `OrderInv` says that they are complete. The
sums are bags: `SumSplit` and `SumBlocks`, about sums of consecutive values and of consecutive blocks, are
proved from the least counterexample (`LeastNatural`), the form of induction that the
provers can use. `Scan` defines its sums as a function over the values for this reason.

`ReduceBlockSummed` and `SmallScansExclusively` are about the work-items of two kernels.
For reduce, the cell of a work-item holds the elements whose index has a given remainder
(`Class`), where the modulus is the one of the iteration the work-item has reached. Barriers
keep the work-items within one iteration of each other, so a cell that is read has been
written and is not written again. For the small scan, a cell
holds a range of elements that ends at the cell (`Part`): how long it is depends on the largest
power of two that divides its position and on the iteration. `UpInv` and `DownInv` describe a state in which some work-items
have passed the iteration and others have not, and `UpShift` and `DownShift` turn the end of an
iteration into the beginning of the next. `SCAN_BLOCKS`
need not be a power of two. `Supported` states the conditions that the preprocessor checks.

`TuneProofs`. The invariant of `tuneOne` says that what is retained in a pass is what the
pass before it tested and found fast enough, in the order of the list of candidates, and that `results`, `maxA` and
the recorded tests of the pass agree. `TuneReturnsFirstGood` and `TuneFailsOnlyIfAllFail` follow for
any list of candidates, number of passes and results; `abort()` is not reached, because
the candidate with the largest A also has a B that reaches it. `Arguments` says that no candidate is
given twice and that A is at most B. For the stages, `StagesInv` says that the parameters
selected so far are positive and such that the program builds; `StagesBlocksAligned` is then arithmetic with
`roundDown`, and `StagesCanTune` names a candidate for each stage. `Supported` bounds a device: warps of up to 64,
between 16 KiB (the minimum of OpenCL) and 4 MiB of local memory, work-groups of up to 65536.

`RadixsortProofs`. `RadixsortInvariant` proves `TypeInv`, the types of the memory, of the call
in progress and of the commands, and `OrderInv`, the order of the queue.
`RadixsortAssertions` derives the assertions of `getBlocks` and `enqueue` for all parameters,
`RadixsortExecutionsDisjoint` the isolation of calls with any number of passes. `RadixsortInBounds` has
an invariant of its own, `BoundsInv`: every command names buffers that hold its elements, the
temporary buffers of the object included, which may have been lent for a smaller sort. It
assumes `CallsFit`, that sizes in bytes fit `size_t`. `ConfigsAssumption` says of the tuning
parameters what the code divides by or asserts, and that `2 ^ radixBits` is a natural number, because the
provers know nothing of powers.

`CacheProofs`. The properties of the cache rest on four invariants, each proved with the ones
before it. `LockInv`: at most one thread of a process is inside SQLite, one that writes holds the
lock it needs, a lock is held only for such a thread or an active statement, and one thread
opens the database before the others use it. `FileInv`: at most one process holds the
reserved or exclusive lock, and what it is about to commit contains what is in the file; hence `CacheRowsGrow`, no
step takes a row away. `ValueInv`: what a statement is bound to, what a thread works with and what
it has made belong to the key of its own problem, from which `CacheRowsValid` and
`CacheObjectsMatch`. `StoredInv`: what a thread has used is in the file, or in `dirty` of the
connection on its way there; hence `CacheCached` and `CacheAddKept`. The last says that the
lost `add` of `cache_lost` needs an earlier refused one, or a second constructing thread of the
process. `CacheTypes` is the type invariant with its relations between locks, statements and
threads. The number of processes, threads, jobs and kills is arbitrary. The assumptions
are that every thread belongs to a process and every problem has at least one candidate, and that
`None` is none of the strings in use.

Only model-checked, and why:

* liveness and fairness (`CommandsComplete`, `ConstructorsEnd`), and the absence of deadlock:
  out of the prover's reach;
* the refinement of `ReduceKernel` by `ReduceWorkItems`, `SortResult`, `PairsSurvive`, `BlockScanned`
  and the properties of the three sort kernels: stable permutations, counts per digit and
  counters packed into words, over arrays that are handled by many work-items at once. What they compute would have
  to be described in every intermediate state; TLC checks them for every order of steps on small instances.

Two things changed in the models for the sake of the proofs. In `Radixsort` the type of
`firstBit` was too narrow: after the last pass it may exceed the number of bits to sort by. In `ReduceWorkItems`, `TypeOK` says which cells `sums` has and no longer that
each is a bag; `ImplementsKernel` fails if one that is used is not.

## Findings

* `reduce_overflow`: `first + blockSize` in `reduce.cl:129` is a `uint`. When block size
  times blocks reaches 2^32 the last group's end wraps to 0, its block is left out and
  the sum is wrong. Nothing rejects such a call.
* `scan_wrap`: `offsetIndex + 1` in `scan.cpp:451` is zero for the largest
  `cl_uint`, so the documented exception is not thrown. Likewise `elements * elementSize` in
  `scan.cpp:433` can wrap around in `size_t` and pass the comparison with the buffer size.
  The run offers both calls; either one alone leaves the buffers.
* `cache_lost`: an `add` that was refused its lock stays active inside SQLite. Until the next
  `add` to the same table, those to other tables report success and are not
  committed, keep other processes from writing, and are then rolled back. In
  `cache`, `Cached` is therefore stated for processes without a refused add (`refused`).
* `tune_uninitialized`: `Radixsort::tune` leaves its loop without a result on a device whose
  work-groups are smaller than the radix, and returns an uninitialised variable.

Seen while modelling, without a run:

* The end of a block is a `uint` in `radixsort.cl:254` and `:918` as well. When the rounded-up
  length reaches 2^32 the last block is empty, its pairs are not moved and the output holds
  whatever the temporary buffer held: `SortResult` fails with `Uint = 8` in `Radixsort.cfg`,
  `HistogramWritten` and `AllWritten` fail with 16 for the `Uint` of the two kernels in `MCKernels`.
* `Reduce::enqueue` checks `outPosition` as a `size_t` and passes it on as a `cl_uint`
  (`reduce.cpp:296`): from 2^32 on the result is written to another element of the buffer.
  `AccessesInBounds` fails without `PositionsAssumption` for such a call.
* The kernel `radixsortReduce` requires a multiple of its work-group size
  (`radixsort.cl:242`), and `getTileSize` does not guarantee one when the scatter work
  scale is not a power of two. The kernel does not need it (`kernels`).
* Two threads that construct different objects use the same prepared statements, with
  nothing between reset, bind and step to keep them apart: a value can be stored under the
  other one's key. `RowsValid`, `ObjectsMatch` and `Cached` are therefore stated
  for programs that are `SingleThreaded`; without this condition TLC finds
  `ObjectsMatch` violated, and `RowsValid` too when both threads tune. The manual's section on reentrance is about calls on one object only.
* A constructor may throw `CacheError` ("could not be read", `core.h:65`) when it saves what
  it has tuned, because another process reads, or has read: a lookup that found a row keeps
  its shared lock.
* `radixsort.h:218` documents an exception for `maxBits` zero, which `:205` and `:224` of the
  same comment and `radixsort.cpp:196` allow.
* Devices with a largest work-group of 16 to 63 cannot be tuned for sorting, because
  `scanWorkGroupSize` is 64.
* `setEventCallback` on a moved-from object loses the wrapper that `core.h:355-379` allocates:
  `NoLeak` fails if it does not leave out `lost`.

## Not modelled, and the plan

Not modelled:

* `sqlite3.c` beyond the behaviour above. It is vendored, and by far the largest file of the
  repository: the share of all source lines that the models stand for is small because of it.
* The timing of candidates inside the callbacks of `tune`, and the generation of source code
  and preprocessor definitions; whether a candidate works, and how fast, is left open.
* `Type` and the records of parameters, which are tables of constants; device queries other
  than the warp size, which is a parameter; printing and logging.
* The benchmark, its option parsing and timers, and the C++ wrappers that only convert
  handles and exceptions.
* The options of `build` (always empty), which are not part of the key of a cached binary.

What is left, in this order:

1. That a sort in progress leaves every pair of buffers it is not sorting alone, the part of
   `PairsSurvive` that needs no counting.
2. `BlockScanned`: the tiles of `scanExclusive`, along the lines of the small scan, with warps
   that run in lockstep in the place of some barriers.
3. The histogram of `radixsortReduce`, with the counts of a digit as bags of positions.
