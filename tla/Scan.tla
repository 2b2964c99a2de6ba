-------------------------------- MODULE Scan --------------------------------
(***************************************************************************)
(* clogs::detail::Scan (src/src/scan.cpp): one object, its enqueue method, *)
(* the commands it puts in a command queue and the device that executes    *)
(* them on buffers the caller shares between calls.                        *)
(*                                                                         *)
(* A work-group of a kernel runs in one step here; ScanSmall and           *)
(* ScanExclusive look inside the work-groups.  The caller behaves as in    *)
(* Reduce.  The event callback is called right after every enqueue, so     *)
(* that the events it has seen are those of cmds, in that order.           *)
(*                                                                         *)
(* Values are bags: cell i of buffer b starts as the bag that holds        *)
(* <<b, i>> once, and adding two values adds their bags.                   *)
(***************************************************************************)
EXTENDS Utils, Sequences, Bags

CONSTANTS
    reduceWorkGroupSize, scanWorkGroupSize, scanWorkScale, maxBlocks,
    BufferBytes,    \* the size of each of the caller's buffers
    Readable,       \* the buffers that kernels may read ...
    Writable,       \* ... and write
    Calls,          \* the calls a program makes, see CallType
    ElementSize,    \* size of an element in bytes
    SizeT,          \* 2^64 in the code: size_t is taken modulo this
    Uint,           \* 2^32 in the code: uint is taken modulo this
    MaxCalls,       \* bound on the calls explored
    MaxFailures     \* bound on the OpenCL calls that fail

Buffers == DOMAIN BufferBytes

CallType ==
    [in : Buffers, out : Buffers, elements : Nat,
     offset : {"none", "host", "buffer"},
     offsetBuffer : Buffers, offsetIndex : 0 .. Uint - 1]

tileSize == MaxOf(reduceWorkGroupSize, scanWorkScale * scanWorkGroupSize)

(* scan.cl:122-148 refuses parameters that are not powers of two, so that  *)
(* a tile is a whole number of work-groups of either kernel, and an odd    *)
(* SCAN_BLOCKS.                                                            *)
ASSUME ParametersAssumption ==
    /\ reduceWorkGroupSize \in Nat \ {0}
    /\ scanWorkGroupSize \in Nat \ {0}
    /\ scanWorkScale \in Nat \ {0}
    /\ maxBlocks \in Nat \ {0}
    /\ maxBlocks % 2 = 0
    /\ \E k \in 1 .. tileSize : tileSize = k * reduceWorkGroupSize
    /\ \E k \in 1 .. tileSize :
          tileSize = k * (scanWorkScale * scanWorkGroupSize)

ASSUME CallsAssumption ==
    /\ BufferBytes \in [Buffers -> Nat]
    /\ ElementSize \in Nat \ {0}
    /\ SizeT \in Nat \ {0}
    /\ Uint \in Nat \ {0}
    /\ Calls \subseteq CallType

VARIABLES
    inOrder,        \* whether the queue executes commands in order
    mem,            \* the caller's buffers
    sums,           \* the object's own buffer
    cmds,           \* the commands enqueued so far
    hostPC,         \* the kernel the host enqueues next; "idle" outside a call
    lastEvent,      \* the event returned by the last call that returned one
    lost,           \* a call failed with work in flight and returned no event
    calls,          \* number of calls so far
    failures,       \* number of OpenCL calls that failed
    before          \* mem when the newest call to start executing did so

hostVars   == <<hostPC, lastEvent, lost, calls, failures>>
deviceVars == <<mem, sums, before>>
vars == <<inOrder, cmds, hostVars, deviceVars>>

-----------------------------------------------------------------------------
(* Division of the elements into blocks.                                   *)

blockSize(c) == roundUp(c.elements, tileSize * maxBlocks) \div maxBlocks

\* Mutant: a last block that is not full is not counted.
allBlocks_RoundsDown(c) == c.elements \div blockSize(c)

allBlocks(c) == (c.elements + blockSize(c) - 1) \div blockSize(c)

\* The kernel arguments, converted to cl_uint.
lenArg(c)   == blockSize(c) % Uint
totalArg(c) == c.elements % Uint

-----------------------------------------------------------------------------
(* Validation.  The products are computed in size_t, offsetIndex + 1 in    *)
(* cl_uint.                                                                *)
RangeFits(b, c) == BufferBytes[b] >= (c.elements * ElementSize) % SizeT

OffsetFits(c) ==
    c.offset = "buffer" =>
        /\ BufferBytes[c.offsetBuffer] >=
              (((c.offsetIndex + 1) % Uint) * ElementSize) % SizeT
        /\ c.offsetBuffer \in Readable

Valid(c) ==
    /\ RangeFits(c.in, c)
    /\ RangeFits(c.out, c)
    /\ c.in \in Readable
    /\ c.out \in Writable
    /\ OffsetFits(c)
    /\ c.elements # 0

-----------------------------------------------------------------------------
(* What the kernels compute.                                               *)
Garbage == SetToBag({<<"garbage", 0>>})

CellsOf(b) == 0 .. BufferBytes[b] \div ElementSize - 1

\* A read of the cell with index i, which may lie outside the buffer.
Cell(m, b, i) == IF i \in CellsOf(b) THEN m[b][i] ELSE Garbage

\* The sum of f[0], ..., f[n - 1].
SumOf(f, n) ==
    LET sum[k \in 0 .. n] ==
            IF k = 0 THEN EmptyBag ELSE sum[k - 1] (+) f[k - 1]
    IN  sum[n]

\* Indices that work-group g of the kernel reduce reads, in order: a whole
\* number of passes over len elements, in uint arithmetic.
ReduceLen(c) == roundUp(lenArg(c), reduceWorkGroupSize)
ReduceIndex(c, g, j) == (g * lenArg(c) + j) % Uint

\* Work-group g of scanExclusive handles a whole number of tiles, up to the
\* end of the input; total - bias is a uint.
ScanLen(c, g) ==
    MinOf(roundUp(lenArg(c), scanWorkScale * scanWorkGroupSize),
          (totalArg(c) - g * lenArg(c)) % Uint)
ScanIndex(c, g, j) == g * lenArg(c) + j

OffsetValue(m, c) ==
    CASE c.offset = "none"   -> EmptyBag
      [] c.offset = "host"   -> SetToBag({<<"host", 0>>})
      [] c.offset = "buffer" -> Cell(m, c.offsetBuffer, c.offsetIndex)

-----------------------------------------------------------------------------
(* Command queue and events.  A command is named by its position, call is  *)
(* the number of the call that enqueued it, todo its remaining groups.     *)
Waits == IF inOrder \/ lastEvent = 0 THEN {} ELSE {lastEvent}

\* Mutant: the last block is reduced as well, although it need not be full.
GroupCount_AllReduced(kind, c) == IF kind = "small" THEN 1 ELSE allBlocks(c)

\* The number of work-groups of each kernel; maxBlocks / 2 work-items make
\* one work-group of the small scan.
GroupCount(kind, c) ==
    CASE kind = "reduce" -> allBlocks(c) - 1
      [] kind = "small"  -> 1
      [] kind = "scan"   -> allBlocks(c)

Command(kind, c, waits, first) ==
    [kind |-> kind, args |-> c, call |-> calls', waits |-> waits,
     todo |-> 0 .. GroupCount(kind, c) - 1, status |-> "queued",
     first |-> first]

IsComplete(i) == cmds[i].status = "complete"

Ready(i) ==
    /\ cmds[i].status = "queued"
    /\ \A w \in cmds[i].waits : IsComplete(w)
    /\ inOrder => \A j \in 1 .. i - 1 : IsComplete(j)

Init ==
    /\ inOrder \in BOOLEAN
    /\ mem = [b \in Buffers |-> [i \in CellsOf(b) |-> SetToBag({<<b, i>>})]]
    /\ sums = [g \in 0 .. maxBlocks - 1 |-> Garbage]
    /\ cmds = <<>>
    /\ hostPC = "idle"
    /\ lastEvent = 0
    /\ lost = FALSE
    /\ calls = 0
    /\ failures = 0
    /\ before = mem

-----------------------------------------------------------------------------
(* The host.                                                               *)
MayCall ==
    /\ hostPC = "idle"
    /\ ~lost
    /\ calls < MaxCalls
    /\ calls' = calls + 1

RejectCall(c) ==
    /\ MayCall
    /\ ~Valid(c)
    /\ UNCHANGED <<inOrder, cmds, hostPC, lastEvent, lost, failures, deviceVars>>

(* The first enqueueNDRangeKernel of a call fails.                         *)
EnqueueFails(c) ==
    /\ MayCall
    /\ Valid(c)
    /\ failures < MaxFailures
    /\ failures' = failures + 1
    /\ UNCHANGED <<inOrder, cmds, hostPC, lastEvent, lost, deviceVars>>

(* The first command of a call: the kernel reduce, for all blocks but the  *)
(* last, or the small scan if there is one block only.                     *)
EnqueueFirst(c) ==
    /\ MayCall
    /\ Valid(c)
    /\ IF allBlocks(c) > 1
       THEN /\ cmds' = Append(cmds, Command("reduce", c, Waits, TRUE))
            /\ hostPC' = "small"
       ELSE /\ cmds' = Append(cmds, Command("small", c, Waits, TRUE))
            /\ hostPC' = "scan"
    /\ UNCHANGED <<inOrder, lastEvent, lost, failures, deviceVars>>

\* Mutant: waits for what the caller asked to wait for, not for the reduce.
SmallWaits_Callers == Waits
\* Mutant: waits for the event that the same command will signal.
SmallWaits_Itself == {Len(cmds) + 1}

SmallWaits == {Len(cmds)}

EnqueueSmall ==
    /\ hostPC = "small"
    /\ UNCHANGED calls
    /\ LET c == cmds[Len(cmds)].args
       IN  cmds' = Append(cmds, Command("small", c, SmallWaits, FALSE))
    /\ hostPC' = "scan"
    /\ UNCHANGED <<inOrder, lastEvent, lost, failures, deviceVars>>

\* Mutant: the event of the small scan is returned.
ReturnedEvent_OfSmall == Len(cmds)

ReturnedEvent == Len(cmds) + 1

EnqueueScan ==
    /\ hostPC = "scan"
    /\ UNCHANGED calls
    /\ LET c == cmds[Len(cmds)].args
       IN  cmds' = Append(cmds, Command("scan", c, {Len(cmds)}, FALSE))
    /\ lastEvent' = ReturnedEvent
    /\ hostPC' = "idle"
    /\ UNCHANGED <<inOrder, lost, failures, deviceVars>>

(* A later enqueueNDRangeKernel fails: the exception leaves the commands   *)
(* before it in flight and returns no event.                               *)
EnqueueLaterFails ==
    /\ hostPC \in {"small", "scan"}
    /\ failures < MaxFailures
    /\ failures' = failures + 1
    /\ hostPC' = "idle"
    /\ lost' = TRUE
    /\ UNCHANGED <<inOrder, cmds, lastEvent, calls, deviceVars>>

QueueFinish ==
    /\ lost
    /\ \A i \in 1 .. Len(cmds) : IsComplete(i)
    /\ lost' = FALSE
    /\ UNCHANGED <<inOrder, cmds, hostPC, lastEvent, calls, failures, deviceVars>>

-----------------------------------------------------------------------------
(* The device.                                                             *)
Start(i) ==
    /\ Ready(i)
    /\ cmds' = [cmds EXCEPT ![i].status = "running"]
    /\ before' = IF cmds[i].first THEN mem ELSE before
    /\ UNCHANGED <<inOrder, hostVars, mem, sums>>

RunGroup(i, g, kind) ==
    /\ cmds[i].status = "running"
    /\ cmds[i].kind = kind
    /\ g \in cmds[i].todo
    /\ cmds' = [cmds EXCEPT ![i].todo = @ \ {g}]
    /\ UNCHANGED <<inOrder, hostVars, before>>

RunReduce(i, g) ==
    /\ RunGroup(i, g, "reduce")
    /\ LET c == cmds[i].args
           values == [j \in 0 .. ReduceLen(c) - 1 |-> Cell(mem, c.in, ReduceIndex(c, g, j))]
       IN  sums' = [sums EXCEPT ![g] = SumOf(values, ReduceLen(c))]
    /\ UNCHANGED mem

(* An exclusive scan of all maxBlocks sums, the stale ones included.       *)
RunSmall(i) ==
    /\ RunGroup(i, 0, "small")
    /\ sums' = [g \in 0 .. maxBlocks - 1 |->
                   OffsetValue(mem, cmds[i].args) (+) SumOf(sums, g)]
    /\ UNCHANGED mem

RunScan(i, g) ==
    /\ RunGroup(i, g, "scan")
    /\ LET c == cmds[i].args
           values == [j \in 0 .. ScanLen(c, g) - 1 |-> Cell(mem, c.in, ScanIndex(c, g, j))]
       IN  mem' = [mem EXCEPT ![c.out] = [k \in CellsOf(c.out) |->
                      LET j == k - ScanIndex(c, g, 0)
                      IN  IF j \in 0 .. ScanLen(c, g) - 1
                          THEN sums[g] (+) SumOf(values, j)
                          ELSE @[k]]]
    /\ UNCHANGED sums

Complete(i) ==
    /\ cmds[i].status = "running"
    /\ cmds[i].todo = {}
    /\ cmds' = [cmds EXCEPT ![i].status = "complete"]
    /\ UNCHANGED <<inOrder, hostVars, deviceVars>>

-----------------------------------------------------------------------------
HostStep ==
    \/ \E c \in Calls : RejectCall(c) \/ EnqueueFails(c) \/ EnqueueFirst(c)
    \/ EnqueueSmall
    \/ EnqueueScan
    \/ EnqueueLaterFails
    \/ QueueFinish

Work ==
    \E i \in 1 .. Len(cmds) :
        \/ Start(i)
        \/ \E g \in cmds[i].todo : RunReduce(i, g) \/ RunScan(i, g)
        \/ RunSmall(i)
        \/ Complete(i)

Next == HostStep \/ Work

SafeSpec == Init /\ [][Next]_vars

\* The device executes what is ready; the host finishes a call it started.
Spec ==
    /\ SafeSpec
    /\ WF_vars(Work)
    /\ WF_vars(EnqueueSmall \/ EnqueueScan)

-----------------------------------------------------------------------------
CommandType ==
    [kind : {"reduce", "small", "scan"}, args : {c \in Calls : Valid(c)},
     call : Nat, waits : SUBSET Nat, todo : SUBSET Nat,
     status : {"queued", "running", "complete"}, first : BOOLEAN]

MemoryOK ==
    /\ DOMAIN mem = Buffers
    /\ \A b \in Buffers : DOMAIN mem[b] = CellsOf(b)
    /\ DOMAIN sums = 0 .. maxBlocks - 1

\* A command waits for earlier commands only, was enqueued by a call that
\* passed validation, and has only its own work-groups to run.
CommandsOK(q) ==
    /\ q \in Seq(CommandType)
    /\ \A i \in 1 .. Len(q) :
          /\ q[i].waits \subseteq 1 .. i - 1
          /\ q[i].todo \subseteq 0 .. GroupCount(q[i].kind, q[i].args) - 1

HostOK ==
    /\ inOrder \in BOOLEAN
    /\ hostPC \in {"idle", "small", "scan"}
    /\ hostPC # "idle" => Len(cmds) > 0
    /\ lastEvent \in 0 .. Len(cmds)
    /\ lost \in BOOLEAN
    /\ calls \in Nat
    /\ failures \in Nat

(* The types of the buffers, of the commands the calls put in the queue    *)
(* and of the state of the host.                                           *)
TypeOK == MemoryOK /\ CommandsOK(cmds) /\ HostOK

(* The assertions of scan.cpp:470-472, for every call that reaches them:   *)
(* at least one block and no more than sums has room for, all blocks but   *)
(* the last full, and every element in a block.                            *)
AssertionsHold ==
    \A i \in 1 .. Len(cmds) :
        LET c == cmds[i].args
        IN  /\ allBlocks(c) > 0 /\ allBlocks(c) <= maxBlocks
            /\ (allBlocks(c) - 1) * blockSize(c) <= c.elements
            /\ allBlocks(c) * blockSize(c) >= c.elements

(* scan.h documents an exception for a range or an offsetIndex that        *)
(* overruns its buffer: the kernels that have groups left to run read and  *)
(* write only cells of the buffers.                                        *)
InBounds ==
    \A i \in 1 .. Len(cmds) :
        LET c == cmds[i].args
        IN  \A g \in cmds[i].todo :
              CASE cmds[i].kind = "reduce" ->
                      \A j \in 0 .. ReduceLen(c) - 1 :
                          ReduceIndex(c, g, j) \in CellsOf(c.in)
                [] cmds[i].kind = "small" ->
                      c.offset = "buffer" =>
                          c.offsetIndex \in CellsOf(c.offsetBuffer)
                [] cmds[i].kind = "scan" ->
                      \A j \in 0 .. ScanLen(c, g) - 1 :
                          ScanIndex(c, g, j) \in CellsOf(c.in) \intersect CellsOf(c.out)

(* The calls whose sizes can be represented in size_t and cl_uint, rounded *)
(* up to whole blocks.                                                     *)
CallsFit ==
    \A c \in Calls :
        /\ c.elements * ElementSize < SizeT
        /\ maxBlocks * blockSize(c) < Uint
        /\ c.offsetIndex + 1 < Uint
        /\ (c.offsetIndex + 1) * ElementSize < SizeT

(* As in Reduce: waiting for the event of the previous call must be enough *)
(* to keep the commands of two calls, which share sums, apart.             *)
ExecutionsDisjoint ==
    \A i, j \in 1 .. Len(cmds) :
        cmds[i].call < cmds[j].call /\ ~IsComplete(i) => ~Ready(j) /\ cmds[j].status = "queued"

\* The contents of the buffers after call c, if they were m before.
ScanOf(m, c) ==
    [m EXCEPT ![c.out] = [k \in CellsOf(c.out) |->
        IF k < c.elements
        THEN OffsetValue(m, c) (+) SumOf(m[c.in], k)
        ELSE @[k]]]

(* The @post of scan.h:327-328: when a call's last command is complete,    *)
(* element i is the sum of the elements strictly before i plus the offset, *)
(* all as they were when the call started to execute; in place or not,     *)
(* also when the scan overwrites the offset, whatever earlier calls left   *)
(* in sums.  Nothing else in the caller's buffers has changed.             *)
ScanResult ==
    \A i \in 1 .. Len(cmds) :
        /\ cmds[i].kind = "scan"
        /\ IsComplete(i)
        /\ \A j \in i + 1 .. Len(cmds) : cmds[j].status = "queued"
        => mem = ScanOf(before, cmds[i].args)

(* Nothing an enqueue has put in the queue is stuck: every command         *)
(* completes, also after a call that failed half way.                      *)
CommandsComplete ==
    \A i \in 1 .. 3 * MaxCalls :
        i <= Len(cmds) ~> i <= Len(cmds) /\ IsComplete(i)

=============================================================================
