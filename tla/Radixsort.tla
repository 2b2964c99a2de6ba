----------------------------- MODULE Radixsort -----------------------------
(***************************************************************************)
(* clogs::detail::Radixsort (src/src/radixsort.cpp): one object, its       *)
(* enqueue and setTemporaryBuffers methods, the commands of a call and the *)
(* device that executes them.  A call sorts in passes of radixBits bits    *)
(* that move the pairs between the caller's buffers and temporary ones.    *)
(*                                                                         *)
(* Buffers are named by pairs; the buffers that call n allocates are       *)
(* <<"keys", n>> and <<"values", n>>.  The runtime keeps a buffer alive    *)
(* while commands use it.  Values are numbers that tell the pairs apart.   *)
(***************************************************************************)
EXTENDS Utils, Integers, Sequences, RadixsortDigits

CONSTANTS
    Configs,        \* [params, valueSize, inOrder]: the tuned parameters, the
                    \* size of a value or 0, and whether the queue is in order
    BufferBytes,    \* the size of each of the caller's buffers
    ReadWrite,      \* the buffers created with CL_MEM_READ_WRITE
    KeyData,        \* the initial keys, from index 0, for every key buffer
    Calls,          \* [keys, values, elements, maxBits] of the calls made
    Temporaries,    \* pairs of buffers a program may lend to the object
    CHAR_BIT, keySize,
    SizeT, Uint,    \* 2^64 and 2^32 in the code
    MaxCalls,       \* bound on the calls of enqueue and setTemporaryBuffers
    MaxFailures     \* bound on the OpenCL calls that fail

VARIABLES
    config,     \* the member of Configs, fixed
    mem,        \* the contents of the buffers, from index 0
    histogram,  \* the object's own buffer, one row per block
    tmp,        \* tmpKeys and tmpValues; NoBuffer when not set
    cmds,       \* the commands enqueued so far
    host,       \* the progress of the call to enqueue, see Begin
    lastEvent,  \* the event returned by the last call that returned one
    lost,       \* a call failed with work in flight and returned no event
    calls, failures,
    before      \* mem when the newest call to start executing did so

hostVars   == <<tmp, host, lastEvent, lost, calls, failures>>
deviceVars == <<histogram, before>>
vars == <<config, mem, cmds, hostVars, deviceVars>>

NoBuffer == <<"none", 0>>
KeyBuffers   == {b \in DOMAIN BufferBytes : b[1] = "keys"}
ValueBuffers == {b \in DOMAIN BufferBytes : b[1] = "values"}

ParamsType ==
    [radixBits : Nat \ {0}, warpSizeSchedule : Nat \ {0},
     reduceWorkGroupSize : Nat \ {0}, scanWorkGroupSize : Nat \ {0},
     scatterWorkGroupSize : Nat \ {0}, scatterWorkScale : Nat \ {0},
     scanBlocks : Nat]

ASSUME SizesAssumption ==
    /\ CHAR_BIT \in Nat \ {0} /\ keySize \in Nat \ {0}
    /\ SizeT \in Nat \ {0} /\ Uint \in Nat \ {0}
    /\ MaxCalls \in Nat /\ MaxFailures \in Nat
\* The second conjunct is arithmetic; the provers know nothing of powers.
ASSUME ConfigsAssumption ==
    /\ Configs \subseteq [params : ParamsType, valueSize : Nat, inOrder : BOOLEAN]
    /\ \A f \in Configs : 2 ^ f.params.radixBits \in Nat
ASSUME BuffersAssumption ==
    \A b \in DOMAIN BufferBytes :
        /\ BufferBytes[b] \in Nat
        /\ b[1] \in {"keys", "values"}
        /\ b[2] \in Int /\ b[2] <= 0
ASSUME CallsAssumption ==
    Calls \subseteq [keys : KeyBuffers \union {NoBuffer},
                    values : ValueBuffers \union {NoBuffer},
                    elements : Nat, maxBits : Nat]
ASSUME TemporariesAssumption ==
    Temporaries \subseteq
        (KeyBuffers \union {NoBuffer}) \X (ValueBuffers \union {NoBuffer})

Garbage  == -1
Idle     == [pc |-> "idle"]

params == config.params
radix(p) == 2 ^ p.radixBits
scatterSlice(p) == MaxOf(p.warpSizeSchedule, radix(p))
slicesPerWorkGroup(p) == p.scatterWorkGroupSize \div scatterSlice(p)

\* The preprocessor conditions of the kernels on which the host relies.
KernelCompiles(p) ==
    /\ p.reduceWorkGroupSize >= radix(p)
    /\ p.scanWorkGroupSize >= radix(p)
    /\ (p.scanBlocks * radix(p)) % p.scanWorkGroupSize = 0
    /\ radix(p) >= 4
    /\ p.scatterWorkGroupSize % scatterSlice(p) = 0
    /\ scatterSlice(p) * p.scatterWorkScale < 256

\* Tuning proposes whole work-groups of slices only.
Tuned(p) == p.scanBlocks > 0 /\ p.scanBlocks % slicesPerWorkGroup(p) = 0

-----------------------------------------------------------------------------
(* Division of the elements into blocks.                                   *)
getTileSize ==
    MaxOf(params.reduceWorkGroupSize, params.scatterWorkScale * params.scatterWorkGroupSize)

getBlockSize(elements) ==
    ((elements + getTileSize * params.scanBlocks - 1)
        \div (getTileSize * params.scanBlocks)) * getTileSize

\* Mutant: the rounding to whole work-groups of slices is forgotten.
getBlocks_NotRounded(elements) ==
    (elements + getBlockSize(elements) - 1) \div getBlockSize(elements)

getBlocks(elements) ==
    roundUp((elements + getBlockSize(elements) - 1) \div getBlockSize(elements),
            slicesPerWorkGroup(params))

\* The part of the keys that the kernels' block b handles, in uint.
BlockStart(e, b) == (b * getBlockSize(e)) % Uint
BlockEnd(e, b) == MinOf((BlockStart(e, b) + getBlockSize(e)) % Uint, e % Uint)

-----------------------------------------------------------------------------
(* Validation; the products are computed in size_t.                        *)
Fits(b, elements, size) ==
    b # NoBuffer /\ BufferBytes[b] >= (elements * size) % SizeT

Valid(c) ==
    /\ Fits(c.keys, c.elements, keySize)
    /\ config.valueSize # 0 => Fits(c.values, c.elements, config.valueSize)
    /\ c.keys \in ReadWrite
    /\ config.valueSize # 0 => c.values \in ReadWrite
    /\ c.elements # 0
    /\ c.maxBits <= CHAR_BIT * keySize

-----------------------------------------------------------------------------
(* Commands.  in and out are pairs of a key and a value buffer.            *)
IsComplete(i) == cmds[i].status = "complete"

Ready(i) ==
    /\ cmds[i].status = "queued"
    /\ \A w \in cmds[i].waits : IsComplete(w)
    /\ config.inOrder => \A j \in 1 .. i - 1 : IsComplete(j)

Groups(kind, elements) ==
    CASE kind = "reduce"  -> 0 .. getBlocks(elements) - 1
      [] kind = "scatter" -> 0 .. getBlocks(elements) \div slicesPerWorkGroup(params) - 1
      [] OTHER            -> {0}

CellsOf(b) ==
    0 .. BufferBytes[b] \div
            (IF b[1] = "keys" THEN keySize ELSE MaxOf(config.valueSize, 1)) - 1

Caller == <<host.keys, host.values>>

\* Mutant: the values are not swapped with the keys.
Cur_CallersValues == <<IF host.swapped THEN host.temp[1] ELSE host.keys, host.values>>

Cur    == IF host.swapped THEN host.temp ELSE Caller
NextOf == IF host.swapped THEN Caller ELSE host.temp

Init ==
    /\ config \in {c \in Configs : KernelCompiles(c.params) /\ Tuned(c.params)}
    /\ \E keys \in KeyData :
          mem = [b \in DOMAIN BufferBytes |->
                    [i \in CellsOf(b) |-> IF b[1] = "keys" THEN keys[i] ELSE i]]
    /\ histogram = [b \in 0 .. params.scanBlocks - 1 |->
                       [d \in 0 .. radix(params) - 1 |-> Garbage]]
    /\ tmp = <<NoBuffer, NoBuffer>>
    /\ cmds = <<>>
    /\ host = Idle
    /\ lastEvent = 0
    /\ lost = FALSE
    /\ calls = 0
    /\ failures = 0
    /\ before = mem

-----------------------------------------------------------------------------
(* The host.  The caller makes the next call once the previous returned,   *)
(* waits for its event if the queue may reorder, and finishes the queue if *)
(* a call failed with commands in flight.                                  *)
MayCall ==
    /\ host = Idle
    /\ ~lost
    /\ calls < MaxCalls
    /\ calls' = calls + 1

setTemporaryBuffers(pair) ==
    /\ MayCall
    /\ tmp' = pair
    /\ UNCHANGED <<config, mem, cmds, host, lastEvent, lost, failures, deviceVars>>

RejectCall(c) ==
    /\ MayCall
    /\ ~Valid(c)
    /\ UNCHANGED <<config, mem, cmds, tmp, host, lastEvent, lost, failures, deviceVars>>

\* Mutant: a temporary buffer is used whatever its size.
Usable_AnySize(b, elements, size) == b # NoBuffer

Usable(b, elements, size) == Fits(b, elements, size)

\* The temporary buffers of a call and the ones that it has to allocate.
TempOf(c) ==
    <<IF Usable(tmp[1], c.elements, keySize) THEN tmp[1] ELSE <<"keys", calls'>>,
      IF config.valueSize = 0 THEN NoBuffer
      ELSE IF Usable(tmp[2], c.elements, config.valueSize) THEN tmp[2]
      ELSE <<"values", calls'>>>>

Allocated(c) == {TempOf(c)[1], TempOf(c)[2]} \ {NoBuffer, tmp[1], tmp[2]}

SortedBits(c) == IF c.maxBits = 0 THEN CHAR_BIT * keySize ELSE c.maxBits

Begin(c) ==
    /\ MayCall
    /\ Valid(c)
    /\ mem' = [b \in DOMAIN mem \union Allocated(c) |->
                  IF b \in DOMAIN mem THEN mem[b]
                  ELSE [i \in 0 .. c.elements - 1 |-> Garbage]]
    /\ host' = [pc |-> "reduce", keys |-> c.keys, values |-> c.values,
                elements |-> c.elements, bits |-> SortedBits(c), temp |-> TempOf(c),
                firstBit |-> 0, swapped |-> FALSE, first |-> TRUE,
                waits |-> IF config.inOrder \/ lastEvent = 0 THEN {} ELSE {lastEvent}]
    /\ UNCHANGED <<config, cmds, tmp, lastEvent, lost, failures, deviceVars>>

(* The allocation of a temporary buffer fails: nothing is in flight.       *)
AllocateFails(c) ==
    /\ MayCall
    /\ Valid(c)
    /\ Allocated(c) # {}
    /\ failures < MaxFailures
    /\ failures' = failures + 1
    /\ UNCHANGED <<config, mem, cmds, tmp, host, lastEvent, lost, deviceVars>>

\* Mutant: every command waits for what the caller asked to wait for.
NextWaits_Callers == host.waits
\* Mutant: a command waits for its own event.
NextWaits_Itself == {Len(cmds) + 2}

NextWaits == {Len(cmds) + 1}

Enqueue(kind, in, out, h) ==
    /\ host.pc = kind
    /\ cmds' = Append(cmds,
          [kind |-> kind, in |-> in, out |-> out, elements |-> host.elements,
           firstBit |-> host.firstBit, call |-> calls, waits |-> host.waits,
           first |-> host.first, last |-> h.pc = "return",
           keys |-> host.keys, values |-> host.values, bits |-> host.bits,
           todo |-> Groups(kind, host.elements), status |-> "queued"])
    /\ host' = IF h.pc = "return" THEN Idle
               ELSE [h EXCEPT !.waits = NextWaits, !.first = FALSE]
    /\ lastEvent' = IF h.pc = "return" THEN Len(cmds') ELSE lastEvent
    /\ UNCHANGED <<config, mem, tmp, lost, calls, failures, deviceVars>>

EnqueueReduce == Enqueue("reduce", Cur, NextOf, [host EXCEPT !.pc = "scan"])
EnqueueScan == Enqueue("scan", Cur, NextOf, [host EXCEPT !.pc = "scatter"])

\* Mutant: the sorted pairs are left where the last pass put them.
AfterPasses_NoCopy(swapped) == "return"

AfterPasses(swapped) == IF swapped THEN "copyKeys" ELSE "return"

EnqueueScatter ==
    LET nextBit == host.firstBit + params.radixBits
    IN  Enqueue("scatter", Cur, NextOf,
                [host EXCEPT
                    !.pc = IF nextBit < host.bits THEN "reduce"
                           ELSE AfterPasses(~host.swapped),
                    !.firstBit = nextBit,
                    !.swapped = ~host.swapped])

EnqueueCopyKeys ==
    Enqueue("copyKeys", Cur, NextOf,
            [host EXCEPT !.pc = IF config.valueSize # 0 THEN "copyValues" ELSE "return"])

EnqueueCopyValues == Enqueue("copyValues", Cur, NextOf, [host EXCEPT !.pc = "return"])

(* Some enqueue of a call fails: the exception leaves the commands before  *)
(* it in flight and returns no event.                                      *)
EnqueueFails ==
    /\ host # Idle
    /\ failures < MaxFailures
    /\ failures' = failures + 1
    /\ host' = Idle
    /\ lost' = TRUE
    /\ UNCHANGED <<config, mem, cmds, tmp, lastEvent, calls, deviceVars>>

QueueFinish ==
    /\ lost
    /\ \A i \in 1 .. Len(cmds) : IsComplete(i)
    /\ lost' = FALSE
    /\ UNCHANGED <<config, mem, cmds, tmp, host, lastEvent, calls, failures, deviceVars>>

-----------------------------------------------------------------------------
(* The device.                                                             *)
\* A work-group of a command that is ready, or that has started, runs.
RunGroup(i, g, kind) ==
    /\ Ready(i) \/ cmds[i].status = "running"
    /\ cmds[i].kind = kind
    /\ g \in cmds[i].todo
    /\ cmds' = [cmds EXCEPT
                   ![i].todo = @ \ {g},
                   ![i].status = IF cmds[i].todo = {g} THEN "complete" ELSE "running"]
    /\ before' = IF cmds[i].first /\ Ready(i) THEN mem ELSE before
    /\ UNCHANGED <<config, hostVars>>

RunReduce(i, g) ==
    /\ RunGroup(i, g, "reduce")
    /\ histogram' = [histogram EXCEPT ![g] =
          Histogram(mem[cmds[i].in[1]], BlockStart(cmds[i].elements, g),
                    BlockEnd(cmds[i].elements, g), cmds[i].firstBit, radix(params))]
    /\ UNCHANGED mem

RunScan(i) ==
    /\ RunGroup(i, 0, "scan")
    /\ histogram' = [b \in DOMAIN histogram |-> [d \in DOMAIN histogram[b] |->
                        Offset(histogram, getBlocks(cmds[i].elements), b, d)]]
    /\ UNCHANGED mem

\* mem with the cells at the given sources moved to their destinations.
Move(m, src, dst, to) ==
    [m EXCEPT ![dst] = [k \in DOMAIN m[dst] |->
        IF \E i \in DOMAIN to : to[i] = k
        THEN m[src][CHOOSE i \in DOMAIN to : to[i] = k] ELSE m[dst][k]]]

\* A work-group handles slicesPerWorkGroup blocks.
RunScatter(i, g) ==
    LET cmd  == cmds[i]
        e    == cmd.elements
        keys == mem[cmd.in[1]]
        BlockOf == [k \in UNION {BlockStart(e, b) .. BlockEnd(e, b) - 1 :
                        b \in {b \in DOMAIN histogram : b \div slicesPerWorkGroup(params) = g}}
                    |-> CHOOSE b \in DOMAIN histogram :
                           k \in BlockStart(e, b) .. BlockEnd(e, b) - 1]
        To == [k \in DOMAIN BlockOf |->
                  Destination(keys, BlockStart(e, BlockOf[k]), histogram[BlockOf[k]], k,
                              cmd.firstBit, radix(params))]
        moved == Move(mem, cmd.in[1], cmd.out[1], To)
    IN  /\ RunGroup(i, g, "scatter")
        /\ mem' = IF config.valueSize = 0 THEN moved
                  ELSE Move(moved, cmd.in[2], cmd.out[2], To)
        /\ UNCHANGED histogram

RunCopy(i) ==
    LET which == IF cmds[i].kind = "copyKeys" THEN 1 ELSE 2
    IN  /\ RunGroup(i, 0, "copyKeys") \/ RunGroup(i, 0, "copyValues")
        /\ mem' = Move(mem, cmds[i].in[which], cmds[i].out[which],
                       [k \in 0 .. cmds[i].elements - 1 |-> k])
        /\ UNCHANGED histogram

-----------------------------------------------------------------------------
EnqueueNext ==
    EnqueueReduce \/ EnqueueScan \/ EnqueueScatter \/ EnqueueCopyKeys \/ EnqueueCopyValues

HostStep ==
    \/ \E c \in Calls : RejectCall(c) \/ Begin(c) \/ AllocateFails(c)
    \/ \E pair \in Temporaries : setTemporaryBuffers(pair)
    \/ EnqueueNext
    \/ EnqueueFails
    \/ QueueFinish

Work ==
    \E i \in 1 .. Len(cmds) :
        \/ \E g \in cmds[i].todo : RunReduce(i, g) \/ RunScatter(i, g)
        \/ RunScan(i)
        \/ RunCopy(i)

Next == HostStep \/ Work

\* The device executes what is ready; the host finishes a call it started.
Spec == Init /\ [][Next]_vars /\ WF_vars(Work) /\ WF_vars(EnqueueNext)

-----------------------------------------------------------------------------
(* Properties.                                                             *)

BufferPair == (DOMAIN mem) \X (DOMAIN mem \union {NoBuffer})

CommandType ==
    [kind : {"reduce", "scan", "scatter", "copyKeys", "copyValues"},
     in : BufferPair, out : BufferPair,
     elements : Nat \ {0}, firstBit : Nat, call : 1 .. calls,
     waits : SUBSET (1 .. Len(cmds)), first : BOOLEAN, last : BOOLEAN,
     keys : DOMAIN mem, values : DOMAIN mem \union {NoBuffer},
     bits : 1 .. CHAR_BIT * keySize, todo : SUBSET Nat,
     status : {"queued", "running", "complete"}]

(* The types of the commands and of the state of the host.                 *)
TypeOK ==
    /\ cmds \in Seq(CommandType)
    /\ \A i \in 1 .. Len(cmds) :
          cmds[i].kind \in {"reduce", "scan", "scatter"} => cmds[i].firstBit < cmds[i].bits
    /\ host # Idle => host.pc \in {"reduce", "scan", "scatter", "copyKeys", "copyValues"}
    /\ lastEvent \in 0 .. Len(cmds)
    /\ DOMAIN histogram = 0 .. params.scanBlocks - 1
    /\ lost \in BOOLEAN /\ calls \in Nat /\ failures \in Nat

(* The assertions of radixsort.cpp:94, 156 and 227, and what the kernels   *)
(* rely on: the histogram has a row for every block, the scatter kernel's  *)
(* work-groups cover the blocks, and the blocks cover the elements.        *)
AssertionsHold ==
    /\ TypeOK
    /\ \A i \in 1 .. Len(cmds) :
        LET blocks == getBlocks(cmds[i].elements)
        IN  /\ blocks <= params.scanBlocks
            /\ blocks % slicesPerWorkGroup(params) = 0
            /\ blocks * getBlockSize(cmds[i].elements) >= cmds[i].elements

(* The calls whose sizes in bytes can be represented in size_t.            *)
CallsFit ==
    \A c \in Calls :
        /\ c.elements * keySize < SizeT
        /\ \A f \in Configs : c.elements * f.valueSize < SizeT

(* Every command reads and writes cells of its buffers only, also when it  *)
(* uses temporary buffers that were set for smaller sorts.                 *)
InBounds ==
    \A i \in 1 .. Len(cmds) :
        \A n \in IF config.valueSize = 0 THEN {1} ELSE {1, 2} :
            0 .. cmds[i].elements - 1 \subseteq
                DOMAIN mem[cmds[i].in[n]] \intersect DOMAIN mem[cmds[i].out[n]]

(* As in Reduce: waiting for the event of the previous call must be enough *)
(* to keep the commands of two calls, which share histogram, apart.        *)
ExecutionsDisjoint ==
    \A i, j \in 1 .. Len(cmds) :
        cmds[i].call < cmds[j].call /\ ~IsComplete(i) => ~Ready(j) /\ cmds[j].status = "queued"

\* Where a stable sort on the lower bits takes index k of the first n keys.
SortedTo(keys, n, bits) ==
    [k \in 0 .. n - 1 |->
        Cardinality({j \in 0 .. n - 1 :
            \/ keys[j] % 2 ^ bits < keys[k] % 2 ^ bits
            \/ keys[j] % 2 ^ bits = keys[k] % 2 ^ bits /\ j < k})]

(* The @post of radixsort.h:226-228: when the event of a call is complete, *)
(* the caller's own buffers hold the pairs they held when the call started *)
(* to execute, sorted with stability, whatever the number of passes; no    *)
(* other cell of the caller's buffers has changed, unless it was lent as a *)
(* temporary buffer.  The bits are those of all the passes.                *)
SortResult ==
    \A i \in 1 .. Len(cmds) :
        /\ cmds[i].last
        /\ IsComplete(i)
        /\ \A j \in i + 1 .. Len(cmds) : cmds[j].status = "queued"
        => LET c  == cmds[i]
               to == SortedTo(before[c.keys], c.elements, roundUp(c.bits, params.radixBits))
               temps == {cmds[j].out[n] : j \in 1 .. i, n \in {1, 2}} \ {c.keys, c.values}
               sorted == [before EXCEPT ![c.keys] = Move(before, c.keys, c.keys, to)[c.keys]]
               both == IF config.valueSize = 0 THEN sorted
                       ELSE Move(sorted, c.values, c.values, to)
           IN  \A b \in DOMAIN BufferBytes \ temps : mem[b] = both[b]

\* A call copied the keys back and failed to copy the values.
Torn ==
    \E i \in 1 .. Len(cmds) :
        /\ cmds[i].kind = "copyKeys"
        /\ config.valueSize # 0
        /\ IF i = Len(cmds) THEN host = Idle ELSE cmds[i + 1].call # cmds[i].call

(* A call that fails in the middle leaves the caller's pairs shuffled, but *)
(* once the queue is finished each pair is still there and still together, *)
(* unless it is the very last copy that failed: then keys of the last pass *)
(* stand beside values of the pass before.                                 *)
PairsSurvive ==
    /\ \A i \in 1 .. Len(cmds) : IsComplete(i)
    /\ host = Idle
    /\ ~Torn
    => \A i \in 1 .. Len(cmds) :
          LET c == cmds[i]
              PairAt(m, k) == <<m[c.keys][k], IF config.valueSize = 0 THEN 0 ELSE m[c.values][k]>>
              Count(m, x) == Cardinality({k \in 0 .. c.elements - 1 : PairAt(m, k) = x})
          IN  i = Len(cmds) =>
                \A k \in 0 .. c.elements - 1 :
                    Count(mem, PairAt(before, k)) = Count(before, PairAt(before, k))

(* Nothing an enqueue has put in the queue is stuck: again and again, also *)
(* after a call that failed half way, the host has returned and every      *)
(* command is complete.                                                    *)
CommandsComplete ==
    []<>(host = Idle /\ \A i \in 1 .. Len(cmds) : IsComplete(i))

=============================================================================
