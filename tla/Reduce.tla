------------------------------- MODULE Reduce -------------------------------
(***************************************************************************)
(* clogs::detail::Reduce (src/src/reduce.cpp): one object, its two enqueue *)
(* methods, the commands they put in a command queue and the device that   *)
(* executes them.  The kernel itself is ReduceKernel.                      *)
(*                                                                         *)
(* The caller obeys the two rules of the reference manual: calls do not    *)
(* overlap, and on an out-of-order queue each call waits for the event     *)
(* that the previous one returned.  When a call fails half way there is no *)
(* event to wait for, and the caller waits for the queue to drain.         *)
(***************************************************************************)
EXTENDS ReduceKernel, Sequences

CONSTANTS
    Calls,          \* the calls a program makes, see CallType
    ElementSize,    \* size of an element in bytes
    SizeT,          \* 2^64 in the code: size_t is taken modulo this
    MaxCalls,       \* bound on the calls explored
    MaxFailures     \* bound on the OpenCL calls that fail

VARIABLES
    inOrder,        \* whether the queue executes commands in order
    cmds,           \* the commands enqueued so far
    hostPC,         \* where the host is: "idle", "read" or "wait"
    lastEvent,      \* the event returned by the last call that returned one
    lost,           \* a call failed with work in flight and returned no event
    calls,          \* number of calls so far
    failures,       \* number of OpenCL calls that failed
    reported        \* commands whose event was passed to the event callback

hostVars ==
    <<inOrder, cmds, hostPC, lastEvent, lost, calls, failures, reported>>
vars == <<kernelVars, hostVars>>

CallType ==
    [form : {"buffer", "host"}, blocking : BOOLEAN, outNull : BOOLEAN,
     first : 0 .. SizeT - 1, elements : 0 .. SizeT - 1, outPosition : Nat,
     inBytes : Nat, outBytes : Nat, readable : BOOLEAN, writable : BOOLEAN]

-----------------------------------------------------------------------------
\* The element of sums that the host method reads back.
Slot == <<"sums", Blocks>>

(* Mutant: the sum first + elements is trusted not to overflow.            *)
RangeFits_NoOverflowCheck(c) ==
    c.inBytes \div ElementSize >= (c.first + c.elements) % SizeT

(* The range [first, first + elements) lies in the input buffer.           *)
RangeFits(c) ==
    /\ (c.first + c.elements) % SizeT >= c.first
    /\ c.inBytes \div ElementSize >= (c.first + c.elements) % SizeT

(* The destination: the caller's buffer, or sums[reduceBlocks] for the     *)
(* method that copies the result to host memory.                           *)
DestinationFits(c) ==
    IF c.form = "buffer"
    THEN c.outBytes \div ElementSize > c.outPosition /\ c.writable
    ELSE ~c.outNull

Valid(c) ==
    /\ RangeFits(c)
    /\ DestinationFits(c)
    /\ c.readable
    /\ c.elements # 0

\* The cell the result goes to; the position is passed to the kernel as cl_uint.
Destination(c) ==
    IF c.form = "buffer" THEN <<"out", c.outPosition % Uint>> ELSE Slot

RequestOf(c) ==
    [first |-> c.first, elements |-> c.elements, out |-> Destination(c)]

ASSUME SizesAssumption == ElementSize \in Nat \ {0} /\ SizeT \in Nat \ {0}
ASSUME BoundsAssumption == MaxCalls \in Nat /\ MaxFailures \in Nat
ASSUME CallsAssumption ==
    /\ Calls \subseteq CallType
    /\ \A c \in Calls : Valid(c) => RequestOf(c) \in Requests

(* What the cast of outPosition to cl_uint needs of an accepted call.      *)
(* enqueue does not check it: without this assumption AccessesInBounds     *)
(* fails, as the result of a call with a larger position is written to     *)
(* another element of the output buffer.                                   *)
ASSUME PositionsAssumption ==
    \A c \in Calls : c.form = "buffer" /\ Valid(c) => c.outPosition < Uint

-----------------------------------------------------------------------------
(* Command queue and events.  A command is named by its position; Waits    *)
(* are the events the caller passes.                                       *)
Waits == IF inOrder \/ lastEvent = 0 THEN {} ELSE {lastEvent}

NoSum == Once({})

ReduceCommand(c) ==
    [kind |-> "reduce", call |-> c, waits |-> Waits, status |-> "queued",
     launch |-> 0, value |-> NoSum]

\* Mutant: the read waits for its own event.
ReadCommand_WaitsForItself(c, k) ==
    [kind |-> "read", call |-> c, waits |-> {k + 1}, status |-> "queued",
     launch |-> 0, value |-> NoSum]

\* The copy of sums[reduceBlocks] to host memory, after command k.
ReadCommand(c, k) ==
    [kind |-> "read", call |-> c, waits |-> {k}, status |-> "queued",
     launch |-> 0, value |-> NoSum]

IsComplete(i) == cmds[i].status = "complete"

\* The device may start command i.
Ready(i) ==
    /\ cmds[i].status = "queued"
    /\ \A w \in cmds[i].waits : IsComplete(w)
    /\ inOrder => \A j \in 1 .. i - 1 : IsComplete(j)

HostInit ==
    /\ Init
    /\ inOrder \in BOOLEAN
    /\ cmds = <<>>
    /\ hostPC = "idle"
    /\ lastEvent = 0
    /\ lost = FALSE
    /\ calls = 0
    /\ failures = 0
    /\ reported = {}

-----------------------------------------------------------------------------
(* The host.                                                               *)
MayCall ==
    /\ hostPC = "idle"
    /\ ~lost
    /\ calls < MaxCalls
    /\ calls' = calls + 1

(* A call that fails validation throws and changes nothing else.           *)
RejectCall(c) ==
    /\ MayCall
    /\ ~Valid(c)
    /\ UNCHANGED <<kernelVars, inOrder, cmds, hostPC, lastEvent, lost,
                   failures, reported>>

(* enqueueNDRangeKernel fails: nothing was enqueued.                       *)
EnqueueFails(c) ==
    /\ MayCall
    /\ Valid(c)
    /\ failures < MaxFailures
    /\ failures' = failures + 1
    /\ UNCHANGED <<kernelVars, inOrder, cmds, hostPC, lastEvent, lost,
                   reported>>

\* Mutant: *event is not assigned.
EnqueueReduce_NoEvent(c) ==
    /\ MayCall
    /\ Valid(c)
    /\ cmds' = Append(cmds, ReduceCommand(c))
    /\ reported' = reported \union {Len(cmds')}
    /\ hostPC' = IF c.form = "buffer" THEN hostPC ELSE "read"
    /\ UNCHANGED <<kernelVars, inOrder, lastEvent, lost, failures>>

(* Both methods start by enqueueing the kernel and reporting its event.    *)
(* The buffer method returns that event; the other one goes on.            *)
EnqueueReduce(c) ==
    /\ MayCall
    /\ Valid(c)
    /\ cmds' = Append(cmds, ReduceCommand(c))
    /\ reported' = reported \union {Len(cmds')}
    /\ IF c.form = "buffer"
       THEN lastEvent' = Len(cmds') /\ UNCHANGED hostPC
       ELSE hostPC' = "read" /\ UNCHANGED lastEvent
    /\ UNCHANGED <<kernelVars, inOrder, lost, failures>>

\* Mutant: returns the event of the kernel instead of the event of the read.
EnqueueRead_ReturnsReduceEvent ==
    /\ hostPC = "read"
    /\ LET k == Len(cmds)
           c == cmds[k].call
       IN  /\ cmds' = Append(cmds, ReadCommand(c, k))
           /\ reported' = reported \union {k + 1}
           /\ lastEvent' = k
           /\ hostPC' = IF c.blocking THEN "wait" ELSE "idle"
    /\ UNCHANGED <<kernelVars, inOrder, lost, calls, failures>>

(* enqueueReadBuffer, which waits for the kernel, and the return of its    *)
(* event; a blocking read returns only when it has completed.              *)
EnqueueRead ==
    /\ hostPC = "read"
    /\ LET k == Len(cmds)
           c == cmds[k].call
       IN  /\ cmds' = Append(cmds, ReadCommand(c, k))
           /\ reported' = reported \union {k + 1}
           /\ lastEvent' = k + 1
           /\ hostPC' = IF c.blocking THEN "wait" ELSE "idle"
    /\ UNCHANGED <<kernelVars, inOrder, lost, calls, failures>>

(* enqueueReadBuffer fails: the exception leaves the kernel in flight.     *)
EnqueueReadFails ==
    /\ hostPC = "read"
    /\ failures < MaxFailures
    /\ failures' = failures + 1
    /\ hostPC' = "idle"
    /\ lost' = TRUE
    /\ UNCHANGED <<kernelVars, inOrder, cmds, lastEvent, calls, reported>>

(* The blocking read has completed.                                        *)
ReadReturns ==
    /\ hostPC = "wait"
    /\ IsComplete(lastEvent)
    /\ hostPC' = "idle"
    /\ UNCHANGED <<kernelVars, inOrder, cmds, lastEvent, lost, calls,
                   failures, reported>>

(* The caller waits for everything in the queue.                           *)
QueueFinish ==
    /\ lost
    /\ \A i \in 1 .. Len(cmds) : IsComplete(i)
    /\ lost' = FALSE
    /\ UNCHANGED <<kernelVars, inOrder, cmds, hostPC, lastEvent, calls,
                   failures, reported>>

-----------------------------------------------------------------------------
(* The device.                                                             *)
StartReduce(i) ==
    /\ Ready(i)
    /\ cmds[i].kind = "reduce"
    /\ Launch(RequestOf(cmds[i].call))
    /\ cmds' = [cmds EXCEPT ![i].status = "running", ![i].launch = launch + 1]
    /\ UNCHANGED <<inOrder, hostPC, lastEvent, lost, calls, failures, reported>>

ExecuteGroup(g) ==
    /\ GroupStep(g)
    /\ UNCHANGED hostVars

FinishReduce(i) ==
    /\ cmds[i].status = "running"
    /\ Complete
    /\ cmds' = [cmds EXCEPT ![i].status = "complete"]
    /\ UNCHANGED <<inOrder, hostPC, lastEvent, lost, calls, failures, reported>>

ExecuteRead(i) ==
    /\ Ready(i)
    /\ cmds[i].kind = "read"
    /\ cmds' = [cmds EXCEPT ![i].status = "complete", ![i].value = out[Slot]]
    /\ UNCHANGED <<kernelVars, inOrder, hostPC, lastEvent, lost, calls,
                   failures, reported>>

-----------------------------------------------------------------------------
HostStep ==
    \/ \E c \in Calls : RejectCall(c) \/ EnqueueFails(c) \/ EnqueueReduce(c)
    \/ EnqueueRead
    \/ EnqueueReadFails
    \/ ReadReturns
    \/ QueueFinish

Work ==
    \/ \E i \in 1 .. Len(cmds) :
          StartReduce(i) \/ FinishReduce(i) \/ ExecuteRead(i)
    \/ \E g \in Groups : ExecuteGroup(g)

Next == HostStep \/ Work

\* The device executes what is ready; the host finishes a call it started.
Spec ==
    /\ HostInit
    /\ [][Next]_vars
    /\ WF_vars(Work)
    /\ WF_vars(EnqueueRead)

-----------------------------------------------------------------------------
HostTypeOK ==
    /\ TypeOK
    /\ inOrder \in BOOLEAN
    /\ \A i \in 1 .. Len(cmds) :
          /\ cmds[i].kind \in {"reduce", "read"}
          /\ cmds[i].status \in {"queued", "running", "complete"}
          /\ cmds[i].waits \subseteq 1 .. i - 1
          /\ cmds[i].call \in Calls
    /\ hostPC \in {"idle", "read", "wait"}
    /\ lastEvent \in 0 .. Len(cmds)
    /\ lost \in BOOLEAN
    /\ calls \in 0 .. MaxCalls
    /\ failures \in 0 .. MaxFailures
    /\ reported = 1 .. Len(cmds)

(* The manual asks the caller to keep the executions of two enqueues on    *)
(* one object apart.  Waiting for the event the previous call returned     *)
(* must be enough: no second kernel can start while one is executing.      *)
ExecutionsDisjoint ==
    running => \A i \in 1 .. Len(cmds) : cmds[i].kind = "reduce" => ~Ready(i)

(* The host method delivers the sum its own kernel computed: not an old    *)
(* sum, nor that of a later call that uses the same slot of sums.          *)
HostGetsOwnResult ==
    \A i \in 1 .. Len(cmds) :
        cmds[i].kind = "read" /\ IsComplete(i) =>
            LET c == cmds[i].call
            IN  cmds[i].value =
                   Once({<<cmds[i - 1].launch, c.first + j>> :
                             j \in 0 .. c.elements - 1})

(* An accepted call never makes the kernel read outside the input buffer,  *)
(* whatever first and elements are, nor write elsewhere than to the        *)
(* element of the output buffer that the caller named; with the types, and *)
(* the event of every command, also of calls that failed later, reported   *)
(* to the callback.                                                        *)
AccessesInBounds ==
    /\ HostTypeOK
    /\ \A i \in 1 .. Len(cmds) :
        cmds[i].status = "running" =>
            LET c == cmds[i].call
            IN  /\ \A g \in Groups : \A e \in BlockSum(g) :
                      e[2] < c.inBytes \div ElementSize
                /\ c.form = "buffer" => request.out = <<"out", c.outPosition>>

(* Nothing an enqueue has put in the queue is stuck: every command         *)
(* completes, also after a call that failed half way.                      *)
CommandsComplete ==
    \A i \in 1 .. 2 * MaxCalls :
        i <= Len(cmds) ~> i <= Len(cmds) /\ IsComplete(i)

=============================================================================
