-------------------------- MODULE RadixsortProofs --------------------------
(***************************************************************************)
(* Proofs about Radixsort: its types, the assertions of the host, that     *)
(* accepted calls stay inside the buffers and that calls do not overlap,   *)
(* for all tuned parameters, calls and temporary buffers.                  *)
(***************************************************************************)
EXTENDS Radixsort, UtilsProofs

-----------------------------------------------------------------------------
(* Division of the elements into blocks.                                   *)
ConfigOK == config \in Configs /\ KernelCompiles(params) /\ Tuned(params)

LEMMA ConfigParts ==
    ASSUME ConfigOK
    PROVE  /\ params \in ParamsType
           /\ config.valueSize \in Nat
           /\ config.inOrder \in BOOLEAN
           /\ params.scanBlocks \in Nat \ {0}
  BY ConfigsAssumption DEF ConfigOK, Tuned, params, ParamsType

(* A scatter work-group has at least one slice, and the histogram's rows   *)
(* make whole work-groups.                                                 *)
LEMMA SlicesFit ==
    ASSUME ConfigOK
    PROVE  /\ slicesPerWorkGroup(params) \in Nat \ {0}
           /\ \E m \in Nat : params.scanBlocks = m * slicesPerWorkGroup(params)
<1> DEFINE w == params.scatterWorkGroupSize
           s == scatterSlice(params)
           b == params.scanBlocks
           n == slicesPerWorkGroup(params)
<1>1. w \in Nat \ {0} /\ b \in Nat \ {0} /\ params \in ParamsType
  BY ConfigParts DEF ParamsType
<1>2. s \in Nat \ {0} /\ w % s = 0
  <2>1. radix(params) >= 4
    BY DEF ConfigOK, KernelCompiles
  <2>2. params.warpSizeSchedule \in Nat \ {0}
    BY <1>1 DEF ParamsType
  <2>3. radix(params) \in Nat
    BY ConfigsAssumption DEF ConfigOK, radix, params
  <2>4. s \in Nat \ {0}
    BY <2>1, <2>2, <2>3 DEF scatterSlice, MaxOf
  <2> QED
    BY <2>4 DEF ConfigOK, KernelCompiles
<1>3. n = w \div s /\ b % n = 0
  BY DEF slicesPerWorkGroup, ConfigOK, Tuned
<1> HIDE DEF w, s, b, n
<1>4. n \in Nat \ {0}
  <2>1. n \in Nat /\ w < n * s + s
    BY <1>1, <1>2, <1>3, DivBounds
  <2>2. n # 0
    <3> SUFFICES ASSUME n = 0 PROVE FALSE
      OBVIOUS
    <3>1. w < s
      BY <1>1, <1>2, <2>1
    <3> QED
      BY <1>1, <1>2, <3>1
  <2> QED
    BY <2>1, <2>2
<1>5. b = (b \div n) * n /\ b \div n \in Nat
  BY <1>1, <1>3, <1>4
<1> QED
  BY <1>4, <1>5 DEF b, n

(* radixsort.cpp:83-94: the blocks make whole work-groups, the histogram   *)
(* has a row for each of them, and they cover the elements.                *)
LEMMA BlocksFit ==
    ASSUME ConfigOK, NEW e \in Nat \ {0}
    PROVE  /\ getBlocks(e) <= params.scanBlocks
           /\ getBlocks(e) % slicesPerWorkGroup(params) = 0
           /\ getBlocks(e) * getBlockSize(e) >= e
           /\ getBlocks(e) \in Nat
<1> DEFINE t == getTileSize
           b == params.scanBlocks
           n == slicesPerWorkGroup(params)
           k == (e + t * b - 1) \div (t * b)
           s == k * t
           a == (e + s - 1) \div s
<1>1. t \in Nat \ {0}
  <2>1. params \in ParamsType
    BY ConfigParts
  <2>2. params.scatterWorkScale * params.scatterWorkGroupSize \in Nat \ {0}
    BY <2>1 DEF ParamsType
  <2> QED
    BY <2>1, <2>2 DEF getTileSize, ParamsType, MaxOf
<1>2. b \in Nat \ {0} /\ n \in Nat \ {0}
  BY ConfigParts, SlicesFit
<1>3. PICK m \in Nat : b = m * n
  BY SlicesFit
<1>4. getBlockSize(e) = s /\ getBlocks(e) = roundUp(a, n)
  BY DEF getBlockSize, getBlocks
<1> HIDE DEF t, b, n, s, a
<1>5. t * b \in Nat \ {0}
  BY <1>1, <1>2
<1>6. k \in Nat /\ k * (t * b) <= e + t * b - 1 /\ e + t * b - 1 < k * (t * b) + t * b
  BY <1>5, DivBounds, e + t * b - 1 \in Nat
<1>7. k \in Nat \ {0} /\ e <= k * (t * b)
  <2> DEFINE p == t * b
             v == k * p
  <2>1. p \in Nat \ {0} /\ v \in Int /\ e + p - 1 < v + p
    BY <1>5, <1>6
  <2>2. e <= v
    <3> HIDE DEF p, v
    <3> QED
      BY <2>1
  <2>3. k # 0
    BY <2>2, <2>1
  <2> QED
    BY <1>6, <2>2, <2>3
<1>8. s \in Nat \ {0} /\ k * (t * b) = b * s
  BY <1>1, <1>2, <1>7 DEF s
<1> HIDE DEF k
<1>9. e <= b * s
  BY <1>7, <1>8
<1>10. a \in Nat /\ a * s <= e + s - 1 /\ e + s - 1 < a * s + s
  BY <1>8, DivBounds, e + s - 1 \in Nat DEF a
<1>11. e <= a * s
  <2>1. a * s \in Int
    BY <1>8, <1>10
  <2> QED
    BY <1>8, <1>10, <2>1
<1>12. a <= b
  <2> SUFFICES ASSUME b + 1 <= a PROVE FALSE
    BY <1>2, <1>10
  <2>1. (b + 1) * s <= a * s /\ (b + 1) * s = b * s + s
    BY <1>2, <1>8, <1>10
  <2>2. b * s \in Nat /\ a * s \in Nat
    BY <1>2, <1>8, <1>10
  <2> QED
    BY <1>8, <1>9, <1>10, <2>1, <2>2
<1>13. /\ roundUp(a, n) \in Nat /\ a <= roundUp(a, n)
       /\ roundUp(a, n) <= m * n /\ roundUp(a, n) % n = 0
  BY <1>2, <1>3, <1>10, <1>12, RoundUpLeast
<1>14. roundUp(a, n) * s >= e
  <2> DEFINE r == roundUp(a, n)
  <2>1. r \in Nat /\ a <= r
    BY <1>13
  <2> HIDE DEF r
  <2>2. a * s <= r * s /\ a * s \in Nat /\ r * s \in Nat
    BY <1>8, <1>10, <2>1
  <2>3. r * s >= e
    BY <1>11, <2>2
  <2> QED
    BY <2>3 DEF r
<1> QED
  BY <1>3, <1>4, <1>13, <1>14 DEF b, n

-----------------------------------------------------------------------------
(* The inductive invariant.                                                *)
SortKernels == {"reduce", "scan", "scatter"}
Kinds == SortKernels \union {"copyKeys", "copyValues"}

\* The buffers are the caller's and those that the calls so far allocated.
MemoryOK ==
    /\ DOMAIN BufferBytes \subseteq DOMAIN mem
    /\ \A b \in DOMAIN BufferBytes : DOMAIN mem[b] = CellsOf(b)
    /\ \A b \in DOMAIN mem :
          b \in DOMAIN BufferBytes \/ (b[2] \in Nat /\ 0 < b[2] /\ b[2] <= calls)
    /\ DOMAIN histogram = 0 .. params.scanBlocks - 1

\* The state of a call to enqueue that has begun.
HostType ==
    [pc : Kinds, keys : DOMAIN mem, values : DOMAIN mem \union {NoBuffer},
     elements : Nat \ {0}, bits : 1 .. CHAR_BIT * keySize, temp : BufferPair,
     firstBit : Nat, swapped : BOOLEAN, first : BOOLEAN,
     waits : SUBSET (1 .. Len(cmds))]

ActiveOK(h) == h \in HostType /\ (h.pc \in SortKernels => h.firstBit < h.bits)

HostOK ==
    /\ host = Idle \/ (ActiveOK(host) /\ calls > 0)
    /\ lastEvent \in 0 .. Len(cmds)
    /\ lost \in BOOLEAN
    /\ calls \in Nat
    /\ failures \in Nat
    /\ tmp \in (KeyBuffers \union {NoBuffer}) \X (ValueBuffers \union {NoBuffer})

CommandsOK ==
    /\ cmds \in Seq(CommandType)
    /\ \A i \in 1 .. Len(cmds) :
          cmds[i].kind \in SortKernels => cmds[i].firstBit < cmds[i].bits

TypeInv == ConfigOK /\ MemoryOK /\ HostOK /\ CommandsOK

-----------------------------------------------------------------------------
(* The buffers keep their sizes: kernels and copies only move contents.    *)
SameShape(m, n) ==
    DOMAIN n = DOMAIN m /\ \A b \in DOMAIN m : DOMAIN n[b] = DOMAIN m[b]

LEMMA MoveShape ==
    ASSUME NEW m, NEW src, NEW dst, NEW to
    PROVE  SameShape(m, Move(m, src, dst, to))
<1> DEFINE f == [k \in DOMAIN m[dst] |->
                    IF \E i \in DOMAIN to : to[i] = k
                    THEN m[src][CHOOSE i \in DOMAIN to : to[i] = k] ELSE m[dst][k]]
           n == [m EXCEPT ![dst] = f]
<1>1. DOMAIN f = DOMAIN m[dst]
  OBVIOUS
<1>2. Move(m, src, dst, to) = n
  BY DEF Move
<1> HIDE DEF f
<1>3. DOMAIN n = DOMAIN m
  OBVIOUS
<1>4. ASSUME NEW b \in DOMAIN m PROVE DOMAIN n[b] = DOMAIN m[b]
  <2>1. CASE b = dst
    <3>1. n[b] = f
      BY <2>1, <1>4
    <3> QED
      BY <1>1, <2>1, <3>1
  <2>2. CASE b # dst
    BY <2>2, <1>4
  <2> QED
    BY <2>1, <2>2
<1> HIDE DEF n
<1> QED
  BY <1>2, <1>3, <1>4 DEF SameShape

LEMMA ShapeTrans ==
    ASSUME NEW m, NEW n, NEW o, SameShape(m, n), SameShape(n, o)
    PROVE  SameShape(m, o)
  BY DEF SameShape

(* What each step of the device leaves alone.                              *)
LEMMA WorkKeepsShape ==
    ASSUME NEW i, NEW g, RunReduce(i, g) \/ RunScatter(i, g) \/ RunScan(i) \/ RunCopy(i)
    PROVE  /\ SameShape(mem, mem')
           /\ DOMAIN histogram' = DOMAIN histogram
           /\ UNCHANGED <<config, hostVars>>
           /\ \E h, kind : RunGroup(i, h, kind)
<1>0. SameShape(mem, mem)
  BY DEF SameShape
<1>1. CASE RunReduce(i, g)
  <2>1. mem' = mem /\ RunGroup(i, g, "reduce")
    BY <1>1 DEF RunReduce
  <2>2. DOMAIN histogram' = DOMAIN histogram
    BY <1>1 DEF RunReduce
  <2> QED
    BY <1>0, <2>1, <2>2 DEF RunGroup
<1>2. CASE RunScan(i)
  <2>1. mem' = mem /\ RunGroup(i, 0, "scan")
    BY <1>2 DEF RunScan
  <2>2. DOMAIN histogram' = DOMAIN histogram
    BY <1>2 DEF RunScan
  <2> QED
    BY <1>0, <2>1, <2>2 DEF RunGroup
<1>3. CASE RunScatter(i, g)
  <2>1. /\ RunGroup(i, g, "scatter") /\ histogram' = histogram
        /\ \E to : LET moved == Move(mem, cmds[i].in[1], cmds[i].out[1], to)
                   IN  mem' = IF config.valueSize = 0 THEN moved
                              ELSE Move(moved, cmds[i].in[2], cmds[i].out[2], to)
    BY <1>3, Zenon DEF RunScatter
  <2>2. PICK to : LET moved == Move(mem, cmds[i].in[1], cmds[i].out[1], to)
                  IN  mem' = IF config.valueSize = 0 THEN moved
                             ELSE Move(moved, cmds[i].in[2], cmds[i].out[2], to)
    BY <2>1
  <2> DEFINE moved == Move(mem, cmds[i].in[1], cmds[i].out[1], to)
  <2>3. SameShape(mem, moved)
    BY MoveShape
  <2>4. mem' = IF config.valueSize = 0 THEN moved
               ELSE Move(moved, cmds[i].in[2], cmds[i].out[2], to)
    BY <2>2
  <2> HIDE DEF moved
  <2>5. SameShape(mem, mem')
    BY <2>3, <2>4, MoveShape, ShapeTrans
  <2> QED
    BY <2>1, <2>5 DEF RunGroup
<1>4. CASE RunCopy(i)
  <2>1. /\ histogram' = histogram
        /\ \E kind : RunGroup(i, 0, kind)
        /\ \E src, dst, to : mem' = Move(mem, src, dst, to)
    BY <1>4 DEF RunCopy
  <2>2. SameShape(mem, mem')
    BY <2>1, MoveShape
  <2> QED
    BY <2>1, <2>2 DEF RunGroup
<1> QED
  BY <1>1, <1>2, <1>3, <1>4

-----------------------------------------------------------------------------
(* The types only grow: with the buffers, the calls and the commands.      *)
Grows ==
    /\ DOMAIN mem \subseteq DOMAIN mem'
    /\ calls \in Nat /\ calls' \in Nat /\ calls <= calls'
    /\ Len(cmds) \in Nat /\ Len(cmds') \in Nat /\ Len(cmds) <= Len(cmds')

LEMMA TypesGrow ==
    ASSUME Grows
    PROVE  CommandType \subseteq CommandType' /\ HostType \subseteq HostType'
<1>1. BufferPair \subseteq BufferPair'
  BY DEF Grows, BufferPair
<1>2. 1 .. calls \subseteq 1 .. calls' /\ 1 .. Len(cmds) \subseteq 1 .. Len(cmds')
  BY DEF Grows
<1>3. DOMAIN mem \subseteq DOMAIN mem'
  BY DEF Grows
<1> HIDE DEF Grows, BufferPair
<1>4. CommandType \subseteq CommandType'
  BY <1>1, <1>2, <1>3 DEF CommandType
<1>5. HostType \subseteq HostType'
  BY <1>1, <1>2, <1>3 DEF HostType
<1> QED
  BY <1>4, <1>5

LEMMA TypedQueue ==
    ASSUME CommandsOK
    PROVE  /\ IsQueue(cmds) /\ Len(cmds) \in Nat
           /\ \A i \in 1 .. Len(cmds) : cmds[i] \in CommandType
<1>1. cmds \in Seq(CommandType)
  BY DEF CommandsOK
<1> HIDE DEF CommandType
<1>2. Len(cmds) \in Nat /\ \A i \in 1 .. Len(cmds) : cmds[i] \in CommandType
  BY <1>1
<1> DEFINE T == {cmds[i] : i \in 1 .. Len(cmds)}
<1>3. cmds \in [1 .. Len(cmds) -> T]
  BY <1>1
<1>4. cmds \in Seq(T)
  <2> HIDE DEF T
  <2> QED
    BY <1>2, <1>3
<1> QED
  BY <1>2, <1>4 DEF IsQueue

(* A queue whose commands are of the new types.                            *)
LEMMA QueueTyped ==
    ASSUME NEW q, IsQueue(q), NEW T, \A i \in 1 .. Len(q) : q[i] \in T
    PROVE  q \in Seq(T)
<1>1. q \in [1 .. Len(q) -> T] /\ Len(q) \in Nat
  BY DEF IsQueue
<1> QED
  BY <1>1

(* Steps that leave the commands alone.                                    *)
LEMMA SameCommands ==
    ASSUME CommandsOK, Grows, UNCHANGED cmds
    PROVE  CommandsOK'
<1>1. cmds \in Seq(CommandType')
  BY TypedQueue, TypesGrow, QueueTyped
<1> QED
  BY <1>1 DEF CommandsOK

(* Any enqueue of a command of the new type.                               *)
LEMMA EnqueueTyped ==
    ASSUME CommandsOK, Grows, NEW x, x \in CommandType', cmds' = Append(cmds, x),
           x.kind \in SortKernels => x.firstBit < x.bits
    PROVE  CommandsOK'
<1>1. IsQueue(cmds) /\ \A i \in 1 .. Len(cmds) : cmds[i] \in CommandType'
  BY TypedQueue, TypesGrow
<1>2. /\ IsQueue(cmds') /\ Len(cmds') = Len(cmds) + 1 /\ cmds'[Len(cmds) + 1] = x
      /\ \A i \in 1 .. Len(cmds) : cmds'[i] = cmds[i]
  BY <1>1, QueueAppend
<1>3. \A i \in 1 .. Len(cmds') : \/ i \in 1 .. Len(cmds) /\ cmds'[i] = cmds[i]
                                 \/ cmds'[i] = x
  BY <1>2 DEF Grows
<1>4. \A i \in 1 .. Len(cmds') : cmds'[i] \in CommandType'
  BY <1>1, <1>3
<1>5. cmds' \in Seq(CommandType')
  BY <1>2, <1>4, QueueTyped
<1> QED
  BY <1>3, <1>5 DEF CommandsOK

(* Any progress of a command.                                              *)
LEMMA ProgressTyped ==
    ASSUME CommandsOK, Grows, NEW k \in 1 .. Len(cmds), NEW x, x \in CommandType,
           Updated(cmds, k, x, cmds'), x.kind = cmds[k].kind,
           x.firstBit = cmds[k].firstBit, x.bits = cmds[k].bits
    PROVE  CommandsOK'
<1>1. /\ IsQueue(cmds) /\ x \in CommandType'
      /\ \A i \in 1 .. Len(cmds) : cmds[i] \in CommandType'
  BY TypedQueue, TypesGrow
<1>2. /\ IsQueue(cmds') /\ Len(cmds') = Len(cmds) /\ cmds'[k] = x
      /\ \A i \in 1 .. Len(cmds) : i # k => cmds'[i] = cmds[i]
  BY <1>1, QueueExcept
<1>3. \A i \in 1 .. Len(cmds') : cmds'[i] \in CommandType'
  BY <1>1, <1>2
<1>4. cmds' \in Seq(CommandType')
  BY <1>2, <1>3, QueueTyped
<1> QED
  BY <1>2, <1>4 DEF CommandsOK

-----------------------------------------------------------------------------
(* The order of the commands, as in Reduce and Scan.                       *)
CallsInOrder(q) ==
    \A j \in 1 .. Len(q) :
        /\ q[j].call <= calls
        /\ \A i \in 1 .. j - 1 : q[i].call <= q[j].call

\* A command that waits for w comes after all that is in flight.
AfterAll(w) ==
    config.inOrder \/ \A i \in 1 .. Len(cmds) : IsDone(cmds, i) \/ \E v \in w : i <= v

OrderInv ==
    /\ Serial(cmds)
    /\ WaitsBack(cmds)
    /\ config.inOrder \/ Chained(cmds)
    /\ CallsInOrder(cmds)
    /\ lost => host = Idle
    /\ host = Idle /\ ~lost => Covers(cmds, lastEvent)
    /\ host # Idle => AfterAll(host.waits)

LEMMA EnqueueOrdered ==
    ASSUME TypeInv, OrderInv, NEW x, cmds' = Append(cmds, x), x.status = "queued",
           x.waits \subseteq 1 .. Len(cmds), AfterAll(x.waits), x.call = calls,
           UNCHANGED <<config, calls>>
    PROVE  /\ Serial(cmds') /\ WaitsBack(cmds')
           /\ config.inOrder' \/ Chained(cmds')
           /\ CallsInOrder(cmds)'
           /\ Len(cmds') = Len(cmds) + 1
<1>0. IsQueue(cmds) /\ Len(cmds) \in Nat /\ calls \in Nat
  BY TypedQueue DEF TypeInv, HostOK
<1>1. /\ Len(cmds') = Len(cmds) + 1 /\ cmds'[Len(cmds) + 1] = x
      /\ \A i \in 1 .. Len(cmds) : cmds'[i] = cmds[i]
  BY <1>0, QueueAppend
<1>2. Serial(cmds') /\ WaitsBack(cmds') /\ (config.inOrder \/ Chained(cmds'))
  BY <1>0, AppendOrdered DEF OrderInv, AfterAll
<1>3. ASSUME NEW j \in 1 .. Len(cmds')
      PROVE  /\ cmds'[j].call <= calls
             /\ \A i \in 1 .. j - 1 : cmds'[i].call <= cmds'[j].call
  <2>1. CASE j \in 1 .. Len(cmds)
    <3>1. \A i \in 1 .. j - 1 : cmds'[i] = cmds[i]
      BY <1>0, <1>1, <2>1
    <3> QED
      BY <1>1, <2>1, <3>1 DEF OrderInv, CallsInOrder
  <2>2. CASE j = Len(cmds) + 1
    <3>1. ASSUME NEW i \in 1 .. j - 1 PROVE cmds'[i].call <= cmds'[j].call
      <4>1. i \in 1 .. Len(cmds)
        BY <1>0, <2>2
      <4> QED
        BY <1>1, <2>2, <4>1 DEF OrderInv, CallsInOrder
    <3> QED
      BY <1>0, <1>1, <2>2, <3>1
  <2> QED
    BY <1>0, <1>1, <2>1, <2>2
<1>4. CallsInOrder(cmds)'
  BY <1>3 DEF CallsInOrder
<1> QED
  BY <1>1, <1>2, <1>4

(* A command that is ready, or has started, comes after complete ones.     *)
LEMMA StartedAfterAll ==
    ASSUME TypeInv, OrderInv, NEW k \in 1 .. Len(cmds),
           Ready(k) \/ cmds[k].status # "queued"
    PROVE  \A i \in 1 .. k - 1 : IsDone(cmds, i)
<1>1. CASE cmds[k].status # "queued"
  BY <1>1 DEF OrderInv, Serial
<1>2. CASE Ready(k)
  <2>1. \A w \in cmds[k].waits : IsDone(cmds, w)
    BY <1>2 DEF Ready, IsComplete, IsDone
  <2>2. Chained(cmds) \/ \A i \in 1 .. k - 1 : IsDone(cmds, i)
    BY <1>2 DEF OrderInv, Ready, IsComplete, IsDone
  <2>3. IsQueue(cmds)
    BY TypedQueue DEF TypeInv
  <2> QED
    BY <2>1, <2>2, <2>3, ReadyAfterAll DEF OrderInv
<1> QED
  BY <1>1, <1>2

-----------------------------------------------------------------------------
(* The buffers a call works on.                                            *)
\* Buffer b has room for n elements; so do the buffers that a pair names.
Holds(m, b, n) == b \in DOMAIN m /\ 0 .. n - 1 \subseteq DOMAIN m[b]
PairHolds(m, valueSize, pair, n) ==
    Holds(m, pair[1], n) /\ (valueSize # 0 => Holds(m, pair[2], n))

(* Buffers are kept, and keep their sizes.                                 *)
LEMMA HoldsKept ==
    ASSUME NEW m, NEW o, \A b \in DOMAIN m : b \in DOMAIN o /\ DOMAIN o[b] = DOMAIN m[b],
           NEW v, NEW pair, NEW n, PairHolds(m, v, pair, n)
    PROVE  PairHolds(o, v, pair, n)
  BY DEF PairHolds, Holds

(* What a call that passes validation allocates has a new name.            *)
LEMMA AllocatedIsNew ==
    ASSUME TypeInv, NEW c \in Calls, calls' = calls + 1
    PROVE  /\ \A b \in Allocated(c) : b[2] = calls' /\ b \notin DOMAIN mem
           /\ \/ TempOf(c)[1] \in KeyBuffers /\ Fits(TempOf(c)[1], c.elements, keySize)
              \/ TempOf(c)[1] \in Allocated(c)
           /\ \/ config.valueSize = 0 /\ TempOf(c)[2] = NoBuffer
              \/ /\ TempOf(c)[2] \in ValueBuffers
                 /\ Fits(TempOf(c)[2], c.elements, config.valueSize)
              \/ TempOf(c)[2] \in Allocated(c)
           /\ TempOf(c) = <<TempOf(c)[1], TempOf(c)[2]>>
<1> DEFINE k == <<"keys", calls'>>
           v == <<"values", calls'>>
<1>1. /\ calls \in Nat
      /\ tmp[1] \in KeyBuffers \union {NoBuffer}
      /\ tmp[2] \in ValueBuffers \union {NoBuffer}
  BY DEF TypeInv, HostOK
<1>2. \A b \in DOMAIN BufferBytes : b[2] \in Int /\ b[2] <= 0 /\ b # NoBuffer
  BY BuffersAssumption DEF NoBuffer
<1>3. k[2] = calls' /\ v[2] = calls' /\ NoBuffer[2] = 0
  BY DEF NoBuffer
<1> HIDE DEF k, v
<1>4. \A b \in {k, v} : /\ b \notin {NoBuffer, tmp[1], tmp[2]}
                        /\ b \notin DOMAIN mem
  BY <1>1, <1>2, <1>3 DEF KeyBuffers, ValueBuffers, TypeInv, MemoryOK
<1>5. /\ TempOf(c)[1] = IF Usable(tmp[1], c.elements, keySize) THEN tmp[1] ELSE k
      /\ TempOf(c)[2] = IF config.valueSize = 0 THEN NoBuffer
                        ELSE IF Usable(tmp[2], c.elements, config.valueSize)
                        THEN tmp[2] ELSE v
      /\ TempOf(c) = <<TempOf(c)[1], TempOf(c)[2]>>
  BY DEF TempOf, k, v
<1>6. Allocated(c) = {TempOf(c)[1], TempOf(c)[2]} \ {NoBuffer, tmp[1], tmp[2]}
  BY DEF Allocated
<1>7. \A b, n, z : Usable(b, n, z) => b # NoBuffer /\ Fits(b, n, z)
  BY DEF Usable, Fits
<1> HIDE DEF TempOf, Allocated, Usable
<1>8. \A b \in Allocated(c) : b \in {k, v}
  BY <1>5, <1>6
<1>9. \/ TempOf(c)[1] \in KeyBuffers /\ Fits(TempOf(c)[1], c.elements, keySize)
      \/ TempOf(c)[1] \in Allocated(c)
  BY <1>1, <1>4, <1>5, <1>6, <1>7
<1>10. \/ config.valueSize = 0 /\ TempOf(c)[2] = NoBuffer
       \/ /\ TempOf(c)[2] \in ValueBuffers
          /\ Fits(TempOf(c)[2], c.elements, config.valueSize)
       \/ TempOf(c)[2] \in Allocated(c)
  BY <1>1, <1>4, <1>5, <1>6, <1>7
<1> QED
  BY <1>3, <1>4, <1>5, <1>8, <1>9, <1>10

(* The memory after the allocation.                                        *)
LEMMA MemoryAfterBegin ==
    ASSUME TypeInv, NEW c \in Calls, Begin(c)
    PROVE  /\ DOMAIN mem' = DOMAIN mem \union Allocated(c)
           /\ \A b \in DOMAIN mem : mem'[b] = mem[b]
           /\ \A b \in Allocated(c) : DOMAIN mem'[b] = 0 .. c.elements - 1
<1> DEFINE z == [i \in 0 .. c.elements - 1 |-> Garbage]
<1>1. /\ mem' = [b \in DOMAIN mem \union Allocated(c) |->
                   IF b \in DOMAIN mem THEN mem[b] ELSE z]
      /\ calls' = calls + 1
  BY DEF Begin, MayCall
<1>2. \A b \in Allocated(c) : b \notin DOMAIN mem
  BY <1>1, AllocatedIsNew
<1>3. DOMAIN z = 0 .. c.elements - 1
  OBVIOUS
<1> HIDE DEF z, Allocated
<1>4. /\ DOMAIN mem' = DOMAIN mem \union Allocated(c)
      /\ \A b \in DOMAIN mem : mem'[b] = mem[b]
      /\ \A b \in Allocated(c) : b \notin DOMAIN mem => mem'[b] = z
  BY <1>1
<1> QED
  BY <1>2, <1>3, <1>4

-----------------------------------------------------------------------------
LEMMA InitInv == Init => TypeInv /\ OrderInv
<1> SUFFICES ASSUME Init PROVE TypeInv /\ OrderInv
  OBVIOUS
<1>1. cmds = <<>> /\ Len(cmds) = 0 /\ host = Idle /\ lastEvent = 0 /\ calls = 0
      /\ failures = 0
  BY DEF Init
<1>2. ConfigOK
  BY DEF Init, ConfigOK, params
<1>3. MemoryOK
  <2>1. PICK keys \in KeyData :
            mem = [b \in DOMAIN BufferBytes |->
                      [i \in CellsOf(b) |-> IF b[1] = "keys" THEN keys[i] ELSE i]]
    BY DEF Init
  <2>2. DOMAIN mem = DOMAIN BufferBytes
    BY <2>1
  <2>3. \A b \in DOMAIN BufferBytes : DOMAIN mem[b] = CellsOf(b)
    BY <2>1
  <2>4. DOMAIN histogram = 0 .. params.scanBlocks - 1
    BY DEF Init
  <2> QED
    BY <2>2, <2>3, <2>4 DEF MemoryOK
<1>4. HostOK
  <2>1. lost \in BOOLEAN
    BY Zenon DEF Init
  <2> QED
    BY <1>1, <2>1 DEF Init, HostOK
<1>5. CommandsOK
  <2> HIDE DEF CommandType
  <2> QED
    BY <1>1 DEF CommandsOK
<1>6. OrderInv
  BY <1>1 DEF OrderInv, Serial, WaitsBack, Chained, CallsInOrder, Covers
<1> QED
  BY <1>2, <1>3, <1>4, <1>5, <1>6 DEF TypeInv

(* Steps of the host that leave memory and queue alone.                    *)
LEMMA QuietKeeps ==
    ASSUME TypeInv, OrderInv, UNCHANGED <<config, mem, cmds, histogram, lastEvent>>,
           calls' \in Nat, calls <= calls', failures' \in Nat,
           tmp' \in (KeyBuffers \union {NoBuffer}) \X (ValueBuffers \union {NoBuffer}),
           \/ UNCHANGED <<host, lost>>
           \/ host' = Idle /\ lost' = TRUE
           \/ UNCHANGED host /\ lost' = FALSE /\ \A i \in 1 .. Len(cmds) : IsComplete(i)
    PROVE  TypeInv' /\ OrderInv'
<1>0. Len(cmds) \in Nat /\ calls \in Nat
  BY TypedQueue DEF TypeInv, HostOK
<1>1. Grows
  BY <1>0 DEF Grows
<1>2. CommandsOK'
  BY <1>1, SameCommands DEF TypeInv
<1>3. ConfigOK' /\ params' = params
  BY DEF TypeInv, ConfigOK, params
<1>4. MemoryOK'
  <2>1. \A b : CellsOf(b)' = CellsOf(b)
    BY DEF CellsOf
  <2>2. \A b \in DOMAIN mem :
            b \in DOMAIN BufferBytes \/ (b[2] \in Nat /\ 0 < b[2] /\ b[2] <= calls')
    BY <1>0 DEF TypeInv, MemoryOK
  <2> QED
    BY <1>3, <2>1, <2>2 DEF TypeInv, MemoryOK
<1>5. host # Idle => ActiveOK(host) /\ calls > 0
  BY DEF TypeInv, HostOK
<1>6. host' # Idle => ActiveOK(host)' /\ calls' > 0
  <2> SUFFICES ASSUME host' # Idle PROVE ActiveOK(host)' /\ calls' > 0
    OBVIOUS
  <2>1. host' = host
    OBVIOUS
  <2>2. ActiveOK(host) /\ calls' > 0
    BY <1>0, <1>5, <2>1
  <2>3. host' \in HostType'
    BY <1>1, <2>1, <2>2, TypesGrow DEF ActiveOK
  <2> QED
    BY <2>1, <2>2, <2>3 DEF ActiveOK
<1>7. lost' \in BOOLEAN
  BY DEF TypeInv, HostOK
<1>8. HostOK'
  BY <1>6, <1>7 DEF TypeInv, HostOK
<1>9. CallsInOrder(cmds)'
  <2>1. \A i \in 1 .. Len(cmds) : cmds[i].call \in Nat
    BY TypedQueue DEF TypeInv, CommandType
  <2> QED
    BY <1>0, <2>1 DEF OrderInv, CallsInOrder
<1>10. host' # Idle => AfterAll(host.waits)'
  BY DEF OrderInv, AfterAll
<1>11. lost' => host' = Idle
  BY DEF OrderInv
<1>12. host' = Idle /\ ~lost' => Covers(cmds, lastEvent)'
  BY DEF OrderInv, Covers, IsComplete, IsDone
<1> QED
  BY <1>2, <1>3, <1>4, <1>8, <1>9, <1>10, <1>11, <1>12 DEF TypeInv, OrderInv

(* The beginning of a call.                                                *)
LEMMA BeginKeeps ==
    ASSUME TypeInv, OrderInv, NEW c \in Calls, Begin(c)
    PROVE  TypeInv' /\ OrderInv'
<1>0. Len(cmds) \in Nat /\ calls \in Nat
  BY TypedQueue DEF TypeInv, HostOK
<1>1. /\ calls' = calls + 1 /\ host = Idle /\ ~lost /\ Valid(c)
      /\ UNCHANGED <<config, cmds, tmp, lastEvent, lost, failures, histogram>>
  BY DEF Begin, MayCall, deviceVars
<1>2. /\ DOMAIN mem' = DOMAIN mem \union Allocated(c)
      /\ \A b \in DOMAIN mem : mem'[b] = mem[b]
  BY MemoryAfterBegin
<1>3. Grows
  BY <1>0, <1>1, <1>2 DEF Grows
<1>4. CommandsOK'
  BY <1>1, <1>3, SameCommands DEF TypeInv
<1>5. ConfigOK' /\ params' = params
  BY <1>1 DEF TypeInv, ConfigOK, params
<1>6. MemoryOK'
  <2>1. \A b : CellsOf(b)' = CellsOf(b)
    BY <1>1 DEF CellsOf
  <2>2. \A b \in Allocated(c) : b[2] = calls'
    BY <1>1, AllocatedIsNew
  <2>3. \A b \in DOMAIN mem' :
            b \in DOMAIN BufferBytes \/ (b[2] \in Nat /\ 0 < b[2] /\ b[2] <= calls')
    BY <1>0, <1>1, <1>2, <2>2 DEF TypeInv, MemoryOK
  <2> QED
    BY <1>1, <1>2, <1>5, <2>1, <2>3 DEF TypeInv, MemoryOK
<1>7. TempOf(c) \in BufferPair' /\ KeyBuffers \subseteq DOMAIN mem'
      /\ ValueBuffers \subseteq DOMAIN mem'
  <2>1. KeyBuffers \subseteq DOMAIN mem /\ ValueBuffers \subseteq DOMAIN mem
    BY DEF TypeInv, MemoryOK, KeyBuffers, ValueBuffers
  <2>2. TempOf(c)[1] \in DOMAIN mem' /\ TempOf(c)[2] \in DOMAIN mem' \union {NoBuffer}
    BY <1>1, <1>2, <2>1, AllocatedIsNew
  <2>3. TempOf(c) = <<TempOf(c)[1], TempOf(c)[2]>>
    BY <1>1, AllocatedIsNew
  <2> QED
    BY <1>2, <2>1, <2>2, <2>3 DEF BufferPair
<1>8. /\ c.keys \in KeyBuffers /\ c.values \in ValueBuffers \union {NoBuffer}
      /\ c.elements \in Nat \ {0} /\ SortedBits(c) \in 1 .. CHAR_BIT * keySize
  <2>1. /\ c.keys \in KeyBuffers \union {NoBuffer} /\ c.values \in ValueBuffers \union {NoBuffer}
        /\ c.elements \in Nat /\ c.maxBits \in Nat
    BY CallsAssumption
  <2>2. c.keys # NoBuffer /\ c.elements # 0 /\ c.maxBits <= CHAR_BIT * keySize
    BY <1>1 DEF Valid, Fits
  <2>3. CHAR_BIT * keySize \in Nat \ {0}
    BY SizesAssumption
  <2> QED
    BY <2>1, <2>2, <2>3 DEF SortedBits
<1> DEFINE w == IF config.inOrder \/ lastEvent = 0 THEN {} ELSE {lastEvent}
<1>9. w \subseteq 1 .. Len(cmds)
  BY <1>0 DEF TypeInv, HostOK
<1>10. host' = [pc |-> "reduce", keys |-> c.keys, values |-> c.values,
                elements |-> c.elements, bits |-> SortedBits(c), temp |-> TempOf(c),
                firstBit |-> 0, swapped |-> FALSE, first |-> TRUE, waits |-> w]
  BY DEF Begin
<1>11. AfterAll(w)
  <2>1. Covers(cmds, lastEvent)
    BY <1>1 DEF OrderInv
  <2> QED
    BY <1>0, <1>1, <2>1 DEF AfterAll, Covers, TypeInv, HostOK
<1> HIDE DEF w
<1>12. ActiveOK(host)'
  <2>1. host'.pc = "reduce" /\ host'.firstBit = 0 /\ host'.bits = SortedBits(c)
    BY <1>10
  <2>2. host' \in HostType'
    BY <1>1, <1>7, <1>8, <1>9, <1>10 DEF HostType, Kinds, SortKernels
  <2> QED
    BY <1>8, <2>1, <2>2 DEF ActiveOK
<1>13. host' # Idle /\ host'.waits = w
  BY <1>10 DEF Idle
<1>14. HostOK'
  BY <1>0, <1>1, <1>12 DEF TypeInv, HostOK
<1>15. OrderInv'
  <2>1. CallsInOrder(cmds)'
    <3>1. \A i \in 1 .. Len(cmds) : cmds[i].call \in Nat
      BY TypedQueue DEF TypeInv, CommandType
    <3> QED
      BY <1>0, <1>1, <3>1 DEF OrderInv, CallsInOrder
  <2>2. AfterAll(host.waits)'
    BY <1>1, <1>11, <1>13 DEF AfterAll
  <2> QED
    BY <1>1, <1>13, <2>1, <2>2 DEF OrderInv
<1> QED
  BY <1>4, <1>5, <1>6, <1>14, <1>15 DEF TypeInv

-----------------------------------------------------------------------------
(* The enqueues of a call.                                                 *)
LEMMA ActiveHost ==
    ASSUME TypeInv, OrderInv, host.pc \in Kinds
    PROVE  /\ host # Idle /\ ~lost /\ calls \in Nat \ {0}
           /\ ActiveOK(host) /\ AfterAll(host.waits)
           /\ Cur \in BufferPair /\ NextOf \in BufferPair
<1>1. host # Idle
  BY DEF Idle, Kinds, SortKernels
<1>2. ActiveOK(host) /\ calls \in Nat \ {0}
  BY <1>1 DEF TypeInv, HostOK
<1>3. /\ host.keys \in DOMAIN mem /\ host.values \in DOMAIN mem \union {NoBuffer}
      /\ host.temp \in BufferPair
  BY <1>2 DEF ActiveOK, HostType
<1>4. Cur \in BufferPair /\ NextOf \in BufferPair
  BY <1>3 DEF Cur, NextOf, Caller, BufferPair
<1> QED
  BY <1>1, <1>2, <1>4 DEF OrderInv

LEMMA GroupsAreNats ==
    ASSUME ConfigOK, NEW kind \in Kinds, NEW e \in Nat \ {0}
    PROVE  Groups(kind, e) \subseteq Nat
<1>1. getBlocks(e) \in Nat /\ slicesPerWorkGroup(params) \in Nat \ {0}
  BY BlocksFit, SlicesFit
<1> HIDE DEF getBlocks, slicesPerWorkGroup
<1>2. getBlocks(e) \div slicesPerWorkGroup(params) \in Nat
  BY <1>1
<1> QED
  BY <1>1, <1>2 DEF Groups, Kinds, SortKernels

LEMMA EnqueueKeeps ==
    ASSUME TypeInv, OrderInv, NEW kind \in Kinds, NEW h,
           Enqueue(kind, Cur, NextOf, h), h.pc = "return" \/ ActiveOK(h)
    PROVE  TypeInv' /\ OrderInv'
<1> DEFINE x == [kind |-> kind, in |-> Cur, out |-> NextOf, elements |-> host.elements,
                 firstBit |-> host.firstBit, call |-> calls, waits |-> host.waits,
                 first |-> host.first, last |-> h.pc = "return",
                 keys |-> host.keys, values |-> host.values, bits |-> host.bits,
                 todo |-> Groups(kind, host.elements), status |-> "queued"]
<1>0. Len(cmds) \in Nat
  BY TypedQueue DEF TypeInv
<1>1. /\ host.pc = kind
      /\ cmds' = Append(cmds, x)
      /\ host' = IF h.pc = "return" THEN Idle
                 ELSE [h EXCEPT !.waits = NextWaits, !.first = FALSE]
      /\ lastEvent' = IF h.pc = "return" THEN Len(cmds') ELSE lastEvent
      /\ UNCHANGED <<config, mem, tmp, lost, calls, failures, histogram>>
  BY DEF Enqueue, deviceVars
<1>2. /\ host # Idle /\ ~lost /\ calls \in Nat \ {0}
      /\ ActiveOK(host) /\ AfterAll(host.waits)
      /\ Cur \in BufferPair /\ NextOf \in BufferPair
  BY <1>1, ActiveHost
<1>3. /\ host.elements \in Nat \ {0} /\ host.firstBit \in Nat
      /\ host.waits \subseteq 1 .. Len(cmds) /\ host.first \in BOOLEAN
      /\ host.keys \in DOMAIN mem /\ host.values \in DOMAIN mem \union {NoBuffer}
      /\ host.bits \in 1 .. CHAR_BIT * keySize
      /\ kind \in SortKernels => host.firstBit < host.bits
  BY <1>1, <1>2 DEF ActiveOK, HostType
<1>4. Groups(kind, host.elements) \subseteq Nat
  BY <1>3, GroupsAreNats DEF TypeInv
<1>5. /\ x.kind = kind /\ x.firstBit = host.firstBit /\ x.bits = host.bits
      /\ x.status = "queued" /\ x.waits = host.waits /\ x.call = calls
  OBVIOUS
<1>6. x \in CommandType
  <2> DEFINE l == h.pc = "return"
  <2>1. l \in BOOLEAN
    BY Zenon
  <2> HIDE DEF l, Cur, NextOf, Groups, BufferPair
  <2>2. [kind |-> kind, in |-> Cur, out |-> NextOf, elements |-> host.elements,
         firstBit |-> host.firstBit, call |-> calls, waits |-> host.waits,
         first |-> host.first, last |-> l,
         keys |-> host.keys, values |-> host.values, bits |-> host.bits,
         todo |-> Groups(kind, host.elements), status |-> "queued"] \in CommandType
    BY <1>2, <1>3, <1>4, <2>1 DEF CommandType, Kinds, SortKernels
  <2> QED
    BY <2>2 DEF l
<1> HIDE DEF x
<1>7. /\ Serial(cmds') /\ WaitsBack(cmds') /\ (config.inOrder' \/ Chained(cmds'))
      /\ CallsInOrder(cmds)' /\ Len(cmds') = Len(cmds) + 1
  BY <1>1, <1>2, <1>3, <1>5, EnqueueOrdered
<1>8. Grows
  BY <1>0, <1>1, <1>2, <1>7 DEF Grows
<1>9. CommandsOK'
  <2>1. x \in CommandType'
    BY <1>6, <1>8, TypesGrow
  <2> QED
    BY <1>1, <1>3, <1>5, <1>8, <2>1, EnqueueTyped DEF TypeInv
<1>10. ConfigOK' /\ params' = params
  BY <1>1 DEF TypeInv, ConfigOK, params
<1>11. MemoryOK'
  <2>1. \A b : CellsOf(b)' = CellsOf(b)
    BY <1>1 DEF CellsOf
  <2> QED
    BY <1>1, <1>10, <2>1 DEF TypeInv, MemoryOK
<1>12. CASE h.pc = "return"
  <2>1. host' = Idle /\ lastEvent' = Len(cmds')
    BY <1>1, <1>12
  <2>2. HostOK'
    BY <1>0, <1>1, <1>7, <2>1 DEF TypeInv, HostOK
  <2>3. Covers(cmds, lastEvent)'
    <3>1. \A i \in 1 .. Len(cmds') : i <= lastEvent'
      BY <1>0, <1>7, <2>1
    <3> QED
      BY <3>1 DEF Covers
  <2>4. OrderInv'
    BY <1>1, <1>2, <1>7, <2>1, <2>3 DEF OrderInv
  <2> QED
    BY <1>9, <1>10, <1>11, <2>2, <2>4 DEF TypeInv
<1>13. CASE h.pc # "return"
  <2> DEFINE y == [h EXCEPT !.waits = NextWaits]
             z == [y EXCEPT !.first = FALSE]
  <2>1. host' = z /\ lastEvent' = lastEvent
    BY <1>1, <1>13
  <2>2. h \in HostType' /\ (h.pc \in SortKernels => h.firstBit < h.bits)
    BY <1>8, <1>13, TypesGrow DEF ActiveOK
  <2>3. NextWaits \subseteq 1 .. Len(cmds') /\ NextWaits = {Len(cmds')}
    BY <1>0, <1>7 DEF NextWaits
  <2> HIDE DEF NextWaits
  <2>4. /\ y \in HostType' /\ y.waits = NextWaits
        /\ (y.pc \in SortKernels => y.firstBit < y.bits)
    BY <2>2, <2>3 DEF HostType
  <2> HIDE DEF y
  <2>5. /\ z \in HostType' /\ z.waits = NextWaits
        /\ (z.pc \in SortKernels => z.firstBit < z.bits)
    BY <2>4 DEF HostType
  <2> HIDE DEF z
  <2>6. ActiveOK(host)' /\ host' # Idle
    <3>1. host'.pc \in Kinds
      BY <2>1, <2>5 DEF HostType
    <3>2. host' # Idle
      BY <3>1 DEF Idle, Kinds, SortKernels
    <3> QED
      BY <2>1, <2>5, <3>2 DEF ActiveOK
  <2>7. HostOK'
    BY <1>0, <1>1, <1>2, <1>7, <2>1, <2>6 DEF TypeInv, HostOK
  <2>8. AfterAll(host.waits)'
    BY <1>0, <1>7, <2>1, <2>3, <2>5 DEF AfterAll
  <2>9. OrderInv'
    BY <1>1, <1>2, <1>7, <2>6, <2>8 DEF OrderInv
  <2> QED
    BY <1>9, <1>10, <1>11, <2>7, <2>9 DEF TypeInv
<1> QED
  BY <1>12, <1>13

LEMMA EnqueueNextKeeps ==
    ASSUME TypeInv, OrderInv, EnqueueNext
    PROVE  TypeInv' /\ OrderInv'
<1>0. ASSUME host.pc \in Kinds
      PROVE  host \in HostType /\ (host.pc \in SortKernels => host.firstBit < host.bits)
  BY <1>0, ActiveHost DEF ActiveOK
<1>1. CASE EnqueueReduce
  <2> DEFINE h == [host EXCEPT !.pc = "scan"]
  <2>1. host.pc = "reduce" /\ Enqueue("reduce", Cur, NextOf, h)
    BY <1>1 DEF EnqueueReduce, Enqueue
  <2>2. ActiveOK(h)
    BY <1>0, <2>1 DEF ActiveOK, HostType, Kinds, SortKernels
  <2> HIDE DEF h
  <2> QED
    BY <2>1, <2>2, EnqueueKeeps DEF Kinds, SortKernels
<1>2. CASE EnqueueScan
  <2> DEFINE h == [host EXCEPT !.pc = "scatter"]
  <2>1. host.pc = "scan" /\ Enqueue("scan", Cur, NextOf, h)
    BY <1>2 DEF EnqueueScan, Enqueue
  <2>2. ActiveOK(h)
    BY <1>0, <2>1 DEF ActiveOK, HostType, Kinds, SortKernels
  <2> HIDE DEF h
  <2> QED
    BY <2>1, <2>2, EnqueueKeeps DEF Kinds, SortKernels
<1>3. CASE EnqueueScatter
  <2> DEFINE n == host.firstBit + params.radixBits
             p == IF n < host.bits THEN "reduce" ELSE AfterPasses(~host.swapped)
             h1 == [host EXCEPT !.pc = p]
             h2 == [h1 EXCEPT !.firstBit = n]
             h == [h2 EXCEPT !.swapped = ~host.swapped]
  <2>1. host.pc = "scatter" /\ Enqueue("scatter", Cur, NextOf, h)
    BY <1>3 DEF EnqueueScatter, Enqueue
  <2>2. host \in HostType /\ host.firstBit \in Nat /\ host.bits \in Nat
    BY <1>0, <2>1 DEF HostType, Kinds, SortKernels
  <2>3. n \in Nat
    BY <2>2, ConfigParts DEF TypeInv, ParamsType
  <2>4. p \in {"reduce", "copyKeys", "return"} /\ (p = "reduce" => n < host.bits)
    BY DEF AfterPasses
  <2>5. (~host.swapped) \in BOOLEAN
    BY Zenon
  <2> HIDE DEF n, p
  <2>6. CASE p = "return"
    <3>1. h.pc = "return"
      BY <2>2, <2>6 DEF HostType
    <3> HIDE DEF h
    <3> QED
      BY <2>1, <3>1, EnqueueKeeps DEF Kinds, SortKernels
  <2>7. CASE p # "return"
    <3>1. h1 \in HostType /\ h1.pc = p /\ h1.bits = host.bits
      BY <2>2, <2>4, <2>7 DEF HostType, Kinds, SortKernels
    <3> HIDE DEF h1
    <3>2. h2 \in HostType /\ h2.pc = p /\ h2.bits = host.bits /\ h2.firstBit = n
      BY <2>3, <3>1 DEF HostType
    <3> HIDE DEF h2
    <3>3. h \in HostType /\ h.pc = p /\ h.bits = host.bits /\ h.firstBit = n
      BY <2>5, <3>2 DEF HostType
    <3> HIDE DEF h
    <3>4. ActiveOK(h)
      BY <2>4, <3>3 DEF ActiveOK, SortKernels
    <3> QED
      BY <2>1, <3>4, EnqueueKeeps DEF Kinds, SortKernels
  <2> QED
    BY <2>6, <2>7
<1>4. CASE EnqueueCopyKeys
  <2> DEFINE p == IF config.valueSize # 0 THEN "copyValues" ELSE "return"
             h == [host EXCEPT !.pc = p]
  <2>1. host.pc = "copyKeys" /\ Enqueue("copyKeys", Cur, NextOf, h)
    BY <1>4 DEF EnqueueCopyKeys, Enqueue
  <2>2. h.pc = "return" \/ ActiveOK(h)
    BY <1>0, <2>1 DEF ActiveOK, HostType, Kinds, SortKernels
  <2> HIDE DEF h
  <2> QED
    BY <2>1, <2>2, EnqueueKeeps DEF Kinds, SortKernels
<1>5. CASE EnqueueCopyValues
  <2> DEFINE h == [host EXCEPT !.pc = "return"]
  <2>1. host.pc = "copyValues" /\ Enqueue("copyValues", Cur, NextOf, h)
    BY <1>5 DEF EnqueueCopyValues, Enqueue
  <2>2. h.pc = "return"
    BY <1>0, <2>1 DEF HostType, Kinds, SortKernels
  <2> HIDE DEF h
  <2> QED
    BY <2>1, <2>2, EnqueueKeeps DEF Kinds, SortKernels
<1> QED
  BY <1>1, <1>2, <1>3, <1>4, <1>5 DEF EnqueueNext

LEMMA HostKeeps ==
    ASSUME TypeInv, OrderInv, HostStep
    PROVE  TypeInv' /\ OrderInv'
<1>0. /\ calls \in Nat /\ failures \in Nat
      /\ tmp \in (KeyBuffers \union {NoBuffer}) \X (ValueBuffers \union {NoBuffer})
  BY DEF TypeInv, HostOK
<1>1. ASSUME NEW c \in Calls, RejectCall(c) \/ AllocateFails(c)
      PROVE  TypeInv' /\ OrderInv'
  <2>1. /\ UNCHANGED <<config, mem, cmds, histogram, lastEvent, tmp, host, lost>>
        /\ calls' = calls + 1 /\ (failures' = failures \/ failures' = failures + 1)
    BY <1>1 DEF RejectCall, AllocateFails, MayCall, deviceVars
  <2> QED
    BY <1>0, <2>1, QuietKeeps
<1>2. ASSUME NEW pair \in Temporaries, setTemporaryBuffers(pair)
      PROVE  TypeInv' /\ OrderInv'
  <2>1. /\ UNCHANGED <<config, mem, cmds, histogram, lastEvent, host, lost, failures>>
        /\ calls' = calls + 1 /\ tmp' = pair
    BY <1>2 DEF setTemporaryBuffers, MayCall, deviceVars
  <2> QED
    BY <1>0, <2>1, QuietKeeps, TemporariesAssumption
<1>3. CASE EnqueueFails
  <2>1. /\ UNCHANGED <<config, mem, cmds, histogram, lastEvent, tmp, calls>>
        /\ failures' = failures + 1 /\ host' = Idle /\ lost' = TRUE
    BY <1>3 DEF EnqueueFails, deviceVars
  <2> QED
    BY <1>0, <2>1, QuietKeeps
<1>4. CASE QueueFinish
  <2>1. /\ UNCHANGED <<config, mem, cmds, histogram, lastEvent, tmp, calls, failures, host>>
        /\ lost' = FALSE /\ \A i \in 1 .. Len(cmds) : IsComplete(i)
    BY <1>4 DEF QueueFinish, deviceVars
  <2>2. calls' \in Nat /\ calls <= calls' /\ failures' \in Nat
    BY <1>0, <2>1
  <2> QED
    BY <1>0, <2>1, <2>2, QuietKeeps, Zenon
<1> QED
  BY <1>1, <1>2, <1>3, <1>4, BeginKeeps, EnqueueNextKeeps DEF HostStep

-----------------------------------------------------------------------------
(* A work-group replaces its command by x, which differs in todo and       *)
(* status only.                                                            *)
LEMMA GroupProgress ==
    ASSUME TypeInv, NEW i \in 1 .. Len(cmds), NEW g, NEW kind, RunGroup(i, g, kind)
    PROVE  \E x \in CommandType :
              /\ Updated(cmds, i, x, cmds')
              /\ x.kind = cmds[i].kind /\ x.firstBit = cmds[i].firstBit
              /\ x.bits = cmds[i].bits /\ x.call = cmds[i].call
              /\ x.waits = cmds[i].waits /\ x.elements = cmds[i].elements
              /\ x.in = cmds[i].in /\ x.out = cmds[i].out
<1> DEFINE t == cmds[i].todo \ {g}
           z == IF cmds[i].todo = {g} THEN "complete" ELSE "running"
           y == [cmds[i] EXCEPT !.todo = t]
           x == [y EXCEPT !.status = z]
           mid == [cmds EXCEPT ![i] = y]
<1>1. /\ IsQueue(cmds) /\ cmds[i] \in CommandType
  BY TypedQueue DEF TypeInv
<1>2. t \in SUBSET Nat /\ z \in {"queued", "running", "complete"}
  BY <1>1 DEF CommandType
<1>3. cmds' = [mid EXCEPT ![i] = [mid[i] EXCEPT !.status = z]]
  BY DEF RunGroup
<1>4. mid[i] = y /\ cmds' = [cmds EXCEPT ![i] = [mid[i] EXCEPT !.status = z]]
  <2> DEFINE q == cmds
  <2>1. q \in [1 .. Len(cmds) -> {q[j] : j \in 1 .. Len(q)}]
    BY <1>1 DEF IsQueue
  <2> HIDE DEF y, z
  <2>2. mid[i] = y
    BY <2>1
  <2> DEFINE w == [mid[i] EXCEPT !.status = z]
  <2>3. cmds' = [mid EXCEPT ![i] = w]
    BY <1>3
  <2> HIDE DEF w
  <2>4. cmds' = [cmds EXCEPT ![i] = w]
    BY <2>1, <2>3
  <2> QED
    BY <2>2, <2>4 DEF w
<1>5. cmds' = [cmds EXCEPT ![i] = x]
  BY <1>4
<1> HIDE DEF t, z
<1>6. /\ y \in CommandType
      /\ y.kind = cmds[i].kind /\ y.firstBit = cmds[i].firstBit
      /\ y.bits = cmds[i].bits /\ y.call = cmds[i].call
      /\ y.waits = cmds[i].waits /\ y.elements = cmds[i].elements
      /\ y.in = cmds[i].in /\ y.out = cmds[i].out
  BY <1>1, <1>2 DEF CommandType
<1> HIDE DEF y
<1>7. /\ x \in CommandType
      /\ x.kind = y.kind /\ x.firstBit = y.firstBit
      /\ x.bits = y.bits /\ x.call = y.call
      /\ x.waits = y.waits /\ x.elements = y.elements
      /\ x.in = y.in /\ x.out = y.out
  BY <1>2, <1>6 DEF CommandType
<1> HIDE DEF x
<1> QED
  BY <1>5, <1>6, <1>7 DEF Updated

LEMMA WorkKeeps ==
    ASSUME TypeInv, OrderInv, Work
    PROVE  TypeInv' /\ OrderInv'
<1>1. PICK i \in 1 .. Len(cmds) :
          \E g : RunReduce(i, g) \/ RunScatter(i, g) \/ RunScan(i) \/ RunCopy(i)
  BY DEF Work
<1>2. /\ SameShape(mem, mem') /\ DOMAIN histogram' = DOMAIN histogram
      /\ UNCHANGED <<config, hostVars>>
      /\ \E h, kind : RunGroup(i, h, kind)
  BY <1>1, WorkKeepsShape
<1>3. PICK x \in CommandType :
          /\ Updated(cmds, i, x, cmds')
          /\ x.kind = cmds[i].kind /\ x.firstBit = cmds[i].firstBit
          /\ x.bits = cmds[i].bits /\ x.call = cmds[i].call
          /\ x.waits = cmds[i].waits
  BY <1>2, GroupProgress
<1>4. ~IsDone(cmds, i) /\ (Ready(i) \/ cmds[i].status # "queued")
  BY <1>2 DEF RunGroup, Ready, IsDone
<1>5. IsQueue(cmds) /\ Len(cmds) \in Nat
  BY TypedQueue DEF TypeInv
<1>6. /\ Len(cmds') = Len(cmds) /\ cmds'[i] = x
      /\ \A k \in 1 .. Len(cmds) : k # i => cmds'[k] = cmds[k]
  BY <1>3, <1>5, QueueExcept
<1>7. \A k \in 1 .. i - 1 : IsDone(cmds, k)
  BY <1>4, StartedAfterAll
<1>8. /\ Serial(cmds') /\ WaitsBack(cmds') /\ (Chained(cmds) => Chained(cmds'))
      /\ \A k \in 1 .. Len(cmds) : IsDone(cmds, k) => IsDone(cmds', k)
  BY <1>3, <1>4, <1>5, <1>7, ProgressOrdered DEF OrderInv
<1>9. UNCHANGED <<tmp, host, lastEvent, lost, calls, failures, config>>
  BY <1>2 DEF hostVars
<1>10. Grows /\ DOMAIN mem' = DOMAIN mem
  BY <1>2, <1>5, <1>6, <1>9 DEF Grows, SameShape, TypeInv, HostOK
<1>11. CommandsOK'
  BY <1>3, <1>10, ProgressTyped DEF TypeInv
<1>12. ConfigOK' /\ params' = params
  BY <1>9 DEF TypeInv, ConfigOK, params
<1>13. MemoryOK'
  <2>1. \A b : CellsOf(b)' = CellsOf(b)
    BY <1>9 DEF CellsOf
  <2> QED
    BY <1>2, <1>9, <1>10, <1>12, <2>1 DEF TypeInv, MemoryOK, SameShape
<1>14. HostOK'
  <2>1. host # Idle => ActiveOK(host) /\ calls > 0
    BY DEF TypeInv, HostOK
  <2>2. ActiveOK(host) => ActiveOK(host)'
    BY <1>9, <1>10, TypesGrow DEF ActiveOK
  <2> QED
    BY <1>6, <1>9, <2>1, <2>2 DEF TypeInv, HostOK
<1>15. CallsInOrder(cmds)'
  <2>1. \A k \in 1 .. Len(cmds) : cmds'[k].call = cmds[k].call
    BY <1>3, <1>6
  <2>2. \A j \in 1 .. Len(cmds) : \A k \in 1 .. j - 1 : k \in 1 .. Len(cmds)
    BY <1>5
  <2> QED
    BY <1>6, <1>9, <2>1, <2>2 DEF OrderInv, CallsInOrder
<1>16. host' = Idle /\ ~lost' => Covers(cmds, lastEvent)'
  BY <1>6, <1>8, <1>9 DEF OrderInv, Covers
<1>17. host' # Idle => AfterAll(host.waits)'
  BY <1>6, <1>8, <1>9 DEF OrderInv, AfterAll
<1>18. OrderInv'
  BY <1>8, <1>9, <1>15, <1>16, <1>17 DEF OrderInv
<1> QED
  BY <1>11, <1>12, <1>13, <1>14, <1>18 DEF TypeInv

LEMMA StepKeeps == TypeInv /\ OrderInv /\ [Next]_vars => TypeInv' /\ OrderInv'
<1> SUFFICES ASSUME TypeInv, OrderInv, [Next]_vars PROVE TypeInv' /\ OrderInv'
  OBVIOUS
<1>1. CASE UNCHANGED vars
  <2>1. UNCHANGED <<config, mem, cmds, histogram, lastEvent, tmp, calls, failures, host, lost>>
    BY <1>1 DEF vars, hostVars, deviceVars
  <2> QED
    BY <2>1, QuietKeeps DEF TypeInv, HostOK
<1> QED
  BY <1>1, HostKeeps, WorkKeeps DEF Next

-----------------------------------------------------------------------------
(* The inductive invariant: the types of memory, host and commands, and    *)
(* the order of the queue.                                                 *)
THEOREM RadixsortInvariant == Spec => [](TypeInv /\ OrderInv)
  BY InitInv, StepKeeps, PTL DEF Spec

(* The assertions of radixsort.cpp:94, 156 and 227 hold in every call: the *)
(* histogram has a row for every block, the blocks make whole work-groups  *)
(* of the scatter kernel, and they cover the elements.                     *)
THEOREM RadixsortAssertions == Spec => []AssertionsHold
<1>1. TypeInv => AssertionsHold
  <2> SUFFICES ASSUME TypeInv PROVE AssertionsHold
    OBVIOUS
  <2>1. host # Idle => host.pc \in Kinds
    BY DEF TypeInv, HostOK, ActiveOK, HostType
  <2>2. TypeOK
    BY <2>1, Zenon DEF TypeInv, CommandsOK, HostOK, MemoryOK, TypeOK, SortKernels, Kinds
  <2>3. \A i \in 1 .. Len(cmds) : cmds[i].elements \in Nat \ {0}
    BY TypedQueue DEF TypeInv, CommandType
  <2>4. ConfigOK
    BY DEF TypeInv
  <2> QED
    BY <2>2, <2>3, <2>4, BlocksFit DEF AssertionsHold
<1> QED
  BY <1>1, RadixsortInvariant, PTL

(* Waiting for the event of the previous call is enough to keep the        *)
(* commands of two calls apart, also after a call that failed half way.    *)
THEOREM RadixsortExecutionsDisjoint == Spec => []ExecutionsDisjoint
<1>1. TypeInv /\ OrderInv => ExecutionsDisjoint
  <2> SUFFICES ASSUME TypeInv, OrderInv, NEW i \in 1 .. Len(cmds),
                      NEW j \in 1 .. Len(cmds), cmds[i].call < cmds[j].call,
                      Ready(j) \/ cmds[j].status # "queued"
               PROVE  IsComplete(i)
    BY DEF ExecutionsDisjoint
  <2>1. /\ Len(cmds) \in Nat /\ calls \in Nat
        /\ \A k \in 1 .. Len(cmds) : cmds[k].call \in 1 .. calls
    BY TypedQueue DEF TypeInv, HostOK, CommandType
  <2>2. i # j /\ ~(j < i)
    BY <2>1 DEF OrderInv, CallsInOrder
  <2>3. i \in 1 .. j - 1
    BY <2>1, <2>2
  <2> QED
    BY <2>3, StartedAfterAll DEF IsComplete, IsDone
<1> QED
  BY <1>1, RadixsortInvariant, PTL

-----------------------------------------------------------------------------
(* The buffers of the commands hold their elements.                        *)
BoundsInv ==
    /\ \A i \in 1 .. Len(cmds) :
          /\ PairHolds(mem, config.valueSize, cmds[i].in, cmds[i].elements)
          /\ PairHolds(mem, config.valueSize, cmds[i].out, cmds[i].elements)
    /\ host # Idle => /\ PairHolds(mem, config.valueSize, Caller, host.elements)
                      /\ PairHolds(mem, config.valueSize, host.temp, host.elements)

(* A buffer that passes validation has room, unless the product of the     *)
(* sizes wraps around.                                                     *)
LEMMA FitsHolds ==
    ASSUME NEW size \in Nat \ {0}, NEW n \in Nat, NEW b \in DOMAIN BufferBytes,
           n * size < SizeT, Fits(b, n, size)
    PROVE  0 .. n - 1 \subseteq 0 .. BufferBytes[b] \div size - 1
<1> DEFINE s == BufferBytes[b]
           d == s \div size
<1>1. n * size \in Nat /\ s \in Nat /\ SizeT \in Nat \ {0}
  BY BuffersAssumption, SizesAssumption
<1>2. (n * size) % SizeT = n * size
  <2> DEFINE p == n * size
  <2> HIDE DEF p
  <2>1. p \in Nat /\ p < SizeT => p % SizeT = p
    BY <1>1
  <2> QED
    BY <1>1, <2>1 DEF p
<1>3. n * size <= s
  BY <1>1, <1>2 DEF Fits
<1>4. d \in Nat /\ s < d * size + size
  BY <1>1, DivBounds
<1> HIDE DEF s, d
<1>5. n <= d
  <2> SUFFICES ASSUME d + 1 <= n PROVE FALSE
    BY <1>4
  <2>1. (d + 1) * size <= n * size /\ (d + 1) * size = d * size + size /\ d * size \in Nat
    BY <1>4
  <2> QED
    BY <1>1, <1>3, <1>4, <2>1
<1>6. 0 .. n - 1 \subseteq 0 .. d - 1
  BY <1>4, <1>5
<1> QED
  BY <1>6 DEF d, s

(* The caller's and the temporary buffers of a call that was accepted.     *)
LEMMA AcceptedHolds ==
    ASSUME CallsFit, TypeInv, NEW c \in Calls
    PROVE  /\ \A b \in KeyBuffers :
                  Fits(b, c.elements, keySize) => Holds(mem, b, c.elements)
           /\ \A b \in ValueBuffers :
                  config.valueSize # 0 /\ Fits(b, c.elements, config.valueSize)
                      => Holds(mem, b, c.elements)
<1>1. /\ c.elements \in Nat /\ c.elements * keySize < SizeT
      /\ c.elements * config.valueSize < SizeT
      /\ keySize \in Nat \ {0} /\ config.valueSize \in Nat
  BY CallsAssumption, SizesAssumption, ConfigParts DEF CallsFit, TypeInv, ConfigOK
<1>2. ASSUME NEW b \in KeyBuffers, Fits(b, c.elements, keySize)
      PROVE  Holds(mem, b, c.elements)
  <2>1. b \in DOMAIN BufferBytes /\ b[1] = "keys"
    BY DEF KeyBuffers
  <2>2. b \in DOMAIN mem /\ DOMAIN mem[b] = 0 .. BufferBytes[b] \div keySize - 1
    BY <2>1 DEF TypeInv, MemoryOK, CellsOf
  <2> QED
    BY <1>1, <1>2, <2>1, <2>2, FitsHolds DEF Holds
<1>3. ASSUME NEW b \in ValueBuffers, config.valueSize # 0,
             Fits(b, c.elements, config.valueSize)
      PROVE  Holds(mem, b, c.elements)
  <2>1. b \in DOMAIN BufferBytes /\ b[1] = "values"
    BY DEF ValueBuffers
  <2>2. MaxOf(config.valueSize, 1) = config.valueSize
    BY <1>1, <1>3 DEF MaxOf
  <2>3. b \in DOMAIN mem /\ DOMAIN mem[b] = 0 .. BufferBytes[b] \div config.valueSize - 1
    BY <2>1, <2>2 DEF TypeInv, MemoryOK, CellsOf
  <2>4. config.valueSize \in Nat \ {0}
    BY <1>1, <1>3
  <2> QED
    BY <1>1, <1>3, <2>1, <2>3, <2>4, FitsHolds DEF Holds
<1> QED
  BY <1>2, <1>3

(* Steps that keep the buffers, their sizes and the commands' arguments.   *)
LEMMA CommandsHold ==
    ASSUME BoundsInv, UNCHANGED config,
           \A b \in DOMAIN mem : b \in DOMAIN mem' /\ DOMAIN mem'[b] = DOMAIN mem[b],
           Len(cmds') = Len(cmds),
           \A i \in 1 .. Len(cmds) : /\ cmds'[i].in = cmds[i].in
                                     /\ cmds'[i].out = cmds[i].out
                                     /\ cmds'[i].elements = cmds[i].elements,
           host' = host \/ host' = Idle
    PROVE  BoundsInv'
<1>1. ASSUME NEW i \in 1 .. Len(cmds)
      PROVE  /\ PairHolds(mem', config.valueSize, cmds'[i].in, cmds'[i].elements)
             /\ PairHolds(mem', config.valueSize, cmds'[i].out, cmds'[i].elements)
  <2>1. /\ PairHolds(mem, config.valueSize, cmds[i].in, cmds[i].elements)
        /\ PairHolds(mem, config.valueSize, cmds[i].out, cmds[i].elements)
    BY DEF BoundsInv
  <2>2. /\ PairHolds(mem', config.valueSize, cmds[i].in, cmds[i].elements)
        /\ PairHolds(mem', config.valueSize, cmds[i].out, cmds[i].elements)
    BY <2>1, HoldsKept
  <2> QED
    BY <2>2
<1>2. host # Idle => /\ PairHolds(mem', config.valueSize, Caller, host.elements)
                     /\ PairHolds(mem', config.valueSize, host.temp, host.elements)
  BY HoldsKept DEF BoundsInv
<1>3. host' = host => Caller' = Caller
  BY DEF Caller
<1> QED
  BY <1>1, <1>2, <1>3 DEF BoundsInv

LEMMA BeginBounds ==
    ASSUME CallsFit, TypeInv, BoundsInv, NEW c \in Calls, Begin(c)
    PROVE  BoundsInv'
<1>1. /\ calls' = calls + 1 /\ host = Idle /\ Valid(c) /\ UNCHANGED <<config, cmds>>
      /\ host'.keys = c.keys /\ host'.values = c.values
      /\ host'.elements = c.elements /\ host'.temp = TempOf(c)
  BY DEF Begin, MayCall
<1>2. /\ DOMAIN mem' = DOMAIN mem \union Allocated(c)
      /\ \A b \in DOMAIN mem : mem'[b] = mem[b]
      /\ \A b \in Allocated(c) : DOMAIN mem'[b] = 0 .. c.elements - 1
  BY MemoryAfterBegin
<1>3. \A b \in DOMAIN mem : b \in DOMAIN mem' /\ DOMAIN mem'[b] = DOMAIN mem[b]
  BY <1>2
<1>4. \A b : Holds(mem, b, c.elements) => Holds(mem', b, c.elements)
  BY <1>3 DEF Holds
<1>5. \A b \in Allocated(c) : Holds(mem', b, c.elements)
  BY <1>2 DEF Holds
<1>6. PairHolds(mem', config.valueSize, Caller', c.elements)
  <2>1. Caller' = <<c.keys, c.values>>
    BY <1>1 DEF Caller
  <2>2. /\ c.keys \in KeyBuffers /\ Fits(c.keys, c.elements, keySize)
        /\ config.valueSize # 0 => /\ c.values \in ValueBuffers
                                   /\ Fits(c.values, c.elements, config.valueSize)
    BY <1>1, CallsAssumption DEF Valid, Fits
  <2> QED
    BY <1>4, <2>1, <2>2, AcceptedHolds DEF PairHolds
<1>7. PairHolds(mem', config.valueSize, TempOf(c), c.elements)
  BY <1>1, <1>4, <1>5, AllocatedIsNew, AcceptedHolds DEF PairHolds
<1>8. \A i \in 1 .. Len(cmds) :
          /\ PairHolds(mem', config.valueSize, cmds[i].in, cmds[i].elements)
          /\ PairHolds(mem', config.valueSize, cmds[i].out, cmds[i].elements)
  BY <1>3, HoldsKept DEF BoundsInv
<1> QED
  BY <1>1, <1>6, <1>7, <1>8 DEF BoundsInv

LEMMA EnqueueBounds ==
    ASSUME TypeInv, OrderInv, BoundsInv, NEW kind \in Kinds, NEW h,
           Enqueue(kind, Cur, NextOf, h),
           h.pc # "return" => /\ h.keys = host.keys /\ h.values = host.values
                              /\ h.elements = host.elements /\ h.temp = host.temp
    PROVE  BoundsInv'
<1>1. /\ host.pc = kind /\ UNCHANGED <<config, mem>>
      /\ \E x : cmds' = Append(cmds, x) /\ x.in = Cur /\ x.out = NextOf
                /\ x.elements = host.elements
      /\ host' = IF h.pc = "return" THEN Idle
                 ELSE [h EXCEPT !.waits = NextWaits, !.first = FALSE]
  BY DEF Enqueue
<1>2. PICK x : cmds' = Append(cmds, x) /\ x.in = Cur /\ x.out = NextOf
                /\ x.elements = host.elements
  BY <1>1
<1>3. host # Idle
  BY <1>1, ActiveHost
<1>4. /\ PairHolds(mem, config.valueSize, Caller, host.elements)
      /\ PairHolds(mem, config.valueSize, host.temp, host.elements)
  BY <1>3 DEF BoundsInv
<1>5. /\ PairHolds(mem, config.valueSize, x.in, x.elements)
      /\ PairHolds(mem, config.valueSize, x.out, x.elements)
  BY <1>2, <1>4 DEF Cur, NextOf
<1>6. /\ IsQueue(cmds) /\ Len(cmds) \in Nat
      /\ Len(cmds') = Len(cmds) + 1 /\ cmds'[Len(cmds) + 1] = x
      /\ \A i \in 1 .. Len(cmds) : cmds'[i] = cmds[i]
  BY <1>2, TypedQueue, QueueAppend DEF TypeInv
<1>7. \A i \in 1 .. Len(cmds') : \/ i \in 1 .. Len(cmds) /\ cmds'[i] = cmds[i]
                                 \/ cmds'[i] = x
  BY <1>6
<1>8. \A i \in 1 .. Len(cmds') :
          /\ PairHolds(mem, config.valueSize, cmds'[i].in, cmds'[i].elements)
          /\ PairHolds(mem, config.valueSize, cmds'[i].out, cmds'[i].elements)
  BY <1>5, <1>7 DEF BoundsInv
<1>9. host' # Idle => /\ host'.keys = host.keys /\ host'.values = host.values
                      /\ host'.elements = host.elements /\ host'.temp = host.temp
  BY <1>1
<1>10. host' # Idle => Caller' = Caller
  BY <1>9 DEF Caller
<1> QED
  BY <1>1, <1>4, <1>8, <1>9, <1>10 DEF BoundsInv

LEMMA EnqueueNextBounds ==
    ASSUME TypeInv, OrderInv, BoundsInv, EnqueueNext
    PROVE  BoundsInv'
<1> DEFINE Continues(h) ==
               /\ h.keys = host.keys /\ h.values = host.values
               /\ h.elements = host.elements /\ h.temp = host.temp
<1>1. \E kind \in Kinds : \E h : Enqueue(kind, Cur, NextOf, h) /\ Continues(h)
  <2>1. CASE EnqueueReduce
    <3>1. Continues([host EXCEPT !.pc = "scan"])
      OBVIOUS
    <3> QED
      BY <2>1, <3>1 DEF EnqueueReduce, Kinds, SortKernels
  <2>2. CASE EnqueueScan
    <3>1. Continues([host EXCEPT !.pc = "scatter"])
      OBVIOUS
    <3> QED
      BY <2>2, <3>1 DEF EnqueueScan, Kinds, SortKernels
  <2>3. CASE EnqueueScatter
    <3> DEFINE n == host.firstBit + params.radixBits
               h == [host EXCEPT !.pc = IF n < host.bits THEN "reduce"
                                        ELSE AfterPasses(~host.swapped),
                                 !.firstBit = n, !.swapped = ~host.swapped]
    <3>1. Enqueue("scatter", Cur, NextOf, h)
      BY <2>3, Zenon DEF EnqueueScatter
    <3>2. Continues(h)
      OBVIOUS
    <3> HIDE DEF h
    <3> QED
      BY <3>1, <3>2 DEF Kinds, SortKernels
  <2>4. CASE EnqueueCopyKeys
    <3>1. Continues([host EXCEPT !.pc = IF config.valueSize # 0 THEN "copyValues"
                                        ELSE "return"])
      OBVIOUS
    <3> QED
      BY <2>4, <3>1 DEF EnqueueCopyKeys, Kinds
  <2>5. CASE EnqueueCopyValues
    <3>1. Continues([host EXCEPT !.pc = "return"])
      OBVIOUS
    <3> QED
      BY <2>5, <3>1 DEF EnqueueCopyValues, Kinds
  <2> QED
    BY <2>1, <2>2, <2>3, <2>4, <2>5 DEF EnqueueNext
<1> QED
  BY <1>1, EnqueueBounds

LEMMA StepBounds ==
    ASSUME CallsFit
    PROVE  TypeInv /\ OrderInv /\ BoundsInv /\ [Next]_vars => BoundsInv'
<1> SUFFICES ASSUME TypeInv, OrderInv, BoundsInv, [Next]_vars PROVE BoundsInv'
  OBVIOUS
<1>1. ASSUME UNCHANGED <<config, mem, cmds>>, host' = host \/ host' = Idle
      PROVE  BoundsInv'
  BY <1>1, CommandsHold
<1>2. CASE UNCHANGED vars
  BY <1>1, <1>2 DEF vars, hostVars
<1>3. ASSUME NEW c \in Calls, RejectCall(c) \/ AllocateFails(c) PROVE BoundsInv'
  BY <1>1, <1>3 DEF RejectCall, AllocateFails
<1>4. ASSUME NEW pair \in Temporaries, setTemporaryBuffers(pair) PROVE BoundsInv'
  BY <1>1, <1>4 DEF setTemporaryBuffers
<1>5. CASE EnqueueFails \/ QueueFinish
  BY <1>1, <1>5 DEF EnqueueFails, QueueFinish
<1>6. CASE Work
  <2>1. PICK i \in 1 .. Len(cmds) :
            \E g : RunReduce(i, g) \/ RunScatter(i, g) \/ RunScan(i) \/ RunCopy(i)
    BY <1>6 DEF Work
  <2>2. /\ SameShape(mem, mem') /\ UNCHANGED <<config, hostVars>>
        /\ \E h, kind : RunGroup(i, h, kind)
    BY <2>1, WorkKeepsShape
  <2>3. PICK x \in CommandType :
            /\ Updated(cmds, i, x, cmds')
            /\ x.elements = cmds[i].elements
            /\ x.in = cmds[i].in /\ x.out = cmds[i].out
    BY <2>2, GroupProgress
  <2>4. /\ Len(cmds') = Len(cmds) /\ cmds'[i] = x
        /\ \A k \in 1 .. Len(cmds) : k # i => cmds'[k] = cmds[k]
    BY <2>3, TypedQueue, QueueExcept DEF TypeInv
  <2>5. \A k \in 1 .. Len(cmds) : /\ cmds'[k].in = cmds[k].in
                                  /\ cmds'[k].out = cmds[k].out
                                  /\ cmds'[k].elements = cmds[k].elements
    BY <2>3, <2>4
  <2> QED
    BY <2>2, <2>4, <2>5, CommandsHold DEF SameShape, hostVars
<1> QED
  BY <1>2, <1>3, <1>4, <1>5, <1>6, BeginBounds, EnqueueNextBounds DEF Next, HostStep

(* No command reads or writes outside its buffers, the temporary buffers   *)
(* that a program lends for smaller sorts included, as long as the sizes   *)
(* in bytes can be represented in size_t (radixsort.cpp:176-215).          *)
THEOREM RadixsortInBounds ==
    ASSUME CallsFit
    PROVE  Spec => []InBounds
<1>1. Init => BoundsInv
  <2> SUFFICES ASSUME Init PROVE BoundsInv
    OBVIOUS
  <2>1. Len(cmds) = 0 /\ host = Idle
    BY DEF Init
  <2> QED
    BY <2>1 DEF BoundsInv
<1>2. TypeInv /\ OrderInv /\ BoundsInv /\ [Next]_vars => BoundsInv'
  BY StepBounds
<1>3. BoundsInv => InBounds
  BY DEF BoundsInv, InBounds, PairHolds, Holds
<1> QED
  BY <1>1, <1>2, <1>3, RadixsortInvariant, PTL DEF Spec

=============================================================================
