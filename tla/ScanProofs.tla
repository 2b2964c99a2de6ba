----------------------------- MODULE ScanProofs -----------------------------
(***************************************************************************)
(* Proofs about Scan: its types, the assertions of enqueueInternal, that   *)
(* accepted calls stay inside the buffers, that the event chain keeps      *)
(* calls apart and that a call leaves the scan of its elements, for all    *)
(* tuning parameters.  The last two sections are about the work-items of   *)
(* the kernels reduce (ScanReduce) and scanExclusiveSmall (ScanSmall).     *)
(***************************************************************************)
EXTENDS Scan, ScanKernels, UtilsProofs, SequenceTheorems, NaturalsInduction, WellFoundedInduction

LEMMA TileIsPositive == tileSize \in Nat \ {0} /\ tileSize * maxBlocks \in Nat \ {0}
<1>1. scanWorkScale * scanWorkGroupSize \in Nat \ {0}
  BY ParametersAssumption
<1>2. tileSize \in Nat \ {0}
  BY <1>1, ParametersAssumption DEF tileSize, MaxOf
<1> QED
  BY <1>2, ParametersAssumption

(* scan.cpp:467: blockSize is a positive multiple of tileSize and          *)
(* maxBlocks blocks cover the elements.                                    *)
LEMMA BlockSizeFits ==
    ASSUME NEW c, c.elements \in Nat \ {0}
    PROVE  /\ blockSize(c) \in Nat \ {0}
           /\ c.elements <= maxBlocks * blockSize(c)
           /\ \E k \in Nat : blockSize(c) = k * tileSize
  BY EvenBlocks, TileIsPositive, ParametersAssumption DEF blockSize

(* The assertions of scan.cpp:470-472, with the stronger fact that the     *)
(* last block is not empty.                                                *)
LEMMA Assertions ==
    ASSUME NEW c, c.elements \in Nat \ {0}
    PROVE  /\ allBlocks(c) \in 1 .. maxBlocks
           /\ (allBlocks(c) - 1) * blockSize(c) < c.elements
           /\ c.elements <= allBlocks(c) * blockSize(c)
<1> DEFINE s == blockSize(c)
           n == c.elements
           a == (n + s - 1) \div s
<1>1. s \in Nat \ {0} /\ n <= maxBlocks * s
  BY BlockSizeFits
<1>2. n \in Nat \ {0} /\ n + s - 1 \in Nat
  BY <1>1
<1>3. allBlocks(c) = a
  BY DEF allBlocks
<1>4. maxBlocks \in Nat \ {0}
  BY ParametersAssumption
<1> HIDE DEF s, n
<1>5. a \in Nat /\ a * s <= n + s - 1 /\ n + s - 1 < a * s + s
  BY <1>1, <1>2, DivBounds
<1> HIDE DEF a
<1>6. n <= a * s /\ a * s < n + s
  BY <1>1, <1>2, <1>5
<1>7. (a - 1) * s = a * s - s
  BY <1>1, <1>5
<1>8. (a - 1) * s < n
  BY <1>6, <1>7, <1>1, <1>2, <1>5
<1>9. a # 0
  BY <1>1, <1>2, <1>6
<1>10. a <= maxBlocks
  <2> SUFFICES ASSUME maxBlocks + 1 <= a PROVE FALSE
    BY <1>4, <1>5
  <2>1. maxBlocks * s <= (a - 1) * s
    BY <1>1, <1>4, <1>5
  <2> QED
    BY <2>1, <1>1, <1>2, <1>4, <1>5, <1>7, <1>8
<1> QED
  BY <1>3, <1>4, <1>5, <1>6, <1>8, <1>9, <1>10 DEF s, n

-----------------------------------------------------------------------------
(* Commands.                                                               *)
LEMMA ValidElements ==
    ASSUME NEW c \in Calls, Valid(c)
    PROVE  c.elements \in Nat \ {0}
  BY CallsAssumption DEF Valid, CallType

LEMMA CallParts ==
    ASSUME NEW c \in Calls
    PROVE  /\ c.in \in Buffers /\ c.out \in Buffers /\ c.offsetBuffer \in Buffers
           /\ c.elements \in Nat /\ c.offsetIndex \in 0 .. Uint - 1
  BY CallsAssumption DEF CallType

LEMMA GroupCountIsNat ==
    ASSUME NEW c \in Calls, Valid(c), NEW kind \in {"reduce", "small", "scan"}
    PROVE  GroupCount(kind, c) \in Nat
<1>1. allBlocks(c) \in 1 .. maxBlocks
  BY ValidElements, Assertions
<1> QED
  BY <1>1, ParametersAssumption DEF GroupCount

(* Enqueueing a command of a valid call that waits for earlier commands    *)
(* keeps the queue well formed.                                            *)
LEMMA EnqueueKeepsCommands ==
    ASSUME NEW q, CommandsOK(q), calls' \in Nat,
           NEW kind \in {"reduce", "small", "scan"},
           NEW c \in Calls, Valid(c), NEW w \in SUBSET (1 .. Len(q)),
           NEW first \in BOOLEAN
    PROVE  /\ CommandsOK(Append(q, Command(kind, c, w, first)))
           /\ Len(Append(q, Command(kind, c, w, first))) = Len(q) + 1
<1> DEFINE x == Command(kind, c, w, first)
           r == Append(q, x)
<1>0. q \in Seq(CommandType) /\ Len(q) \in Nat
  BY DEF CommandsOK
<1>1. GroupCount(kind, c) \in Nat
  BY GroupCountIsNat
<1>2. w \in SUBSET Nat
  BY <1>0
<1>3. x \in CommandType /\ x.waits = w /\ x.kind = kind /\ x.args = c
      /\ x.todo = 0 .. GroupCount(kind, c) - 1
  BY <1>1, <1>2 DEF Command, CommandType
<1> HIDE DEF x
<1>4. r \in Seq(CommandType) /\ Len(r) = Len(q) + 1
      /\ r[Len(q) + 1] = x /\ \A i \in 1 .. Len(q) : r[i] = q[i]
  BY <1>0, <1>3
<1> HIDE DEF r
<1>5. ASSUME NEW i \in 1 .. Len(r)
      PROVE  /\ r[i].waits \subseteq 1 .. i - 1
             /\ r[i].todo \subseteq 0 .. GroupCount(r[i].kind, r[i].args) - 1
  <2>1. CASE i \in 1 .. Len(q)
    BY <2>1, <1>4 DEF CommandsOK
  <2>2. CASE i = Len(q) + 1
    <3>1. Len(q) = i - 1
      BY <2>2, <1>0
    <3> QED
      BY <2>2, <3>1, <1>3, <1>4
  <2> QED
    BY <2>1, <2>2, <1>0, <1>4
<1> QED
  BY <1>4, <1>5 DEF CommandsOK, r, x

(* Changing the status of a command, or taking work-groups away from it,   *)
(* keeps the queue well formed.                                            *)
LEMMA ProgressKeepsCommands ==
    ASSUME NEW q, CommandsOK(q), NEW i \in 1 .. Len(q),
           NEW x \in CommandType, x.waits = q[i].waits, x.kind = q[i].kind,
           x.args = q[i].args, x.todo \subseteq q[i].todo
    PROVE  CommandsOK([q EXCEPT ![i] = x]) /\ Len([q EXCEPT ![i] = x]) = Len(q)
<1> DEFINE r == [q EXCEPT ![i] = x]
<1>1. r \in Seq(CommandType) /\ Len(r) = Len(q) /\ r[i] = x
      /\ \A j \in 1 .. Len(q) : j # i => r[j] = q[j]
  <2>1. q \in Seq(CommandType)
    BY DEF CommandsOK
  <2>2. /\ r \in Seq(CommandType)
        /\ Len(r) = Len(q)
        /\ \A j \in 1 .. Len(q) : r[j] = IF j = i THEN x ELSE q[j]
    BY <2>1, ExceptSeq
  <2> QED
    BY <2>2
<1> HIDE DEF r
<1>2. ASSUME NEW j \in 1 .. Len(r)
      PROVE  /\ r[j].waits \subseteq 1 .. j - 1
             /\ r[j].todo \subseteq 0 .. GroupCount(r[j].kind, r[j].args) - 1
  <2>1. CASE j = i
    BY <2>1, <1>1 DEF CommandsOK
  <2>2. CASE j # i
    BY <2>2, <1>1 DEF CommandsOK
  <2> QED
    BY <2>1, <2>2
<1> QED
  BY <1>1, <1>2 DEF CommandsOK, r

-----------------------------------------------------------------------------
LEMMA TypeOKInit == Init => TypeOK
<1> SUFFICES ASSUME Init PROVE TypeOK
  OBVIOUS
<1>1. cmds \in Seq(CommandType) /\ Len(cmds) = 0
  BY DEF Init
<1>2. CommandsOK(cmds)
  BY <1>1 DEF CommandsOK
<1>3. MemoryOK
  BY DEF Init, MemoryOK
<1>4. HostOK
  <2>1. lost \in BOOLEAN /\ inOrder \in BOOLEAN
    BY Zenon DEF Init
  <2> QED
    BY <1>1, <2>1 DEF Init, HostOK
<1> QED
  BY <1>2, <1>3, <1>4 DEF TypeOK

(* The host enqueues only commands of valid calls.                         *)
LEMMA TypeOKHost == TypeOK /\ HostStep => TypeOK'
<1> SUFFICES ASSUME TypeOK, HostStep PROVE TypeOK'
  OBVIOUS
<1> USE DEF hostVars, deviceVars
<1>0. CommandsOK(cmds) /\ Len(cmds) \in Nat
  BY DEF TypeOK, CommandsOK
<1>m. ASSUME UNCHANGED deviceVars PROVE MemoryOK'
  BY <1>m DEF TypeOK, MemoryOK
<1>1. Waits \in SUBSET (1 .. Len(cmds))
  BY <1>0 DEF TypeOK, HostOK, Waits
<1>2. ASSUME NEW c \in Calls, RejectCall(c) \/ EnqueueFails(c) PROVE TypeOK'
  <2>1. HostOK'
    BY <1>2 DEF TypeOK, HostOK, RejectCall, EnqueueFails, MayCall
  <2>2. MemoryOK' /\ cmds' = cmds
    BY <1>2, <1>m DEF RejectCall, EnqueueFails
  <2> QED
    BY <1>0, <2>1, <2>2 DEF TypeOK
<1>3. ASSUME NEW c \in Calls, EnqueueFirst(c) PROVE TypeOK'
  <2>1. calls' \in Nat /\ Valid(c)
    BY <1>3 DEF EnqueueFirst, MayCall, TypeOK, HostOK
  <2>2. CASE allBlocks(c) > 1
    <3>1. cmds' = Append(cmds, Command("reduce", c, Waits, TRUE))
          /\ hostPC' = "small"
      BY <1>3, <2>2 DEF EnqueueFirst
    <3>2. CommandsOK(cmds') /\ Len(cmds') = Len(cmds) + 1
      BY <1>0, <1>1, <2>1, <3>1, EnqueueKeepsCommands
    <3>3. HostOK'
      BY <1>0, <1>3, <2>1, <3>1, <3>2 DEF EnqueueFirst, TypeOK, HostOK
    <3> QED
      BY <1>3, <1>m, <3>2, <3>3 DEF EnqueueFirst, TypeOK
  <2>3. CASE ~(allBlocks(c) > 1)
    <3>1. cmds' = Append(cmds, Command("small", c, Waits, TRUE))
          /\ hostPC' = "scan"
      BY <1>3, <2>3 DEF EnqueueFirst
    <3>2. CommandsOK(cmds') /\ Len(cmds') = Len(cmds) + 1
      BY <1>0, <1>1, <2>1, <3>1, EnqueueKeepsCommands
    <3>3. HostOK'
      BY <1>0, <1>3, <2>1, <3>1, <3>2 DEF EnqueueFirst, TypeOK, HostOK
    <3> QED
      BY <1>3, <1>m, <3>2, <3>3 DEF EnqueueFirst, TypeOK
  <2> QED
    BY <2>2, <2>3
<1>4. ASSUME hostPC \in {"small", "scan"}
      PROVE  /\ cmds[Len(cmds)].args \in Calls
             /\ Valid(cmds[Len(cmds)].args)
             /\ {Len(cmds)} \in SUBSET (1 .. Len(cmds))
  <2>1. Len(cmds) > 0
    BY <1>4 DEF TypeOK, HostOK
  <2>2. cmds[Len(cmds)] \in CommandType
    BY <2>1, <1>0 DEF CommandsOK
  <2> QED
    BY <2>1, <2>2, <1>0 DEF CommandType
<1>5. ASSUME EnqueueSmall PROVE TypeOK'
  <2> DEFINE c == cmds[Len(cmds)].args
  <2>1. cmds' = Append(cmds, Command("small", c, {Len(cmds)}, FALSE))
        /\ hostPC = "small" /\ hostPC' = "scan" /\ calls' = calls
    BY <1>5 DEF EnqueueSmall, SmallWaits
  <2>2. calls' \in Nat
    BY <2>1 DEF TypeOK, HostOK
  <2>3. c \in Calls /\ Valid(c) /\ {Len(cmds)} \in SUBSET (1 .. Len(cmds))
    BY <1>4, <2>1
  <2> HIDE DEF c
  <2>4. CommandsOK(cmds') /\ Len(cmds') = Len(cmds) + 1
    BY <1>0, <2>1, <2>2, <2>3, EnqueueKeepsCommands
  <2>5. HostOK'
    BY <1>0, <1>5, <2>1, <2>2, <2>4 DEF EnqueueSmall, TypeOK, HostOK
  <2> QED
    BY <1>5, <1>m, <2>4, <2>5 DEF EnqueueSmall, TypeOK
<1>6. ASSUME EnqueueScan PROVE TypeOK'
  <2> DEFINE c == cmds[Len(cmds)].args
  <2>1. cmds' = Append(cmds, Command("scan", c, {Len(cmds)}, FALSE))
        /\ hostPC = "scan" /\ hostPC' = "idle" /\ calls' = calls
        /\ lastEvent' = Len(cmds) + 1
    BY <1>6 DEF EnqueueScan, ReturnedEvent
  <2>2. calls' \in Nat
    BY <2>1 DEF TypeOK, HostOK
  <2>3. c \in Calls /\ Valid(c) /\ {Len(cmds)} \in SUBSET (1 .. Len(cmds))
    BY <1>4, <2>1
  <2> HIDE DEF c
  <2>4. CommandsOK(cmds') /\ Len(cmds') = Len(cmds) + 1
    BY <1>0, <2>1, <2>2, <2>3, EnqueueKeepsCommands
  <2>5. HostOK'
    BY <1>0, <1>6, <2>1, <2>2, <2>4 DEF EnqueueScan, TypeOK, HostOK
  <2> QED
    BY <1>6, <1>m, <2>4, <2>5 DEF EnqueueScan, TypeOK
<1>7. ASSUME EnqueueLaterFails \/ QueueFinish PROVE TypeOK'
  <2>1. HostOK'
    <3>1. lost' \in BOOLEAN /\ inOrder' \in BOOLEAN
      BY <1>7, Zenon DEF TypeOK, HostOK, EnqueueLaterFails, QueueFinish
    <3> QED
      BY <1>7, <3>1 DEF TypeOK, HostOK, EnqueueLaterFails, QueueFinish
  <2>2. MemoryOK' /\ cmds' = cmds
    BY <1>7, <1>m DEF EnqueueLaterFails, QueueFinish
  <2> QED
    BY <1>0, <2>1, <2>2 DEF TypeOK
<1> QED
  BY <1>2, <1>3, <1>5, <1>6, <1>7 DEF HostStep

(* The device keeps the shape of buffers and commands.                     *)
LEMMA TypeOKDevice == TypeOK /\ Work => TypeOK'
<1> SUFFICES ASSUME TypeOK, NEW i \in 1 .. Len(cmds),
                    \/ Start(i)
                    \/ \E g \in cmds[i].todo : RunReduce(i, g) \/ RunScan(i, g)
                    \/ RunSmall(i)
                    \/ Complete(i)
             PROVE  TypeOK'
  BY DEF Work
<1> USE DEF hostVars, deviceVars
<1>0. CommandsOK(cmds) /\ Len(cmds) \in Nat /\ cmds[i] \in CommandType
  BY DEF TypeOK, CommandsOK
<1>1. ASSUME NEW status \in {"queued", "running", "complete"},
             cmds' = [cmds EXCEPT ![i].status = status]
      PROVE  CommandsOK(cmds') /\ Len(cmds') = Len(cmds)
  <2> DEFINE x == [cmds[i] EXCEPT !.status = status]
  <2>1. x \in CommandType /\ x.waits = cmds[i].waits /\ x.kind = cmds[i].kind
        /\ x.args = cmds[i].args /\ x.todo \subseteq cmds[i].todo
    BY <1>0 DEF CommandType
  <2>2. cmds' = [cmds EXCEPT ![i] = x]
    BY <1>1
  <2> HIDE DEF x
  <2> QED
    BY <1>0, <2>1, <2>2, ProgressKeepsCommands
<1>2. ASSUME NEW g, cmds' = [cmds EXCEPT ![i].todo = @ \ {g}]
      PROVE  CommandsOK(cmds') /\ Len(cmds') = Len(cmds)
  <2> DEFINE x == [cmds[i] EXCEPT !.todo = @ \ {g}]
  <2>1. x \in CommandType /\ x.waits = cmds[i].waits /\ x.kind = cmds[i].kind
        /\ x.args = cmds[i].args /\ x.todo \subseteq cmds[i].todo
    BY <1>0 DEF CommandType
  <2>2. cmds' = [cmds EXCEPT ![i] = x]
    BY <1>2
  <2> HIDE DEF x
  <2> QED
    BY <1>0, <2>1, <2>2, ProgressKeepsCommands
<1>3. ASSUME Len(cmds') = Len(cmds), UNCHANGED <<inOrder, hostVars>>
      PROVE  HostOK'
  BY <1>3 DEF TypeOK, HostOK
<1>4. CASE Start(i)
  <2>1. cmds' = [cmds EXCEPT ![i].status = "running"]
        /\ UNCHANGED <<inOrder, hostVars, mem, sums>>
    BY <1>4 DEF Start
  <2>2. CommandsOK(cmds') /\ Len(cmds') = Len(cmds)
    BY <1>1, <2>1
  <2>3. MemoryOK'
    BY <2>1 DEF TypeOK, MemoryOK
  <2> QED
    BY <1>3, <2>1, <2>2, <2>3 DEF TypeOK
<1>5. ASSUME NEW g, NEW kind, RunGroup(i, g, kind)
      PROVE  CommandsOK(cmds') /\ HostOK'
  <2>1. cmds' = [cmds EXCEPT ![i].todo = @ \ {g}]
        /\ UNCHANGED <<inOrder, hostVars>>
    BY <1>5 DEF RunGroup
  <2>2. CommandsOK(cmds') /\ Len(cmds') = Len(cmds)
    BY <1>2, <2>1
  <2> QED
    BY <1>3, <2>1, <2>2
<1>6. ASSUME NEW g \in cmds[i].todo, RunReduce(i, g) PROVE TypeOK'
  <2>1. DOMAIN sums' = DOMAIN sums /\ mem' = mem
    BY <1>6 DEF RunReduce
  <2>2. MemoryOK'
    BY <2>1 DEF TypeOK, MemoryOK
  <2> QED
    BY <1>5, <1>6, <2>2 DEF RunReduce, TypeOK
<1>7. CASE RunSmall(i)
  <2>1. DOMAIN sums' = 0 .. maxBlocks - 1 /\ mem' = mem
    BY <1>7 DEF RunSmall
  <2>2. MemoryOK'
    BY <2>1 DEF TypeOK, MemoryOK
  <2> QED
    BY <1>5, <1>7, <2>2 DEF RunSmall, TypeOK
<1>8. ASSUME NEW g \in cmds[i].todo, RunScan(i, g) PROVE TypeOK'
  <2> DEFINE b == cmds[i].args.out
  <2>1. DOMAIN mem' = DOMAIN mem /\ sums' = sums
    BY <1>8 DEF RunScan
  <2>0. b \in DOMAIN mem
    BY <1>0, CallParts DEF CommandType, TypeOK, MemoryOK
  <2>2. DOMAIN mem'[b] = CellsOf(b)
    BY <1>8, <2>0 DEF RunScan
  <2>3. \A d \in DOMAIN mem : d # b => mem'[d] = mem[d]
    BY <1>8 DEF RunScan
  <2>4. MemoryOK'
    BY <2>1, <2>2, <2>3 DEF TypeOK, MemoryOK
  <2> QED
    BY <1>5, <1>8, <2>4 DEF RunScan, TypeOK
<1>9. CASE Complete(i)
  <2>1. cmds' = [cmds EXCEPT ![i].status = "complete"]
        /\ UNCHANGED <<inOrder, hostVars, mem, sums>>
    BY <1>9 DEF Complete
  <2>2. CommandsOK(cmds') /\ Len(cmds') = Len(cmds)
    BY <1>1, <2>1
  <2>3. MemoryOK'
    BY <2>1 DEF TypeOK, MemoryOK
  <2> QED
    BY <1>3, <2>1, <2>2, <2>3 DEF TypeOK
<1> QED
  BY <1>4, <1>6, <1>7, <1>8, <1>9

(* Type correctness of the host, the command queue and the device, for all *)
(* parameters and any number of calls and failures.                        *)
THEOREM ScanTypeOK == SafeSpec => []TypeOK
<1>1. TypeOK /\ UNCHANGED vars => TypeOK'
  BY DEF TypeOK, MemoryOK, CommandsOK, HostOK, vars, hostVars, deviceVars
<1>2. TypeOK /\ [Next]_vars => TypeOK'
  BY <1>1, TypeOKHost, TypeOKDevice DEF Next
<1> QED
  BY <1>2, TypeOKInit, PTL DEF SafeSpec

-----------------------------------------------------------------------------
(* Every command in the queue belongs to a valid call.                     *)
LEMMA CommandOfValidCall ==
    ASSUME TypeOK, NEW i \in 1 .. Len(cmds)
    PROVE  /\ cmds[i].args \in Calls /\ Valid(cmds[i].args)
           /\ cmds[i].args.elements \in Nat \ {0}
           /\ cmds[i].kind \in {"reduce", "small", "scan"}
           /\ cmds[i].todo \subseteq 0 .. GroupCount(cmds[i].kind, cmds[i].args) - 1
<1>1. cmds[i] \in CommandType
  BY DEF TypeOK, CommandsOK
<1>2. cmds[i].args \in Calls /\ Valid(cmds[i].args)
  BY <1>1 DEF CommandType
<1> QED
  BY <1>1, <1>2, ValidElements DEF CommandType, TypeOK, CommandsOK

(* No call ever fails an assertion of enqueueInternal, for all tuning      *)
(* parameters and numbers of elements.                                     *)
THEOREM ScanAssertions == SafeSpec => []AssertionsHold
<1>1. TypeOK => AssertionsHold
  <2> SUFFICES ASSUME TypeOK, NEW i \in 1 .. Len(cmds), NEW c, c = cmds[i].args
               PROVE  /\ allBlocks(c) > 0 /\ allBlocks(c) <= maxBlocks
                      /\ (allBlocks(c) - 1) * blockSize(c) <= c.elements
                      /\ allBlocks(c) * blockSize(c) >= c.elements
    BY DEF AssertionsHold
  <2>1. c.elements \in Nat \ {0}
    BY CommandOfValidCall
  <2>2. blockSize(c) \in Nat
    BY <2>1, BlockSizeFits
  <2>3. /\ allBlocks(c) \in 1 .. maxBlocks
        /\ (allBlocks(c) - 1) * blockSize(c) < c.elements
        /\ c.elements <= allBlocks(c) * blockSize(c)
    BY <2>1, Assertions
  <2> QED
    BY <2>1, <2>2, <2>3, ParametersAssumption
<1> QED
  BY <1>1, ScanTypeOK, PTL

(* A multiple is not changed by rounding it up.                            *)
LEMMA RoundUpOfMultiple ==
    ASSUME NEW k \in Nat, NEW y \in Nat \ {0}
    PROVE  roundUp(k * y, y) = k * y
<1>1. k * y \in Nat
  OBVIOUS
<1>2. PICK m \in Nat : roundUp(k * y, y) = m * y /\ k * y <= m * y /\ m * y < k * y + y
  BY <1>1, RoundUpMultiple
<1>3. m < k + 1
  <2> SUFFICES ASSUME k + 1 <= m PROVE FALSE
    BY <1>2
  <2>1. (k + 1) * y <= m * y /\ (k + 1) * y = k * y + y
    OBVIOUS
  <2> QED
    BY <1>1, <1>2, <2>1
<1>4. k <= m
  <2> SUFFICES ASSUME m + 1 <= k PROVE FALSE
    BY <1>2
  <2>1. (m + 1) * y <= k * y /\ (m + 1) * y = m * y + y
    OBVIOUS
  <2> QED
    BY <1>1, <1>2, <2>1
<1> QED
  BY <1>2, <1>3, <1>4

(* The @pre of both kernels: the block size is a whole number of           *)
(* work-groups of reduce and of tiles of scanExclusive, so that neither    *)
(* runs past the end of its block.                                         *)
LEMMA KernelPreconditions ==
    ASSUME NEW c, c.elements \in Nat \ {0}
    PROVE  /\ roundUp(blockSize(c), reduceWorkGroupSize) = blockSize(c)
           /\ roundUp(blockSize(c), scanWorkScale * scanWorkGroupSize) = blockSize(c)
<1>1. PICK k \in Nat : blockSize(c) = k * tileSize
  BY BlockSizeFits
<1>2. tileSize \in Nat \ {0}
  BY TileIsPositive
<1>3. ASSUME NEW y \in Nat \ {0}, \E m \in 1 .. tileSize : tileSize = m * y
      PROVE  roundUp(blockSize(c), y) = blockSize(c)
  <2>1. PICK m \in 1 .. tileSize : tileSize = m * y
    BY <1>3
  <2>2. m \in Nat /\ k * m \in Nat /\ blockSize(c) = (k * m) * y
    BY <1>1, <1>2, <2>1
  <2> QED
    BY <2>2, RoundUpOfMultiple
<1>4. scanWorkScale * scanWorkGroupSize \in Nat \ {0}
  BY ParametersAssumption
<1> QED
  BY <1>3, <1>4, ParametersAssumption

-----------------------------------------------------------------------------
(* n cells fit in a buffer that passed the comparison of its size.         *)
LEMMA CellsFit ==
    ASSUME NEW b \in Buffers, NEW n \in Nat, BufferBytes[b] >= n * ElementSize
    PROVE  0 .. n - 1 \subseteq CellsOf(b)
<1> DEFINE q == BufferBytes[b] \div ElementSize
<1>1. BufferBytes[b] \in Nat /\ ElementSize \in Nat \ {0}
  BY CallsAssumption
<1>2. q \in Nat /\ BufferBytes[b] < q * ElementSize + ElementSize
  BY <1>1, DivBounds
<1> HIDE DEF q
<1>3. n <= q
  <2> SUFFICES ASSUME q + 1 <= n PROVE FALSE
    BY <1>2
  <2>1. (q + 1) * ElementSize <= n * ElementSize
    BY <1>1, <1>2
  <2>2. (q + 1) * ElementSize = q * ElementSize + ElementSize
    BY <1>1, <1>2
  <2>3. n * ElementSize \in Nat /\ q * ElementSize \in Nat
    BY <1>1, <1>2
  <2> QED
    BY <1>1, <1>2, <2>1, <2>2, <2>3
<1> QED
  BY <1>2, <1>3 DEF q, CellsOf

LEMMA SmallModulus ==
    ASSUME NEW x \in Nat, NEW m \in Nat \ {0}, x < m
    PROVE  x % m = x
  OBVIOUS

(* An accepted call that fits the integer types passes its sizes to the    *)
(* kernels unchanged and its elements lie in both buffers.                 *)
LEMMA AcceptedCall ==
    ASSUME CallsFit, NEW c \in Calls, Valid(c)
    PROVE  /\ lenArg(c) = blockSize(c) /\ totalArg(c) = c.elements
           /\ c.elements < Uint
           /\ 0 .. c.elements - 1 \subseteq CellsOf(c.in)
           /\ 0 .. c.elements - 1 \subseteq CellsOf(c.out)
           /\ c.offset = "buffer" => c.offsetIndex \in CellsOf(c.offsetBuffer)
<1> DEFINE s == blockSize(c)
           n == c.elements
<1>1. n \in Nat \ {0} /\ s \in Nat \ {0} /\ n <= maxBlocks * s
  BY ValidElements, BlockSizeFits
<1>2. maxBlocks \in Nat \ {0} /\ Uint \in Nat \ {0} /\ SizeT \in Nat \ {0}
      /\ ElementSize \in Nat \ {0}
  BY ParametersAssumption, CallsAssumption
<1>3. /\ n * ElementSize < SizeT /\ maxBlocks * s < Uint
      /\ c.offsetIndex + 1 < Uint
      /\ (c.offsetIndex + 1) * ElementSize < SizeT
  BY DEF CallsFit
<1>4. c.in \in Buffers /\ c.out \in Buffers /\ c.offsetBuffer \in Buffers
      /\ c.offsetIndex \in Nat
  BY CallParts
<1> HIDE DEF s, n
<1>5. s <= maxBlocks * s /\ maxBlocks * s \in Nat
  BY <1>1, <1>2
<1>6. s < Uint /\ n < Uint
  BY <1>1, <1>2, <1>3, <1>5
<1>7. s % Uint = s /\ n % Uint = n
  BY <1>1, <1>2, <1>6, SmallModulus
<1>8. n * ElementSize \in Nat /\ (n * ElementSize) % SizeT = n * ElementSize
  BY <1>1, <1>2, <1>3, SmallModulus
<1>9. BufferBytes[c.in] >= n * ElementSize /\ BufferBytes[c.out] >= n * ElementSize
  BY <1>8 DEF Valid, RangeFits, n
<1>10. 0 .. n - 1 \subseteq CellsOf(c.in) /\ 0 .. n - 1 \subseteq CellsOf(c.out)
  BY <1>1, <1>4, <1>9, CellsFit
<1>11. ASSUME c.offset = "buffer" PROVE c.offsetIndex \in CellsOf(c.offsetBuffer)
  <2> DEFINE m == c.offsetIndex + 1
  <2>1. m \in Nat /\ m % Uint = m
    BY <1>2, <1>3, <1>4, SmallModulus
  <2>2. m * ElementSize \in Nat /\ (m * ElementSize) % SizeT = m * ElementSize
    BY <1>2, <1>3, <1>4, <2>1, SmallModulus
  <2>3. BufferBytes[c.offsetBuffer] >= ((m % Uint) * ElementSize) % SizeT
    BY <1>11 DEF Valid, OffsetFits
  <2>4. BufferBytes[c.offsetBuffer] >= m * ElementSize
    BY <2>1, <2>2, <2>3
  <2>5. c.offsetIndex \in 0 .. m - 1
    BY <1>4
  <2> HIDE DEF m
  <2> QED
    BY <1>4, <2>1, <2>4, <2>5, CellsFit
<1> QED
  BY <1>6, <1>7, <1>10, <1>11 DEF s, n, lenArg, totalArg

(* Every index that a work-group of reduce or scanExclusive uses is the    *)
(* index of an element of the call.                                        *)
LEMMA GroupsStayInside ==
    ASSUME CallsFit, NEW c \in Calls, Valid(c)
    PROVE  /\ \A g \in 0 .. allBlocks(c) - 2 : \A j \in 0 .. ReduceLen(c) - 1 :
                  ReduceIndex(c, g, j) \in 0 .. c.elements - 1
           /\ \A g \in 0 .. allBlocks(c) - 1 : \A j \in 0 .. ScanLen(c, g) - 1 :
                  ScanIndex(c, g, j) \in 0 .. c.elements - 1
<1> DEFINE s == blockSize(c)
           n == c.elements
           a == allBlocks(c)
<1>1. n \in Nat \ {0} /\ s \in Nat \ {0}
  BY ValidElements, BlockSizeFits
<1>2. a \in Nat \ {0} /\ (a - 1) * s < n
  BY <1>1, Assertions, ParametersAssumption
<1>3. lenArg(c) = s /\ totalArg(c) = n /\ n < Uint /\ Uint \in Nat \ {0}
  BY AcceptedCall, CallsAssumption
<1>4. ReduceLen(c) = s
  BY <1>1, <1>3, KernelPreconditions DEF ReduceLen
<1>5. \A g, j : ReduceIndex(c, g, j) = (g * s + j) % Uint
  BY <1>3 DEF ReduceIndex
<1>6. \A g, j : ScanIndex(c, g, j) = g * s + j
  BY <1>3 DEF ScanIndex
<1>7. \A g : ScanLen(c, g) = MinOf(s, (n - g * s) % Uint)
  BY <1>1, <1>3, KernelPreconditions DEF ScanLen
<1> HIDE DEF s, n, a
<1>8. ASSUME NEW g \in 0 .. a - 2, NEW j \in 0 .. s - 1
      PROVE  (g * s + j) % Uint \in 0 .. n - 1
  <2>1. (g + 1) * s <= (a - 1) * s /\ (g + 1) * s = g * s + s
    BY <1>1, <1>2
  <2>2. g * s \in Nat /\ (a - 1) * s \in Nat
    BY <1>1, <1>2
  <2>3. g * s + j \in Nat /\ g * s + j < n
    BY <1>1, <1>2, <2>1, <2>2
  <2>4. (g * s + j) % Uint = g * s + j
    BY <1>1, <1>3, <2>3, SmallModulus
  <2> QED
    BY <1>1, <2>3, <2>4
<1>9. ASSUME NEW g \in 0 .. a - 1, NEW j \in 0 .. MinOf(s, (n - g * s) % Uint) - 1
      PROVE  g * s + j \in 0 .. n - 1
  <2>1. g * s <= (a - 1) * s /\ g * s \in Nat /\ (a - 1) * s \in Nat
    BY <1>1, <1>2
  <2>2. n - g * s \in Nat /\ n - g * s < Uint
    BY <1>1, <1>2, <1>3, <2>1
  <2>3. (n - g * s) % Uint = n - g * s
    BY <1>3, <2>2, SmallModulus
  <2>4. MinOf(s, n - g * s) <= n - g * s
    BY <1>1, <2>2 DEF MinOf
  <2>5. MinOf(s, n - g * s) \in Nat
    BY <1>1, <2>2 DEF MinOf
  <2> HIDE DEF MinOf
  <2>6. j \in Nat /\ j < n - g * s
    BY <2>2, <2>3, <2>4, <2>5
  <2> QED
    BY <1>1, <2>1, <2>6
<1> QED
  BY <1>4, <1>5, <1>6, <1>7, <1>8, <1>9 DEF a, n

(* The kernels of an accepted call never leave the caller's buffers,       *)
(* provided that its sizes fit the integer types they are computed in.     *)
THEOREM ScanInBounds ==
    ASSUME CallsFit
    PROVE  SafeSpec => []InBounds
<1>1. TypeOK => InBounds
  <2> SUFFICES ASSUME TypeOK, NEW i \in 1 .. Len(cmds), NEW g \in cmds[i].todo,
                      NEW c, c = cmds[i].args
               PROVE  CASE cmds[i].kind = "reduce" ->
                             \A j \in 0 .. ReduceLen(c) - 1 :
                                 ReduceIndex(c, g, j) \in CellsOf(c.in)
                       [] cmds[i].kind = "small" ->
                             c.offset = "buffer" =>
                                 c.offsetIndex \in CellsOf(c.offsetBuffer)
                       [] cmds[i].kind = "scan" ->
                             \A j \in 0 .. ScanLen(c, g) - 1 :
                                 ScanIndex(c, g, j) \in CellsOf(c.in) \intersect CellsOf(c.out)
    BY DEF InBounds
  <2>1. /\ c \in Calls /\ Valid(c) /\ cmds[i].kind \in {"reduce", "small", "scan"}
        /\ g \in 0 .. GroupCount(cmds[i].kind, c) - 1
    BY CommandOfValidCall
  <2>2. allBlocks(c) \in Nat
    BY <2>1, ValidElements, Assertions, ParametersAssumption
  <2>3. CASE cmds[i].kind = "reduce"
    <3>1. g \in 0 .. allBlocks(c) - 2
      BY <2>1, <2>2, <2>3 DEF GroupCount
    <3>2. \A j \in 0 .. ReduceLen(c) - 1 : ReduceIndex(c, g, j) \in 0 .. c.elements - 1
      BY <2>1, <3>1, GroupsStayInside
    <3>3. 0 .. c.elements - 1 \subseteq CellsOf(c.in)
      BY <2>1, AcceptedCall
    <3> QED
      BY <2>3, <3>2, <3>3
  <2>4. CASE cmds[i].kind = "small"
    BY <2>1, <2>4, AcceptedCall
  <2>5. CASE cmds[i].kind = "scan"
    <3>1. g \in 0 .. allBlocks(c) - 1
      BY <2>1, <2>5 DEF GroupCount
    <3>2. \A j \in 0 .. ScanLen(c, g) - 1 : ScanIndex(c, g, j) \in 0 .. c.elements - 1
      BY <2>1, <3>1, GroupsStayInside
    <3>3. 0 .. c.elements - 1 \subseteq CellsOf(c.in) /\ 0 .. c.elements - 1 \subseteq CellsOf(c.out)
      BY <2>1, AcceptedCall
    <3> QED
      BY <2>5, <3>2, <3>3
  <2> QED
    BY <2>1, <2>3, <2>4, <2>5
<1> QED
  BY <1>1, ScanTypeOK, PTL

-----------------------------------------------------------------------------
(***************************************************************************)
(* Calls that share one object do not overlap.                             *)
(***************************************************************************)
\* Commands are in the order of the calls that enqueued them.
CallsInOrder(q) ==
    \A j \in 1 .. Len(q) :
        /\ q[j].call <= calls
        /\ \A i \in 1 .. j - 1 : q[i].call <= q[j].call

\* Between calls the last event returned covers all that is in flight.
EventCovers ==
    /\ lost => hostPC = "idle"
    /\ hostPC = "idle" /\ ~lost => Covers(cmds, lastEvent)

\* The inductive invariant: the queue cannot reorder the commands.
OrderInv ==
    /\ Serial(cmds)
    /\ inOrder \/ Chained(cmds)
    /\ CallsInOrder(cmds)
    /\ EventCovers

LEMMA TypedQueue ==
    ASSUME TypeOK
    PROVE  /\ IsQueue(cmds) /\ WaitsBack(cmds) /\ Len(cmds) \in Nat
           /\ \A i \in 1 .. Len(cmds) : cmds[i] \in CommandType
<1>1. cmds \in Seq(CommandType)
  BY DEF TypeOK, CommandsOK
<1>2. Len(cmds) \in Nat /\ \A i \in 1 .. Len(cmds) : cmds[i] \in CommandType
  BY <1>1
<1> DEFINE T == {cmds[i] : i \in 1 .. Len(cmds)}
<1>3. cmds \in [1 .. Len(cmds) -> T]
  BY <1>1
<1>4. cmds \in Seq(T)
  <2> HIDE DEF T
  <2> QED
    BY <1>2, <1>3
<1> QED
  BY <1>2, <1>4 DEF TypeOK, CommandsOK, WaitsBack, IsQueue

(* An enqueue whose command waits for all that is in flight.               *)
LEMMA EnqueueKeepsOrder ==
    ASSUME TypeOK, OrderInv, NEW kind, NEW c, NEW w, NEW first,
           w \subseteq 1 .. Len(cmds),
           inOrder \/ \A i \in 1 .. Len(cmds) :
                          IsDone(cmds, i) \/ \E e \in w : i <= e,
           calls' \in Nat, calls <= calls', UNCHANGED inOrder,
           cmds' = Append(cmds, Command(kind, c, w, first))
    PROVE  /\ Serial(cmds')
           /\ inOrder' \/ Chained(cmds')
           /\ CallsInOrder(cmds)'
           /\ Len(cmds') = Len(cmds) + 1
<1> DEFINE x == Command(kind, c, w, first)
<1>0. IsQueue(cmds) /\ WaitsBack(cmds) /\ Len(cmds) \in Nat
  BY TypedQueue
<1>1. x.status = "queued" /\ x.waits = w /\ x.call = calls'
  BY DEF Command
<1>2. cmds' = Append(cmds, x)
  OBVIOUS
<1> HIDE DEF x
<1>3. /\ Len(cmds') = Len(cmds) + 1 /\ cmds'[Len(cmds) + 1] = x
      /\ \A i \in 1 .. Len(cmds) : cmds'[i] = cmds[i]
  BY <1>0, <1>2, QueueAppend
<1>4. Serial(cmds') /\ (inOrder \/ Chained(cmds'))
  BY <1>0, <1>1, <1>2, AppendOrdered DEF OrderInv
<1>5. \A i \in 1 .. Len(cmds) : cmds[i].call \in Nat /\ cmds[i].call <= calls
  BY TypedQueue DEF CommandType, OrderInv, CallsInOrder
<1>6. calls \in Nat
  BY DEF TypeOK, HostOK
<1>7. ASSUME NEW j \in 1 .. Len(cmds')
      PROVE  /\ cmds'[j].call <= calls'
             /\ \A i \in 1 .. j - 1 : cmds'[i].call <= cmds'[j].call
  <2>1. CASE j \in 1 .. Len(cmds)
    <3>1. \A i \in 1 .. j - 1 : cmds'[i] = cmds[i]
      BY <1>0, <1>3, <2>1
    <3>2. cmds'[j].call <= calls'
      BY <1>3, <1>5, <1>6, <2>1
    <3> QED
      BY <1>3, <2>1, <3>1, <3>2 DEF OrderInv, CallsInOrder
  <2>2. CASE j = Len(cmds) + 1
    <3>1. ASSUME NEW i \in 1 .. j - 1 PROVE cmds'[i].call <= cmds'[j].call
      <4>1. i \in 1 .. Len(cmds)
        BY <1>0, <2>2
      <4> QED
        BY <1>1, <1>3, <1>5, <1>6, <2>2, <4>1
    <3> QED
      BY <1>1, <1>3, <2>2, <3>1
  <2> QED
    BY <1>0, <1>3, <2>1, <2>2
<1> QED
  BY <1>3, <1>4, <1>7 DEF CallsInOrder

LEMMA HostKeepsOrder == TypeOK /\ OrderInv /\ HostStep => OrderInv'
<1> SUFFICES ASSUME TypeOK, OrderInv, HostStep PROVE OrderInv'
  OBVIOUS
<1>0. Len(cmds) \in Nat /\ calls \in Nat
  BY TypedQueue DEF TypeOK, HostOK
<1>1. ASSUME UNCHANGED <<inOrder, cmds>>, calls <= calls', calls' \in Nat, EventCovers'
      PROVE  OrderInv'
  <2>1. \A i \in 1 .. Len(cmds) : cmds[i].call \in Nat
    BY TypedQueue DEF CommandType
  <2>2. CallsInOrder(cmds)'
    BY <1>0, <1>1, <2>1 DEF OrderInv, CallsInOrder
  <2> QED
    BY <1>1, <2>2 DEF OrderInv
<1>2. ASSUME NEW c \in Calls, RejectCall(c) \/ EnqueueFails(c) PROVE OrderInv'
  BY <1>0, <1>1, <1>2
  DEF RejectCall, EnqueueFails, MayCall, OrderInv, EventCovers, Covers, IsDone
<1>3. ASSUME NEW c \in Calls, EnqueueFirst(c) PROVE OrderInv'
  <2>1. Waits \subseteq 1 .. Len(cmds)
    BY <1>0 DEF TypeOK, HostOK, Waits
  <2>2. Covers(cmds, lastEvent)
    BY <1>3 DEF OrderInv, EventCovers, EnqueueFirst, MayCall
  <2>3. ASSUME ~inOrder, NEW i \in 1 .. Len(cmds)
        PROVE  IsDone(cmds, i) \/ \E w \in Waits : i <= w
    BY <1>0, <2>2, <2>3 DEF TypeOK, HostOK, Waits, Covers
  <2>4. /\ calls' = calls + 1 /\ UNCHANGED inOrder
        /\ hostPC' \in {"small", "scan"} /\ lost' = FALSE
    BY <1>3 DEF EnqueueFirst, MayCall, TypeOK, HostOK
  <2>5. PICK kind \in {"reduce", "small"} :
            cmds' = Append(cmds, Command(kind, c, Waits, TRUE))
    BY <1>3 DEF EnqueueFirst
  <2>6. calls' \in Nat /\ calls <= calls'
    BY <1>0, <2>4
  <2>7. /\ Serial(cmds') /\ (inOrder' \/ Chained(cmds')) /\ CallsInOrder(cmds)'
    BY <2>1, <2>3, <2>4, <2>5, <2>6, EnqueueKeepsOrder
  <2> QED
    BY <2>4, <2>7 DEF OrderInv, EventCovers
<1>4. ASSUME hostPC # "idle"
      PROVE  /\ {Len(cmds)} \subseteq 1 .. Len(cmds)
             /\ \A i \in 1 .. Len(cmds) : \E e \in {Len(cmds)} : i <= e
             /\ lost = FALSE
  BY <1>0, <1>4 DEF TypeOK, HostOK, OrderInv, EventCovers
<1>5. CASE EnqueueSmall
  <2> DEFINE c == cmds[Len(cmds)].args
  <2>1. /\ hostPC # "idle" /\ hostPC' = "scan"
        /\ UNCHANGED <<inOrder, calls, lost>>
        /\ cmds' = Append(cmds, Command("small", c, {Len(cmds)}, FALSE))
    BY <1>5 DEF EnqueueSmall, SmallWaits
  <2>2. /\ Serial(cmds') /\ (inOrder' \/ Chained(cmds')) /\ CallsInOrder(cmds)'
    <3>1. calls' \in Nat /\ calls <= calls'
      BY <1>0, <2>1
    <3> HIDE DEF c
    <3> QED
      BY <1>4, <2>1, <3>1, EnqueueKeepsOrder
  <2> QED
    BY <1>4, <2>1, <2>2 DEF OrderInv, EventCovers
<1>6. CASE EnqueueScan
  <2> DEFINE c == cmds[Len(cmds)].args
  <2>1. /\ hostPC # "idle" /\ UNCHANGED <<inOrder, calls, lost>>
        /\ lastEvent' = Len(cmds) + 1 /\ hostPC' = "idle"
        /\ cmds' = Append(cmds, Command("scan", c, {Len(cmds)}, FALSE))
    BY <1>6 DEF EnqueueScan, ReturnedEvent
  <2>2. /\ Serial(cmds') /\ (inOrder' \/ Chained(cmds')) /\ CallsInOrder(cmds)'
        /\ Len(cmds') = Len(cmds) + 1
    <3>1. calls' \in Nat /\ calls <= calls'
      BY <1>0, <2>1
    <3> HIDE DEF c
    <3> QED
      BY <1>4, <2>1, <3>1, EnqueueKeepsOrder
  <2>3. Covers(cmds, lastEvent)'
    <3>1. \A i \in 1 .. Len(cmds') : i <= lastEvent'
      BY <1>0, <2>1, <2>2
    <3> QED
      BY <3>1 DEF Covers
  <2> QED
    BY <1>4, <2>1, <2>2, <2>3 DEF OrderInv, EventCovers
<1>7. CASE EnqueueLaterFails
  <2>1. EventCovers'
    BY <1>7 DEF EnqueueLaterFails, EventCovers
  <2> QED
    BY <1>0, <1>1, <1>7, <2>1 DEF EnqueueLaterFails
<1>8. CASE QueueFinish
  <2>1. EventCovers'
    BY <1>8 DEF QueueFinish, EventCovers, Covers, IsDone, IsComplete
  <2> QED
    BY <1>0, <1>1, <1>8, <2>1 DEF QueueFinish
<1> QED
  BY <1>2, <1>3, <1>5, <1>6, <1>7, <1>8 DEF HostStep

(* A command that is ready, or has started, comes after complete ones.     *)
LEMMA StartedAfterAll ==
    ASSUME TypeOK, OrderInv, NEW k \in 1 .. Len(cmds),
           Ready(k) \/ cmds[k].status # "queued"
    PROVE  \A i \in 1 .. k - 1 : IsDone(cmds, i)
<1>1. CASE cmds[k].status # "queued"
  BY <1>1 DEF OrderInv, Serial
<1>2. CASE Ready(k)
  <2>1. \A w \in cmds[k].waits : IsDone(cmds, w)
    BY <1>2 DEF Ready, IsComplete, IsDone
  <2>2. Chained(cmds) \/ \A i \in 1 .. k - 1 : IsDone(cmds, i)
    BY <1>2 DEF OrderInv, Ready, IsComplete, IsDone
  <2> QED
    BY <2>1, <2>2, ReadyAfterAll, TypedQueue DEF OrderInv
<1> QED
  BY <1>1, <1>2

LEMMA DeviceKeepsOrder == TypeOK /\ OrderInv /\ Work => OrderInv'
<1> SUFFICES ASSUME TypeOK, OrderInv, NEW k \in 1 .. Len(cmds),
                    \/ Start(k)
                    \/ \E g \in cmds[k].todo : RunReduce(k, g) \/ RunScan(k, g)
                    \/ RunSmall(k)
                    \/ Complete(k)
             PROVE  OrderInv'
  BY DEF Work
<1>0. IsQueue(cmds) /\ WaitsBack(cmds) /\ Len(cmds) \in Nat /\ cmds[k] \in CommandType
  BY TypedQueue
<1>1. UNCHANGED <<inOrder, hostVars>>
  BY DEF Start, RunReduce, RunScan, RunSmall, RunGroup, Complete
<1>2. \A i \in 1 .. k - 1 : IsDone(cmds, i)
  BY StartedAfterAll DEF Start, RunReduce, RunScan, RunSmall, RunGroup, Complete
<1>3. ~IsDone(cmds, k)
  BY DEF Start, Ready, RunReduce, RunScan, RunSmall, RunGroup, Complete, IsDone
<1>4. ASSUME NEW x, Updated(cmds, k, x, cmds'), x.waits = cmds[k].waits,
             x.call = cmds[k].call
      PROVE  OrderInv'
  <2>1. /\ Len(cmds') = Len(cmds) /\ cmds'[k] = x
        /\ \A i \in 1 .. Len(cmds) : i # k => cmds'[i] = cmds[i]
    BY <1>0, <1>4, QueueExcept
  <2>2. /\ Serial(cmds') /\ (Chained(cmds) => Chained(cmds'))
        /\ \A i \in 1 .. Len(cmds) : IsDone(cmds, i) => IsDone(cmds', i)
    BY <1>0, <1>2, <1>3, <1>4, ProgressOrdered DEF OrderInv
  <2>3. \A i \in 1 .. Len(cmds) : cmds'[i].call = cmds[i].call
    BY <1>4, <2>1
  <2>4. CallsInOrder(cmds)'
    <3>1. \A j \in 1 .. Len(cmds) : \A i \in 1 .. j - 1 : i \in 1 .. Len(cmds)
      BY <1>0
    <3> QED
      BY <1>1, <2>1, <2>3, <3>1 DEF OrderInv, CallsInOrder, hostVars
  <2>5. EventCovers'
    BY <1>1, <2>1, <2>2 DEF OrderInv, EventCovers, Covers, hostVars
  <2> QED
    BY <1>1, <2>2, <2>4, <2>5 DEF OrderInv
<1>5. ASSUME NEW status, cmds' = [cmds EXCEPT ![k].status = status] PROVE OrderInv'
  <2> DEFINE x == [cmds[k] EXCEPT !.status = status]
  <2>1. Updated(cmds, k, x, cmds')
    BY <1>5 DEF Updated
  <2>2. x.waits = cmds[k].waits /\ x.call = cmds[k].call
    BY <1>0 DEF CommandType
  <2> HIDE DEF x
  <2> QED
    BY <1>4, <2>1, <2>2
<1>6. ASSUME NEW g, cmds' = [cmds EXCEPT ![k].todo = @ \ {g}] PROVE OrderInv'
  <2> DEFINE x == [cmds[k] EXCEPT !.todo = @ \ {g}]
  <2>1. Updated(cmds, k, x, cmds')
    BY <1>6 DEF Updated
  <2>2. x.waits = cmds[k].waits /\ x.call = cmds[k].call
    BY <1>0 DEF CommandType
  <2> HIDE DEF x
  <2> QED
    BY <1>4, <2>1, <2>2
<1>7. CASE Start(k) \/ Complete(k)
  BY <1>5, <1>7 DEF Start, Complete
<1>8. CASE RunSmall(k) \/ \E g \in cmds[k].todo : RunReduce(k, g) \/ RunScan(k, g)
  BY <1>6, <1>8 DEF RunSmall, RunReduce, RunScan, RunGroup
<1> QED
  BY <1>7, <1>8

LEMMA ScanOrder == SafeSpec => []OrderInv
<1>1. Init => OrderInv
  <2> SUFFICES ASSUME Init PROVE OrderInv
    OBVIOUS
  <2>1. Len(cmds) = 0
    BY DEF Init
  <2> QED
    BY <2>1 DEF Init, OrderInv, Serial, Chained, CallsInOrder, EventCovers, Covers
<1>2. TypeOK /\ OrderInv /\ [Next]_vars => OrderInv'
  <2>1. ASSUME OrderInv, UNCHANGED vars PROVE OrderInv'
    BY <2>1 DEF OrderInv, EventCovers, CallsInOrder, vars, hostVars
  <2> QED
    BY <2>1, HostKeepsOrder, DeviceKeepsOrder DEF Next
<1> QED
  BY <1>1, <1>2, ScanTypeOK, PTL DEF SafeSpec

(* Waiting for the event of the previous call keeps the commands of two    *)
(* calls apart, also on an out-of-order queue and after a failed call.     *)
THEOREM ScanExecutionsDisjoint == SafeSpec => []ExecutionsDisjoint
<1>1. TypeOK /\ OrderInv => ExecutionsDisjoint
  <2> SUFFICES ASSUME TypeOK, OrderInv, NEW i \in 1 .. Len(cmds), NEW j \in 1 .. Len(cmds),
                      cmds[i].call < cmds[j].call,
                      Ready(j) \/ cmds[j].status # "queued"
               PROVE  IsComplete(i)
    BY DEF ExecutionsDisjoint
  <2>1. /\ Len(cmds) \in Nat
        /\ \A k \in 1 .. Len(cmds) : cmds[k].call \in Nat
    BY TypedQueue DEF CommandType
  <2>2. i # j /\ ~(j < i)
    BY <2>1 DEF OrderInv, CallsInOrder
  <2>3. i \in 1 .. j - 1
    BY <2>1, <2>2
  <2> QED
    BY <2>3, StartedAfterAll DEF IsComplete, IsDone
<1> QED
  BY <1>1, ScanOrder, ScanTypeOK, PTL

-----------------------------------------------------------------------------
(***************************************************************************)
(* Sums.  Induction is by the least natural number that has no proof.      *)
(***************************************************************************)
LEMMA LeastNatural ==
    ASSUME NEW T \in SUBSET Nat, T # {}
    PROVE  \E m \in T : m = 0 \/ (m - 1 \in Nat /\ m - 1 \notin T)
<1>1. PICK x \in T : \A y \in T : ~(<<y, x>> \in OpToRel(<, Nat))
  BY NatLessThanWellFounded, WFMin
<1>2. \A y \in T : ~(y < x)
  BY <1>1 DEF OpToRel
<1> QED
  BY <1>2

LEMMA BagPlus ==
    ASSUME NEW A, NEW B, IsABag(A), IsABag(B)
    PROVE  IsABag(A (+) B)
  BY DEF IsABag, (+)

LEMMA BagAssociative ==
    ASSUME NEW A, NEW B, NEW C, IsABag(A), IsABag(B), IsABag(C)
    PROVE  (A (+) B) (+) C = A (+) (B (+) C)
<1> DEFINE L == (A (+) B) (+) C
           R == A (+) (B (+) C)
           S == DOMAIN A \cup DOMAIN B \cup DOMAIN C
<1>1. DOMAIN L = S /\ DOMAIN R = S
  BY DEF (+)
<1>2. ASSUME NEW e \in S PROVE L[e] = R[e]
  <2>1. /\ e \in DOMAIN A => A[e] \in Nat
        /\ e \in DOMAIN B => B[e] \in Nat
        /\ e \in DOMAIN C => C[e] \in Nat
    BY DEF IsABag
  <2> QED
    BY <2>1 DEF (+)
<1>3. L = [e \in DOMAIN L |-> L[e]] /\ R = [e \in DOMAIN R |-> R[e]]
  BY DEF (+)
<1> HIDE DEF L, R, S
<1>4. L = R
  BY <1>1, <1>2, <1>3
<1> QED
  BY <1>4 DEF L, R

LEMMA BagEmpty ==
    /\ IsABag(EmptyBag)
    /\ \A B : IsABag(B) => EmptyBag (+) B = B /\ B (+) EmptyBag = B
<1>1. IsABag(EmptyBag)
  BY DEF IsABag, EmptyBag, SetToBag
<1>2. ASSUME NEW B, IsABag(B) PROVE EmptyBag (+) B = B /\ B (+) EmptyBag = B
  <2>1. DOMAIN EmptyBag = {} /\ B = [e \in DOMAIN B |-> B[e]]
    BY <1>2 DEF EmptyBag, SetToBag, IsABag
  <2>2. \A e \in DOMAIN B : B[e] \in Nat
    BY <1>2 DEF IsABag
  <2>3. EmptyBag (+) B = [e \in DOMAIN B |-> B[e]]
    BY <2>1, <2>2 DEF (+)
  <2>4. B (+) EmptyBag = [e \in DOMAIN B |-> B[e]]
    BY <2>1, <2>2 DEF (+)
  <2> QED
    BY <2>1, <2>3, <2>4
<1> QED
  BY <1>1, <1>2

LEMMA BagOfSet ==
    ASSUME NEW S
    PROVE  IsABag(SetToBag(S))
  BY DEF IsABag, SetToBag

\* s is the recursive function of SumOf(f, n).
Sums(f, n, s) == s = [k \in 0 .. n |-> IF k = 0 THEN EmptyBag ELSE s[k - 1] (+) f[k - 1]]

LEMMA SumOfIs ==
    ASSUME NEW f, NEW n
    PROVE  SumOf(f, n) = (CHOOSE s : Sums(f, n, s))[n]
  BY DEF SumOf, Sums

LEMMA SumsExist ==
    ASSUME NEW f, NEW n \in Nat
    PROVE  \E s : Sums(f, n, s)
<1> DEFINE T == {m \in Nat : ~\E s : Sums(f, m, s)}
<1> SUFFICES ASSUME T # {} PROVE FALSE
  OBVIOUS
<1>1. T \in SUBSET Nat
  OBVIOUS
<1>2. PICK m \in T : m = 0 \/ (m - 1 \in Nat /\ m - 1 \notin T)
  BY <1>1, LeastNatural
<1>3. CASE m = 0
  <2>1. Sums(f, 0, [k \in 0 .. 0 |-> EmptyBag])
    BY DEF Sums
  <2> QED
    BY <1>3, <2>1
<1>4. CASE m # 0
  <2>1. m \in Nat /\ m - 1 \in Nat
    BY <1>4
  <2>2. PICK s : Sums(f, m - 1, s)
    BY <1>2, <1>4, <2>1
  <2> DEFINE t == [k \in 0 .. m |-> IF k = m THEN s[m - 1] (+) f[m - 1] ELSE s[k]]
  <2>3. \A k \in 0 .. m - 1 : s[k] = IF k = 0 THEN EmptyBag ELSE s[k - 1] (+) f[k - 1]
    BY <2>2 DEF Sums
  <2>4. \A k \in 0 .. m : t[k] = IF k = 0 THEN EmptyBag ELSE t[k - 1] (+) f[k - 1]
    <3> TAKE k \in 0 .. m
    <3>1. CASE k = m
      <4>1. k # 0 /\ k - 1 \in 0 .. m /\ k - 1 # m /\ k - 1 = m - 1
        BY <1>4, <2>1, <3>1
      <4>2. t[k] = s[m - 1] (+) f[m - 1] /\ t[k - 1] = s[m - 1]
        BY <3>1, <4>1
      <4> QED
        BY <4>1, <4>2
    <3>2. CASE k # m
      <4>1. k \in 0 .. m - 1 /\ (k # 0 => k - 1 \in 0 .. m /\ k - 1 # m)
        BY <2>1, <3>2
      <4>2. t[k] = s[k] /\ (k # 0 => t[k - 1] = s[k - 1])
        BY <3>2, <4>1
      <4> QED
        BY <2>3, <4>1, <4>2
    <3> QED
      BY <3>1, <3>2
  <2>5. t = [k \in 0 .. m |-> t[k]]
    OBVIOUS
  <2> HIDE DEF t
  <2>6. Sums(f, m, t)
    BY <2>4, <2>5 DEF Sums
  <2> QED
    BY <2>6
<1> QED
  BY <1>3, <1>4

LEMMA SumsOf ==
    ASSUME NEW f, NEW n \in Nat
    PROVE  \E s : Sums(f, n, s) /\ SumOf(f, n) = s[n]
<1>1. PICK s : s = (CHOOSE r : Sums(f, n, r)) /\ Sums(f, n, s)
  BY SumsExist
<1> QED
  BY <1>1, SumOfIs

\* Two such functions agree where both are defined, if f and g do.
LEMMA SumsAgree ==
    ASSUME NEW f, NEW g, NEW n \in Nat, NEW m \in Nat, NEW s, NEW t,
           Sums(f, n, s), Sums(g, m, t), NEW i \in Nat, i <= n, i <= m,
           \A j \in 0 .. i - 1 : f[j] = g[j]
    PROVE  s[i] = t[i]
<1> DEFINE T == {k \in 0 .. i : s[k] # t[k]}
<1> SUFFICES ASSUME T # {} PROVE FALSE
  OBVIOUS
<1>1. T \in SUBSET Nat
  OBVIOUS
<1>2. PICK k \in T : k = 0 \/ (k - 1 \in Nat /\ k - 1 \notin T)
  BY <1>1, LeastNatural
<1>3. k \in 0 .. n /\ k \in 0 .. m /\ k \in 0 .. i
  OBVIOUS
<1>4. s[k] = (IF k = 0 THEN EmptyBag ELSE s[k - 1] (+) f[k - 1])
  BY <1>3 DEF Sums
<1>5. t[k] = (IF k = 0 THEN EmptyBag ELSE t[k - 1] (+) g[k - 1])
  BY <1>3 DEF Sums
<1>6. CASE k = 0
  BY <1>4, <1>5, <1>6
<1>7. CASE k # 0
  <2>1. k - 1 \in 0 .. i /\ k - 1 \in 0 .. i - 1
    BY <1>3, <1>7
  <2>2. s[k - 1] = t[k - 1] /\ f[k - 1] = g[k - 1]
    BY <1>2, <1>7, <2>1
  <2> QED
    BY <1>4, <1>5, <1>7, <2>2
<1> QED
  BY <1>6, <1>7

LEMMA SumUnfold ==
    ASSUME NEW f
    PROVE  /\ SumOf(f, 0) = EmptyBag
           /\ \A n \in Nat : SumOf(f, n + 1) = SumOf(f, n) (+) f[n]
<1>1. SumOf(f, 0) = EmptyBag
  <2>1. PICK s : Sums(f, 0, s) /\ SumOf(f, 0) = s[0]
    BY SumsOf
  <2> QED
    BY <2>1 DEF Sums
<1>2. ASSUME NEW n \in Nat PROVE SumOf(f, n + 1) = SumOf(f, n) (+) f[n]
  <2>0. n + 1 \in Nat /\ n + 1 \in 0 .. n + 1 /\ n + 1 # 0 /\ (n + 1) - 1 = n /\ n <= n + 1
    OBVIOUS
  <2>1. PICK s : Sums(f, n + 1, s) /\ SumOf(f, n + 1) = s[n + 1]
    BY <2>0, SumsOf
  <2>2. PICK t : Sums(f, n, t) /\ SumOf(f, n) = t[n]
    BY SumsOf
  <2>3. s[n] = t[n]
    BY <2>0, <2>1, <2>2, SumsAgree
  <2>4. s[n + 1] = s[n] (+) f[n]
    BY <2>0, <2>1 DEF Sums
  <2> QED
    BY <2>1, <2>2, <2>3, <2>4
<1> QED
  BY <1>1, <1>2

LEMMA SumIsABag ==
    ASSUME NEW f, NEW n \in Nat, \A j \in 0 .. n - 1 : IsABag(f[j])
    PROVE  IsABag(SumOf(f, n))
<1> DEFINE T == {k \in 0 .. n : ~IsABag(SumOf(f, k))}
<1> SUFFICES ASSUME T # {} PROVE FALSE
  OBVIOUS
<1>1. T \in SUBSET Nat
  OBVIOUS
<1>2. PICK k \in T : k = 0 \/ (k - 1 \in Nat /\ k - 1 \notin T)
  BY <1>1, LeastNatural
<1>3. CASE k = 0
  BY <1>3, SumUnfold, BagEmpty
<1>4. CASE k # 0
  <2>1. PICK j \in Nat : k = j + 1 /\ j = k - 1 /\ j \in 0 .. n - 1 /\ j \in 0 .. n
    BY <1>4
  <2>2. IsABag(SumOf(f, j))
    BY <1>2, <1>4, <2>1
  <2>3. SumOf(f, k) = SumOf(f, j) (+) f[j]
    BY <2>1, SumUnfold
  <2> QED
    BY <2>1, <2>2, <2>3, BagPlus
<1> QED
  BY <1>3, <1>4

\* The sum of a + b values is that of the first a and that of the next b.
LEMMA SumSplit ==
    ASSUME NEW f, NEW g, NEW a \in Nat, NEW b \in Nat,
           \A j \in 0 .. a + b - 1 : IsABag(f[j]),
           \A j \in 0 .. b - 1 : g[j] = f[a + j]
    PROVE  SumOf(f, a) (+) SumOf(g, b) = SumOf(f, a + b)
<1> DEFINE T == {k \in 0 .. b : SumOf(f, a) (+) SumOf(g, k) # SumOf(f, a + k)}
<1> SUFFICES ASSUME T # {} PROVE FALSE
  OBVIOUS
<1>0. IsABag(SumOf(f, a))
  BY SumIsABag
<1>1. T \in SUBSET Nat
  OBVIOUS
<1>2. PICK k \in T : k = 0 \/ (k - 1 \in Nat /\ k - 1 \notin T)
  BY <1>1, LeastNatural
<1>3. CASE k = 0
  <2>1. SumOf(g, k) = EmptyBag /\ a + k = a
    BY <1>3, SumUnfold
  <2> QED
    BY <1>0, <2>1, BagEmpty
<1>4. CASE k # 0
  <2>1. PICK j \in Nat : k = j + 1 /\ j = k - 1 /\ j \in 0 .. b - 1 /\ j \in 0 .. b
    BY <1>4
  <2>2. SumOf(f, a) (+) SumOf(g, j) = SumOf(f, a + j)
    BY <1>2, <1>4, <2>1
  <2>3. SumOf(g, k) = SumOf(g, j) (+) g[j] /\ SumOf(f, a + k) = SumOf(f, a + j) (+) f[a + j]
    <3>1. a + j \in Nat /\ a + k = (a + j) + 1
      BY <2>1
    <3> QED
      BY <2>1, <3>1, SumUnfold
  <2>4. IsABag(f[a + j]) /\ g[j] = f[a + j]
    BY <2>1
  <2>5. IsABag(SumOf(g, j))
    <3>1. \A i \in 0 .. j - 1 : i \in 0 .. b - 1 /\ a + i \in 0 .. a + b - 1
      BY <2>1
    <3>2. \A i \in 0 .. j - 1 : IsABag(g[i])
      BY <3>1
    <3> QED
      BY <3>2, SumIsABag
  <2>6. (SumOf(f, a) (+) SumOf(g, j)) (+) g[j] = SumOf(f, a) (+) (SumOf(g, j) (+) g[j])
    BY <1>0, <2>4, <2>5, BagAssociative
  <2> QED
    BY <2>2, <2>3, <2>4, <2>6
<1> QED
  BY <1>3, <1>4

\* The len values of f from the one at a on.
Slice(f, a, len) == [j \in 0 .. len - 1 |-> f[a + j]]

\* The sum of n blocks of len values each.
LEMMA SumBlocks ==
    ASSUME NEW f, NEW h, NEW n \in Nat, NEW len \in Nat,
           \A j \in 0 .. n * len - 1 : IsABag(f[j]),
           \A i \in 0 .. n - 1 : h[i] = SumOf(Slice(f, i * len, len), len)
    PROVE  SumOf(h, n) = SumOf(f, n * len)
<1> DEFINE T == {k \in 0 .. n : SumOf(h, k) # SumOf(f, k * len)}
<1> SUFFICES ASSUME T # {} PROVE FALSE
  OBVIOUS
<1>1. T \in SUBSET Nat
  OBVIOUS
<1>2. PICK k \in T : k = 0 \/ (k - 1 \in Nat /\ k - 1 \notin T)
  BY <1>1, LeastNatural
<1>3. CASE k = 0
  <2>1. k * len = 0
    BY <1>3
  <2> QED
    BY <1>3, <2>1, SumUnfold
<1>4. CASE k # 0
  <2>1. PICK i \in Nat : k = i + 1 /\ i = k - 1 /\ i \in 0 .. n - 1 /\ i \in 0 .. n
    BY <1>4
  <2>2. SumOf(h, i) = SumOf(f, i * len)
    BY <1>2, <1>4, <2>1
  <2>3. SumOf(h, k) = SumOf(h, i) (+) h[i]
    BY <2>1, SumUnfold
  <2>4. PICK a \in Nat : a = i * len /\ k * len = a + len /\ a + len <= n * len
    <3>1. PICK m \in Nat : n = i + 1 + m
      BY <2>1, n - i - 1 \in Nat
    <3>2. n * len = i * len + len + m * len /\ i * len \in Nat /\ m * len \in Nat
      BY <3>1
    <3>3. k * len = i * len + len
      BY <2>1
    <3> QED
      BY <3>2, <3>3
  <2>5. PICK g : g = [j \in 0 .. len - 1 |-> f[a + j]] /\ h[i] = SumOf(g, len)
    BY <2>1, <2>4 DEF Slice
  <2>6. \A j \in 0 .. a + len - 1 : IsABag(f[j])
    <3>1. \A j \in 0 .. a + len - 1 : j \in 0 .. n * len - 1
      BY <2>4, n * len \in Nat
    <3> QED
      BY <3>1
  <2>7. SumOf(f, a) (+) SumOf(g, len) = SumOf(f, a + len)
    BY <2>5, <2>6, SumSplit
  <2> QED
    BY <2>2, <2>3, <2>4, <2>5, <2>7
<1> QED
  BY <1>3, <1>4

-----------------------------------------------------------------------------
(***************************************************************************)
(* What the calls compute.                                                 *)
(***************************************************************************)
BagMemory(m) ==
    /\ m = [b \in Buffers |-> [i \in CellsOf(b) |-> m[b][i]]]
    /\ \A b \in Buffers : \A i \in CellsOf(b) : IsABag(m[b][i])

\* What reduce leaves for block g, and what the small scan makes of that.
BlockSum(m, c, g) ==
    SumOf(Slice(m[c.in], g * blockSize(c), blockSize(c)), blockSize(c))
Base(m, c, g) == OffsetValue(m, c) (+) SumOf(m[c.in], g * blockSize(c))

\* What the work-groups of reduce and of scanExclusive read and write.
ReduceValues(m, c, g) ==
    [j \in 0 .. ReduceLen(c) - 1 |-> Cell(m, c.in, ReduceIndex(c, g, j))]
ScanValues(m, c, g) ==
    [j \in 0 .. ScanLen(c, g) - 1 |-> Cell(m, c.in, ScanIndex(c, g, j))]
Scanned(m, c, g, base) ==
    [m EXCEPT ![c.out] = [k \in CellsOf(c.out) |->
        LET j == k - ScanIndex(c, g, 0)
        IN  IF j \in 0 .. ScanLen(c, g) - 1
            THEN base (+) SumOf(ScanValues(m, c, g), j)
            ELSE m[c.out][k]]]

BlockSums(s, m, c, G) == \A g \in G : s[g] = BlockSum(m, c, g)
Bases(s, m, c) == \A g \in 0 .. allBlocks(c) - 1 : s[g] = Base(m, c, g)

Block(c, g) == g * blockSize(c) .. g * blockSize(c) + blockSize(c) - 1

\* The buffers when all work-groups but those in G have scanned their blocks.
ScanBut(m, c, G) ==
    [m EXCEPT ![c.out] = [k \in CellsOf(c.out) |->
        IF k < c.elements /\ \A g \in G : k \notin Block(c, g)
        THEN OffsetValue(m, c) (+) SumOf(m[c.in], k)
        ELSE m[c.out][k]]]

\* The commands of a call follow each other.
Follows(x, y) ==
    /\ x.args = y.args
    /\ \/ x.kind = "reduce" /\ y.kind = "small"
       \/ x.kind = "small" /\ y.kind = "scan"

FirstKind(c) == IF allBlocks(c) > 1 THEN "reduce" ELSE "small"

Groups(x) == 0 .. GroupCount(x.kind, x.args) - 1

StructureOf(q) ==
    \A i \in 1 .. Len(q) :
        /\ IF q[i].first THEN q[i].kind = FirstKind(q[i].args)
                         ELSE i > 1 /\ Follows(q[i - 1], q[i])
        /\ q[i].status = "queued" => q[i].todo = Groups(q[i])
        /\ q[i].status = "complete" => q[i].todo = {}

Structure ==
    /\ StructureOf(cmds)
    /\ hostPC = "small" => cmds[Len(cmds)].kind = "reduce"
    /\ hostPC = "scan" => cmds[Len(cmds)].kind = "small"

Newest(q, i) ==
    /\ q[i].status # "queued"
    /\ \A j \in i + 1 .. Len(q) : q[j].status = "queued"

\* How far the call of command x has come, with m in the caller's buffers,
\* s in sums, and b in the buffers when the call started.
Progress(x, m, b, s) ==
    LET c == x.args
    IN  /\ x.kind = "reduce" =>
              /\ m = b
              /\ BlockSums(s, b, c, (0 .. allBlocks(c) - 2) \ x.todo)
        /\ x.kind = "small" =>
              /\ m = b
              /\ IF 0 \in x.todo THEN BlockSums(s, b, c, 0 .. allBlocks(c) - 2)
                                 ELSE Bases(s, b, c)
        /\ x.kind = "scan" =>
              /\ m = ScanBut(b, c, x.todo)
              /\ Bases(s, b, c)

ResultInv ==
    /\ BagMemory(mem) /\ BagMemory(before)
    /\ \A i \in 1 .. Len(cmds) :
          Newest(cmds, i) => Progress(cmds[i], mem, before, sums)

\* The sizes of an accepted call.
LEMMA CallSizes ==
    ASSUME CallsFit, NEW c \in Calls, Valid(c)
    PROVE  \E s \in Nat \ {0}, n \in Nat \ {0}, a \in Nat \ {0} :
              /\ s = blockSize(c) /\ n = c.elements /\ a = allBlocks(c)
              /\ (a - 1) * s < n /\ n <= a * s /\ a <= maxBlocks
<1>1. c.elements \in Nat \ {0} /\ blockSize(c) \in Nat \ {0}
  BY ValidElements, BlockSizeFits
<1>2. /\ allBlocks(c) \in 1 .. maxBlocks
      /\ (allBlocks(c) - 1) * blockSize(c) < c.elements
      /\ c.elements <= allBlocks(c) * blockSize(c)
  BY <1>1, Assertions
<1>3. allBlocks(c) \in Nat \ {0} /\ allBlocks(c) <= maxBlocks
  BY <1>2, ParametersAssumption
<1> QED
  BY <1>1, <1>2, <1>3

LEMMA BlockInside ==
    ASSUME NEW s \in Nat \ {0}, NEW n \in Nat, NEW a \in Nat, NEW g \in Nat,
           g < a, (a - 1) * s < n
    PROVE  /\ g * s \in Nat /\ g * s < n
           /\ g + 1 < a => g * s + s < n
<1>1. PICK j \in Nat : a - 1 = g + j
  BY a - 1 - g \in Nat
<1>2. (a - 1) * s = g * s + j * s /\ g * s \in Nat /\ j * s \in Nat
  BY <1>1
<1>3. ASSUME g + 1 < a PROVE g * s + s < n
  <2>1. PICK i \in Nat : a - 1 = g + 1 + i
    BY <1>3, a - 1 - (g + 1) \in Nat
  <2>2. (a - 1) * s = g * s + s + i * s /\ i * s \in Nat
    BY <2>1
  <2> QED
    BY <1>2, <2>2
<1> QED
  BY <1>2, <1>3

\* The elements of a call are bags.
LEMMA ElementsAreBags ==
    ASSUME CallsFit, NEW c \in Calls, Valid(c), NEW m, BagMemory(m)
    PROVE  /\ \A k \in 0 .. c.elements - 1 : k \in CellsOf(c.in) /\ IsABag(m[c.in][k])
           /\ c.in \in Buffers /\ c.out \in Buffers
           /\ IsABag(OffsetValue(m, c))
<1>1. c.in \in Buffers /\ c.out \in Buffers /\ c.offsetBuffer \in Buffers
      /\ c.offset \in {"none", "host", "buffer"}
  BY CallsAssumption DEF CallType
<1>2. \A k \in 0 .. c.elements - 1 : k \in CellsOf(c.in)
  BY AcceptedCall
<1>3. IsABag(OffsetValue(m, c))
  <2>1. CASE c.offset = "none"
    BY <2>1, BagEmpty DEF OffsetValue
  <2>2. CASE c.offset = "host"
    BY <2>2, BagOfSet DEF OffsetValue
  <2>3. CASE c.offset = "buffer"
    <3>1. c.offsetIndex \in CellsOf(c.offsetBuffer)
      BY <2>3, AcceptedCall
    <3>2. OffsetValue(m, c) = m[c.offsetBuffer][c.offsetIndex]
      BY <2>3, <3>1 DEF OffsetValue, Cell
    <3> QED
      BY <1>1, <3>1, <3>2 DEF BagMemory
  <2> QED
    BY <1>1, <2>1, <2>2, <2>3
<1> QED
  BY <1>1, <1>2, <1>3 DEF BagMemory

\* What one work-group of reduce writes.
LEMMA ReduceGroup ==
    ASSUME CallsFit, TypeOK, NEW c \in Calls, Valid(c), NEW g \in 0 .. allBlocks(c) - 2,
           NEW m, NEW values, values = ReduceValues(m, c, g)
    PROVE  SumOf(values, ReduceLen(c)) = BlockSum(m, c, g)
<1>0. PICK s \in Nat \ {0}, n \in Nat \ {0}, a \in Nat \ {0} :
       /\ s = blockSize(c) /\ n = c.elements /\ a = allBlocks(c)
       /\ (a - 1) * s < n /\ n <= a * s /\ a <= maxBlocks
  BY CallSizes
<1>a. s = blockSize(c) /\ n = c.elements /\ a = allBlocks(c)
  BY <1>0
<1>b. (a - 1) * s < n
  BY <1>0
<1>1. lenArg(c) = s /\ n < Uint /\ Uint \in Nat \ {0} /\ 0 .. n - 1 \subseteq CellsOf(c.in)
  BY <1>a, AcceptedCall, CallsAssumption
<1>2. ReduceLen(c) = s
  <2>1. c.elements \in Nat \ {0}
    BY <1>a
  <2> QED
    BY <1>a, <1>1, <2>1, KernelPreconditions DEF ReduceLen
<1>3. ASSUME NEW j \in 0 .. s - 1 PROVE Cell(m, c.in, ReduceIndex(c, g, j)) = m[c.in][g * s + j]
  <2>1. g \in Nat /\ g < a /\ g + 1 < a
    BY <1>a
  <2>2. PICK b \in Nat : b = g * s /\ b + s < n
    BY <1>b, <2>1, BlockInside
  <2>3. PICK k \in Nat : k = b + j /\ k < n
    BY <2>2, b + j \in Nat
  <2>4. k % Uint = k
    BY <1>1, <2>3, SmallModulus
  <2>5. ReduceIndex(c, g, j) = k /\ k \in CellsOf(c.in)
    BY <1>1, <2>2, <2>3, <2>4 DEF ReduceIndex
  <2> QED
    BY <2>2, <2>3, <2>5 DEF Cell
<1>4. values = [j \in 0 .. s - 1 |-> m[c.in][g * s + j]]
  BY <1>2, <1>3 DEF ReduceValues
<1> QED
  BY <1>a, <1>2, <1>4 DEF BlockSum, Slice

\* What the small scan makes of the block sums.
LEMMA SmallGroup ==
    ASSUME CallsFit, NEW c \in Calls, Valid(c), NEW m, BagMemory(m), NEW t,
           BlockSums(t, m, c, 0 .. allBlocks(c) - 2), NEW g \in 0 .. allBlocks(c) - 1
    PROVE  OffsetValue(m, c) (+) SumOf(t, g) = Base(m, c, g)
<1>0. PICK s \in Nat \ {0}, n \in Nat \ {0}, a \in Nat \ {0} :
       /\ s = blockSize(c) /\ n = c.elements /\ a = allBlocks(c)
       /\ (a - 1) * s < n /\ n <= a * s /\ a <= maxBlocks
  BY CallSizes
<1>a. s = blockSize(c) /\ n = c.elements /\ a = allBlocks(c)
  BY <1>0
<1>b. (a - 1) * s < n
  BY <1>0
<1>1. g \in Nat /\ g < a
  BY <1>a
<1>2. PICK b \in Nat : b = g * s /\ b < n
  BY <1>b, <1>1, BlockInside
<1>3. \A j \in 0 .. b - 1 : IsABag(m[c.in][j])
  <2>1. \A j \in 0 .. b - 1 : j \in 0 .. n - 1
    BY <1>2
  <2> QED
    BY <1>a, <2>1, ElementsAreBags
<1>4. \A i \in 0 .. g - 1 : t[i] = SumOf(Slice(m[c.in], i * s, s), s)
  <2>1. \A i \in 0 .. g - 1 : i \in 0 .. a - 2
    BY <1>1
  <2> QED
    BY <1>a, <2>1 DEF BlockSums, BlockSum
<1>5. PICK f : f = m[c.in]
  OBVIOUS
<1>6. SumOf(t, g) = SumOf(f, g * s)
  <2>1. \A j \in 0 .. g * s - 1 : IsABag(f[j])
    BY <1>2, <1>3, <1>5
  <2>2. \A i \in 0 .. g - 1 : t[i] = SumOf(Slice(f, i * s, s), s)
    BY <1>4, <1>5
  <2>3. s \in Nat
    OBVIOUS
  <2> QED
    BY ONLY <1>1, <2>1, <2>2, <2>3, SumBlocks
<1> QED
  BY <1>a, <1>5, <1>6 DEF Base

\* The elements that one work-group of scanExclusive handles.
LEMMA ScanCells ==
    ASSUME CallsFit, NEW c \in Calls, Valid(c), NEW g \in 0 .. allBlocks(c) - 1
    PROVE  /\ ScanLen(c, g) \in Nat
           /\ \A j : ScanIndex(c, g, j) = g * blockSize(c) + j
           /\ g * blockSize(c) \in Nat
           /\ \A k \in Nat : k - g * blockSize(c) \in 0 .. ScanLen(c, g) - 1 <=>
                                 k \in Block(c, g) /\ k < c.elements
<1>0. PICK s \in Nat \ {0}, n \in Nat \ {0}, a \in Nat \ {0} :
       /\ s = blockSize(c) /\ n = c.elements /\ a = allBlocks(c)
       /\ (a - 1) * s < n /\ n <= a * s /\ a <= maxBlocks
  BY CallSizes
<1>a. s = blockSize(c) /\ n = c.elements /\ a = allBlocks(c)
  BY <1>0
<1>b. (a - 1) * s < n
  BY <1>0
<1>1. g \in Nat /\ g < a
  BY <1>a
<1>2. PICK b \in Nat : b = g * s /\ b < n
  BY <1>b, <1>1, BlockInside
<1>3. lenArg(c) = s /\ totalArg(c) = n /\ n < Uint /\ Uint \in Nat \ {0}
  BY <1>a, AcceptedCall, CallsAssumption
<1>4. (n - b) % Uint = n - b /\ n - b \in Nat
  <2>1. n - b \in Nat /\ n - b < Uint
    BY <1>2, <1>3
  <2> QED
    BY <1>3, <2>1, SmallModulus
<1>5. ScanLen(c, g) = MinOf(s, n - b)
  <2>1. c.elements \in Nat \ {0}
    BY <1>a
  <2> QED
    BY <1>a, <1>2, <1>3, <1>4, <2>1, KernelPreconditions DEF ScanLen
<1>6. /\ MinOf(s, n - b) \in Nat
      /\ \A k \in Nat : k - b \in 0 .. MinOf(s, n - b) - 1 <=> k \in b .. b + s - 1 /\ k < n
  BY <1>2, <1>4 DEF MinOf
<1>7. Block(c, g) = b .. b + s - 1
  BY <1>a, <1>2 DEF Block
<1>8. \A j : ScanIndex(c, g, j) = g * s + j
  BY <1>3 DEF ScanIndex
<1> QED
  BY <1>a, <1>2, <1>5, <1>6, <1>7, <1>8

\* A work-group of scanExclusive completes the sums of its block.
LEMMA ScanGroup ==
    ASSUME CallsFit, NEW c \in Calls, Valid(c), NEW m, BagMemory(m),
           NEW g \in 0 .. allBlocks(c) - 1, NEW b \in Nat, b = g * blockSize(c), NEW values,
           \A j \in 0 .. ScanLen(c, g) - 1 : values[j] = m[c.in][b + j],
           NEW k \in Nat, k \in Block(c, g), k < c.elements
    PROVE  Base(m, c, g) (+) SumOf(values, k - b) =
               OffsetValue(m, c) (+) SumOf(m[c.in], k)
<1>2. PICK j \in Nat : j = k - b /\ j \in 0 .. ScanLen(c, g) - 1 /\ k = b + j /\ ScanLen(c, g) \in Nat
  <2>1. k - b \in 0 .. ScanLen(c, g) - 1 /\ ScanLen(c, g) \in Nat
    BY ScanCells
  <2> QED
    BY <2>1
<1>3. c.elements \in Nat
  BY ValidElements
<1>4. \A i \in 0 .. b + j - 1 : IsABag(m[c.in][i])
  <2>1. \A i \in 0 .. b + j - 1 : i \in 0 .. c.elements - 1
    BY <1>2, <1>3
  <2> QED
    BY <2>1, ElementsAreBags
<1>5. \A i \in 0 .. j - 1 : values[i] = m[c.in][b + i]
  <2>1. \A i \in 0 .. j - 1 : i \in 0 .. ScanLen(c, g) - 1
    BY <1>2
  <2> QED
    BY <2>1
<1>6. PICK f : f = m[c.in]
  OBVIOUS
<1>7. SumOf(f, b) (+) SumOf(values, j) = SumOf(f, b + j)
  BY <1>4, <1>5, <1>6, SumSplit, ZenonT(30)
<1>8. IsABag(SumOf(f, b)) /\ IsABag(SumOf(values, j)) /\ IsABag(OffsetValue(m, c))
  <2>1. \A i \in 0 .. b - 1 : i \in 0 .. b + j - 1
    OBVIOUS
  <2>2. \A i \in 0 .. b - 1 : IsABag(f[i])
    BY <1>4, <1>6, <2>1
  <2>3. \A i \in 0 .. j - 1 : b + i \in 0 .. b + j - 1
    OBVIOUS
  <2>4. \A i \in 0 .. j - 1 : IsABag(values[i])
    BY <1>4, <1>5, <2>3
  <2> QED
    BY <2>2, <2>4, SumIsABag, ElementsAreBags
<1>9. (OffsetValue(m, c) (+) SumOf(f, b)) (+) SumOf(values, j) =
          OffsetValue(m, c) (+) (SumOf(f, b) (+) SumOf(values, j))
  BY <1>8, BagAssociative
<1> QED
  BY <1>2, <1>6, <1>7, <1>9 DEF Base

-----------------------------------------------------------------------------
\* Blocks are disjoint and every element of a call is in one of them.
LEMMA BlocksPartition ==
    ASSUME CallsFit, NEW c \in Calls, Valid(c)
    PROVE  /\ \A k \in 0 .. c.elements - 1 : \E g \in 0 .. allBlocks(c) - 1 : k \in Block(c, g)
           /\ \A g \in Nat, h \in Nat : \A k \in Nat :
                 k \in Block(c, g) /\ k \in Block(c, h) => g = h
<1>0. PICK s \in Nat \ {0}, n \in Nat \ {0}, a \in Nat \ {0} :
       /\ s = blockSize(c) /\ n = c.elements /\ a = allBlocks(c)
       /\ (a - 1) * s < n /\ n <= a * s /\ a <= maxBlocks
  BY CallSizes
<1>a. s = blockSize(c) /\ n = c.elements /\ a = allBlocks(c)
  BY <1>0
<1>b. n <= a * s
  BY <1>0
<1>1. ASSUME NEW k \in 0 .. n - 1 PROVE \E g \in 0 .. a - 1 : k \in Block(c, g)
  <2>1. PICK g \in Nat : g * s \in Nat /\ g * s <= k /\ k < g * s + s
    <3>1. k \in Nat /\ k \div s \in Nat /\ s * (k \div s) <= k /\ k < s * (k \div s) + s
      OBVIOUS
    <3> QED
      BY <3>1
  <2>2. g < a
    <3> SUFFICES ASSUME a <= g PROVE FALSE
      OBVIOUS
    <3>1. PICK d \in Nat : g = a + d
      BY g - a \in Nat
    <3>2. g * s = a * s + d * s /\ d * s \in Nat /\ a * s \in Nat
      BY <3>1
    <3> QED
      BY <1>b, <2>1, <3>2
  <2>3. g \in 0 .. a - 1
    BY <2>2
  <2>4. k \in Block(c, g)
    BY <1>a, <2>1 DEF Block
  <2> QED
    BY <2>3, <2>4
<1>2. ASSUME NEW g \in Nat, NEW h \in Nat, NEW k \in Nat, k \in Block(c, g), k \in Block(c, h)
      PROVE  ~(g < h)
  <2> SUFFICES ASSUME g < h PROVE FALSE
    OBVIOUS
  <2>1. PICK d \in Nat : h = g + 1 + d
    BY h - g - 1 \in Nat
  <2>2. h * s = g * s + s + d * s /\ d * s \in Nat /\ g * s \in Nat
    BY <2>1
  <2>3. k < g * s + s /\ h * s <= k
    BY <1>a, <1>2, <2>2 DEF Block
  <2> QED
    BY <2>2, <2>3
<1>3. \A k \in 0 .. c.elements - 1 : \E g \in 0 .. allBlocks(c) - 1 : k \in Block(c, g)
  BY <1>a, <1>1
<1>4. ASSUME NEW g \in Nat, NEW h \in Nat, NEW k \in Nat, k \in Block(c, g), k \in Block(c, h)
      PROVE  g = h
  <2>1. ~(g < h) /\ ~(h < g)
    BY <1>2, <1>4
  <2> QED
    BY <2>1
<1> QED
  BY <1>3, <1>4

LEMMA CellsAreNat ==
    ASSUME NEW b, NEW k \in CellsOf(b)
    PROVE  k \in Nat
  BY DEF CellsOf

\* The buffer a call writes and the others, while and when it is scanned.
LEMMA ScanButCells ==
    ASSUME NEW m, BagMemory(m), NEW c, c.out \in Buffers, NEW G
    PROVE  /\ DOMAIN ScanBut(m, c, G) = Buffers
           /\ \A b \in Buffers : b # c.out => ScanBut(m, c, G)[b] = m[b]
           /\ DOMAIN ScanBut(m, c, G)[c.out] = CellsOf(c.out)
           /\ \A k \in CellsOf(c.out) :
                 ScanBut(m, c, G)[c.out][k] =
                     IF k < c.elements /\ \A g \in G : k \notin Block(c, g)
                     THEN OffsetValue(m, c) (+) SumOf(m[c.in], k)
                     ELSE m[c.out][k]
<1>1. DOMAIN m = Buffers
  BY DEF BagMemory
<1> QED
  BY <1>1 DEF ScanBut

\* Two memories with the same cells are the same.
LEMMA SameMemory ==
    ASSUME NEW m, BagMemory(m), NEW c, c.out \in Buffers, NEW cells,
           \A k \in CellsOf(c.out) : cells[k] = m[c.out][k]
    PROVE  [m EXCEPT ![c.out] = [k \in CellsOf(c.out) |-> cells[k]]] = m
<1>1. /\ DOMAIN m = Buffers /\ m = [b \in Buffers |-> m[b]]
      /\ \A b \in Buffers : m[b] = [i \in CellsOf(b) |-> m[b][i]]
  BY DEF BagMemory
<1>2. [k \in CellsOf(c.out) |-> cells[k]] = m[c.out]
  BY <1>1
<1> QED
  BY <1>1, <1>2

LEMMA ScanButAll ==
    ASSUME CallsFit, NEW c \in Calls, Valid(c), NEW m, BagMemory(m)
    PROVE  ScanBut(m, c, 0 .. allBlocks(c) - 1) = m
<1>1. c.out \in Buffers /\ c.elements \in Nat
  BY ElementsAreBags, ValidElements
<1> DEFINE cells == [k \in CellsOf(c.out) |->
        IF k < c.elements /\ \A g \in 0 .. allBlocks(c) - 1 : k \notin Block(c, g)
        THEN OffsetValue(m, c) (+) SumOf(m[c.in], k)
        ELSE m[c.out][k]]
<1>2. ASSUME NEW k \in CellsOf(c.out) PROVE cells[k] = m[c.out][k]
  <2>1. k < c.elements => k \in 0 .. c.elements - 1
    BY <1>1, CellsAreNat
  <2> QED
    BY <2>1, BlocksPartition
<1>3. [k \in CellsOf(c.out) |-> cells[k]] = cells
  OBVIOUS
<1>4. ScanBut(m, c, 0 .. allBlocks(c) - 1) = [m EXCEPT ![c.out] = cells]
  BY DEF ScanBut
<1> HIDE DEF cells
<1> QED
  BY <1>1, <1>2, <1>3, <1>4, SameMemory

LEMMA ScanButIsMemory ==
    ASSUME CallsFit, NEW c \in Calls, Valid(c), NEW m, BagMemory(m), NEW G
    PROVE  BagMemory(ScanBut(m, c, G))
<1>0. c.out \in Buffers /\ c.in \in Buffers /\ IsABag(OffsetValue(m, c))
  BY ElementsAreBags
<1>1. PICK r : r = ScanBut(m, c, G)
  OBVIOUS
<1>2. /\ DOMAIN r = Buffers
      /\ \A b \in Buffers : b # c.out => r[b] = m[b]
      /\ DOMAIN r[c.out] = CellsOf(c.out)
      /\ \A k \in CellsOf(c.out) :
             r[c.out][k] = IF k < c.elements /\ \A g \in G : k \notin Block(c, g)
                           THEN OffsetValue(m, c) (+) SumOf(m[c.in], k)
                           ELSE m[c.out][k]
  BY <1>0, <1>1, ScanButCells
<1>3. ASSUME NEW k \in CellsOf(c.out), k < c.elements
      PROVE  IsABag(OffsetValue(m, c) (+) SumOf(m[c.in], k))
  <2>1. k \in Nat /\ c.elements \in Nat
    BY CellsAreNat, ValidElements
  <2>2. \A j \in 0 .. k - 1 : j \in 0 .. c.elements - 1
    BY <1>3, <2>1
  <2>3. \A j \in 0 .. k - 1 : IsABag(m[c.in][j])
    BY <2>2, ElementsAreBags
  <2>4. IsABag(SumOf(m[c.in], k))
    <3>1. PICK f : f = m[c.in]
      OBVIOUS
    <3> QED
      BY <2>1, <2>3, <3>1, SumIsABag
  <2> QED
    BY <1>0, <2>4, BagPlus
<1>4. \A b \in Buffers : \A i \in CellsOf(b) : IsABag(m[b][i])
  BY DEF BagMemory
<1>5. ASSUME NEW b \in Buffers, NEW i \in CellsOf(b) PROVE IsABag(r[b][i])
  <2>1. CASE b # c.out
    BY <1>2, <1>4, <2>1
  <2>2. CASE b = c.out
    BY <1>2, <1>3, <1>4, <2>2
  <2> QED
    BY <2>1, <2>2
<1>6. r = [b \in Buffers |-> [i \in CellsOf(b) |-> r[b][i]]]
  <2>1. r = [b \in Buffers |-> r[b]]
    BY <1>0, <1>1, <1>2 DEF ScanBut
  <2>2. ASSUME NEW b \in Buffers PROVE r[b] = [i \in CellsOf(b) |-> r[b][i]]
    <3>1. CASE b # c.out
      <4>1. m[b] = [i \in CellsOf(b) |-> m[b][i]]
        BY DEF BagMemory
      <4> QED
        BY <1>2, <3>1, <4>1
    <3>2. CASE b = c.out
      <4>1. DOMAIN m = Buffers
        BY DEF BagMemory
      <4> QED
        BY <1>0, <1>1, <3>2, <4>1 DEF ScanBut
    <3> QED
      BY <3>1, <3>2
  <2> QED
    BY <2>1, <2>2
<1> QED
  BY <1>1, <1>5, <1>6 DEF BagMemory

-----------------------------------------------------------------------------
\* The commands of a call stay together.
LEMMA AppendStructure ==
    ASSUME NEW q, IsQueue(q), StructureOf(q), NEW x,
           IF x.first THEN x.kind = FirstKind(x.args)
                      ELSE Len(q) > 0 /\ Follows(q[Len(q)], x),
           x.status = "queued", x.todo = Groups(x)
    PROVE  StructureOf(Append(q, x))
<1>1. PICK r : r = Append(q, x)
  OBVIOUS
<1>2. /\ Len(q) \in Nat /\ Len(r) = Len(q) + 1 /\ r[Len(q) + 1] = x
      /\ \A i \in 1 .. Len(q) : r[i] = q[i]
  BY <1>1, QueueAppend DEF IsQueue
<1> SUFFICES ASSUME NEW i \in 1 .. Len(r)
             PROVE  /\ IF r[i].first THEN r[i].kind = FirstKind(r[i].args)
                                     ELSE i > 1 /\ Follows(r[i - 1], r[i])
                    /\ r[i].status = "queued" => r[i].todo = Groups(r[i])
                    /\ r[i].status = "complete" => r[i].todo = {}
  BY <1>1 DEF StructureOf
<1>3. CASE i \in 1 .. Len(q)
  <2>1. r[i] = q[i] /\ (i > 1 => i - 1 \in 1 .. Len(q) /\ r[i - 1] = q[i - 1])
    BY <1>2, <1>3
  <2> QED
    BY <1>3, <2>1 DEF StructureOf
<1>4. CASE i = Len(q) + 1
  <2>1. r[i] = x /\ i - 1 = Len(q)
    BY <1>2, <1>4
  <2>2. Len(q) > 0 => i > 1 /\ r[i - 1] = q[Len(q)]
    BY <1>2, <1>4, <2>1
  <2> QED
    BY <2>1, <2>2
<1> QED
  BY <1>2, <1>3, <1>4

LEMMA UpdateStructure ==
    ASSUME NEW q, IsQueue(q), StructureOf(q), NEW k \in 1 .. Len(q), NEW x,
           NEW r, Updated(q, k, x, r),
           x.first = q[k].first, x.kind = q[k].kind, x.args = q[k].args,
           x.status # "queued", x.status = "complete" => x.todo = {}
    PROVE  StructureOf(r)
<1>1. /\ Len(q) \in Nat /\ Len(r) = Len(q) /\ r[k] = x
      /\ \A i \in 1 .. Len(q) : i # k => r[i] = q[i]
  <2>1. Len(q) \in Nat
    BY DEF IsQueue
  <2> QED
    BY <2>1, QueueExcept
<1>2. \A i \in 1 .. Len(q) : r[i].first = q[i].first /\ r[i].kind = q[i].kind /\ r[i].args = q[i].args
  BY <1>1
<1> SUFFICES ASSUME NEW i \in 1 .. Len(q)
             PROVE  /\ IF r[i].first THEN r[i].kind = FirstKind(r[i].args)
                                     ELSE i > 1 /\ Follows(r[i - 1], r[i])
                    /\ r[i].status = "queued" => r[i].todo = Groups(r[i])
                    /\ r[i].status = "complete" => r[i].todo = {}
  BY <1>1 DEF StructureOf
<1>3. IF q[i].first THEN q[i].kind = FirstKind(q[i].args)
                    ELSE i > 1 /\ Follows(q[i - 1], q[i])
  BY DEF StructureOf
<1>4. ASSUME i > 1, Follows(q[i - 1], q[i]) PROVE Follows(r[i - 1], r[i])
  <2>1. PICK j \in 1 .. Len(q) : j = i - 1
    BY <1>1, <1>4
  <2> QED
    BY <1>2, <1>4, <2>1 DEF Follows
<1>5. /\ r[i].status = "queued" => r[i].todo = Groups(r[i])
      /\ r[i].status = "complete" => r[i].todo = {}
  BY <1>1 DEF StructureOf
<1> QED
  BY <1>2, <1>3, <1>4, <1>5

LEMMA HostKeepsStructure == TypeOK /\ Structure /\ HostStep => Structure'
<1> SUFFICES ASSUME TypeOK, Structure, HostStep PROVE Structure'
  OBVIOUS
<1>0. IsQueue(cmds) /\ Len(cmds) \in Nat /\ StructureOf(cmds)
  BY TypedQueue DEF Structure
<1>1. ASSUME cmds' = cmds, hostPC' \in {hostPC, "idle"} PROVE Structure'
  BY <1>1 DEF Structure
<1>2. ASSUME NEW c \in Calls, RejectCall(c) \/ EnqueueFails(c) PROVE Structure'
  BY <1>1, <1>2 DEF RejectCall, EnqueueFails
<1>3. CASE EnqueueLaterFails \/ QueueFinish
  BY <1>1, <1>3 DEF EnqueueLaterFails, QueueFinish
<1>4. ASSUME NEW kind, NEW c, NEW w, NEW first,
             cmds' = Append(cmds, Command(kind, c, w, first)),
             IF first THEN kind = FirstKind(c)
                      ELSE Len(cmds) > 0 /\ cmds[Len(cmds)].args = c
                           /\ (\/ cmds[Len(cmds)].kind = "reduce" /\ kind = "small"
                               \/ cmds[Len(cmds)].kind = "small" /\ kind = "scan")
      PROVE  StructureOf(cmds') /\ cmds'[Len(cmds')].kind = kind
  <2>1. PICK x : x = Command(kind, c, w, first)
    OBVIOUS
  <2>2. /\ x.kind = kind /\ x.args = c /\ x.first = first /\ x.status = "queued"
        /\ x.todo = Groups(x)
    BY <2>1 DEF Command, Groups
  <2>3. IF x.first THEN x.kind = FirstKind(x.args)
                   ELSE Len(cmds) > 0 /\ Follows(cmds[Len(cmds)], x)
    BY <1>4, <2>2 DEF Follows
  <2>4. StructureOf(Append(cmds, x))
    BY <1>0, <2>2, <2>3, AppendStructure
  <2>5. Len(Append(cmds, x)) = Len(cmds) + 1 /\ Append(cmds, x)[Len(cmds) + 1] = x
    BY <1>0, QueueAppend
  <2> QED
    BY <1>4, <2>1, <2>2, <2>4, <2>5
<1>5. ASSUME NEW c \in Calls, EnqueueFirst(c) PROVE Structure'
  <2>1. CASE allBlocks(c) > 1
    <3>1. cmds' = Append(cmds, Command("reduce", c, Waits, TRUE)) /\ hostPC' = "small"
      BY <1>5, <2>1 DEF EnqueueFirst
    <3>2. StructureOf(cmds') /\ cmds'[Len(cmds')].kind = "reduce"
      BY <1>4, <2>1, <3>1 DEF FirstKind
    <3> QED
      BY <3>1, <3>2 DEF Structure
  <2>2. CASE ~(allBlocks(c) > 1)
    <3>1. cmds' = Append(cmds, Command("small", c, Waits, TRUE)) /\ hostPC' = "scan"
      BY <1>5, <2>2 DEF EnqueueFirst
    <3>2. StructureOf(cmds') /\ cmds'[Len(cmds')].kind = "small"
      BY <1>4, <2>2, <3>1 DEF FirstKind
    <3> QED
      BY <3>1, <3>2 DEF Structure
  <2> QED
    BY <2>1, <2>2
<1>6. CASE EnqueueSmall
  <2>1. /\ cmds' = Append(cmds, Command("small", cmds[Len(cmds)].args, SmallWaits, FALSE))
        /\ hostPC = "small" /\ hostPC' = "scan"
    BY <1>6 DEF EnqueueSmall
  <2>2. Len(cmds) > 0 /\ cmds[Len(cmds)].kind = "reduce"
    BY <2>1 DEF Structure, TypeOK, HostOK
  <2>3. StructureOf(cmds') /\ cmds'[Len(cmds')].kind = "small"
    BY <1>4, <2>1, <2>2
  <2> QED
    BY <2>1, <2>3 DEF Structure
<1>7. CASE EnqueueScan
  <2>1. /\ cmds' = Append(cmds, Command("scan", cmds[Len(cmds)].args, {Len(cmds)}, FALSE))
        /\ hostPC = "scan" /\ hostPC' = "idle"
    BY <1>7 DEF EnqueueScan
  <2>2. Len(cmds) > 0 /\ cmds[Len(cmds)].kind = "small"
    BY <2>1 DEF Structure, TypeOK, HostOK
  <2>3. StructureOf(cmds')
    BY <1>4, <2>1, <2>2
  <2> QED
    BY <2>1, <2>3 DEF Structure
<1> QED
  BY <1>2, <1>3, <1>5, <1>6, <1>7 DEF HostStep

\* The host changes nothing that the device has begun.
LEMMA HostKeepsResult == TypeOK /\ ResultInv /\ HostStep => ResultInv'
<1> SUFFICES ASSUME TypeOK, ResultInv, HostStep PROVE ResultInv'
  OBVIOUS
<1>0. IsQueue(cmds) /\ Len(cmds) \in Nat
  BY TypedQueue
<1>1. UNCHANGED <<mem, sums, before>>
  BY DEF HostStep, RejectCall, EnqueueFails, EnqueueFirst, EnqueueSmall, EnqueueScan,
         EnqueueLaterFails, QueueFinish, deviceVars
<1>2. \/ cmds' = cmds
      \/ \E x : cmds' = Append(cmds, x) /\ x.status = "queued"
  <2>1. \A kind, c, w, first : Command(kind, c, w, first).status = "queued"
    BY DEF Command
  <2>2. \A c \in Calls : RejectCall(c) \/ EnqueueFails(c) => cmds' = cmds
    BY DEF RejectCall, EnqueueFails
  <2>3. EnqueueLaterFails \/ QueueFinish => cmds' = cmds
    BY DEF EnqueueLaterFails, QueueFinish
  <2>4. \A c \in Calls : EnqueueFirst(c) => \E x : cmds' = Append(cmds, x) /\ x.status = "queued"
    BY <2>1 DEF EnqueueFirst
  <2>5. EnqueueSmall => \E x : cmds' = Append(cmds, x) /\ x.status = "queued"
    <3> SUFFICES ASSUME EnqueueSmall PROVE \E x : cmds' = Append(cmds, x) /\ x.status = "queued"
      OBVIOUS
    <3>1. cmds' = Append(cmds, Command("small", cmds[Len(cmds)].args, SmallWaits, FALSE))
      BY DEF EnqueueSmall
    <3> QED
      BY <2>1, <3>1
  <2>6. EnqueueScan => \E x : cmds' = Append(cmds, x) /\ x.status = "queued"
    <3> SUFFICES ASSUME EnqueueScan PROVE \E x : cmds' = Append(cmds, x) /\ x.status = "queued"
      OBVIOUS
    <3>1. cmds' = Append(cmds, Command("scan", cmds[Len(cmds)].args, {Len(cmds)}, FALSE))
      BY DEF EnqueueScan
    <3> QED
      BY <2>1, <3>1
  <2> QED
    BY <2>2, <2>3, <2>4, <2>5, <2>6 DEF HostStep
<1>3. CASE cmds' = cmds
  BY <1>1, <1>3 DEF ResultInv
<1>4. ASSUME NEW x, cmds' = Append(cmds, x), x.status = "queued" PROVE ResultInv'
  <2>1. /\ Len(cmds') = Len(cmds) + 1 /\ cmds'[Len(cmds) + 1] = x
        /\ \A i \in 1 .. Len(cmds) : cmds'[i] = cmds[i]
    BY <1>0, <1>4, QueueAppend
  <2>2. ASSUME NEW i \in 1 .. Len(cmds'), Newest(cmds', i)
        PROVE  Progress(cmds'[i], mem', before', sums')
    <3>1. i \in 1 .. Len(cmds)
      BY <1>0, <1>4, <2>1, <2>2 DEF Newest
    <3>2. \A j \in i + 1 .. Len(cmds) : j \in i + 1 .. Len(cmds') /\ j \in 1 .. Len(cmds)
      BY <1>0, <2>1, <3>1
    <3>3. Newest(cmds, i)
      BY <2>1, <2>2, <3>1, <3>2 DEF Newest
    <3> QED
      BY <1>1, <2>1, <3>1, <3>3 DEF ResultInv
  <2> QED
    BY <1>1, <2>2 DEF ResultInv
<1> QED
  BY <1>2, <1>3, <1>4

-----------------------------------------------------------------------------
\* Only the command at which the device works is the newest.
LEMMA OnlyNewest ==
    ASSUME TypeOK, OrderInv, NEW k \in 1 .. Len(cmds), cmds[k].status # "complete",
           Ready(k) \/ cmds[k].status = "running",
           NEW x, Updated(cmds, k, x, cmds'), x.status # "queued"
    PROVE  /\ Len(cmds') = Len(cmds) /\ cmds'[k] = x
           /\ \A i \in 1 .. Len(cmds') : Newest(cmds', i) => i = k
           /\ cmds[k].status = "running" => Newest(cmds, k)
           /\ k > 1 /\ cmds[k].status = "queued" =>
                 k - 1 \in 1 .. Len(cmds) /\ Newest(cmds, k - 1) /\ cmds[k - 1].status = "complete"
<1>0. IsQueue(cmds) /\ Len(cmds) \in Nat
  BY TypedQueue
<1>1. /\ Len(cmds') = Len(cmds) /\ cmds'[k] = x
      /\ \A i \in 1 .. Len(cmds) : i # k => cmds'[i] = cmds[i]
  BY <1>0, QueueExcept
<1>2. \A i \in 1 .. k - 1 : cmds[i].status = "complete"
  BY StartedAfterAll DEF IsDone
<1>3. \A j \in k + 1 .. Len(cmds) : cmds[j].status = "queued"
  <2> SUFFICES ASSUME NEW j \in k + 1 .. Len(cmds), cmds[j].status # "queued" PROVE FALSE
    OBVIOUS
  <2>1. j \in 1 .. Len(cmds) /\ k \in 1 .. j - 1
    BY <1>0
  <2>2. IsDone(cmds, k)
    BY <2>1 DEF OrderInv, Serial
  <2> QED
    BY <2>2 DEF IsDone
<1>4. ASSUME NEW i \in 1 .. Len(cmds), Newest(cmds', i) PROVE i = k
  <2>1. ~(i < k)
    <3> SUFFICES ASSUME i < k PROVE FALSE
      OBVIOUS
    <3>1. k \in i + 1 .. Len(cmds')
      BY <1>0, <1>1
    <3> QED
      BY <1>1, <1>4, <3>1 DEF Newest
  <2>2. ~(k < i)
    <3> SUFFICES ASSUME k < i PROVE FALSE
      OBVIOUS
    <3>1. i \in k + 1 .. Len(cmds) /\ cmds'[i] = cmds[i]
      BY <1>0, <1>1
    <3> QED
      BY <1>3, <1>4, <3>1 DEF Newest
  <2> QED
    BY <1>0, <2>1, <2>2
<1>5. cmds[k].status = "running" => Newest(cmds, k)
  BY <1>3 DEF Newest
<1>6. ASSUME k > 1, cmds[k].status = "queued"
      PROVE  k - 1 \in 1 .. Len(cmds) /\ Newest(cmds, k - 1) /\ cmds[k - 1].status = "complete"
  <2>1. PICK i \in 1 .. k - 1 : i = k - 1 /\ i \in 1 .. Len(cmds)
    BY <1>0, <1>6
  <2>2. cmds[i].status = "complete"
    BY <1>2, <2>1
  <2>3. \A j \in i + 1 .. Len(cmds) : j = k \/ j \in k + 1 .. Len(cmds)
    BY <1>0, <2>1
  <2>4. Newest(cmds, i)
    BY <1>3, <1>6, <2>2, <2>3 DEF Newest
  <2> QED
    BY <2>1, <2>2, <2>4
<1> QED
  BY <1>1, <1>4, <1>5, <1>6

\* The first kernel of a call starts from the buffers as it finds them, a
\* later one from what the kernel before it has left.
LEMMA StartProgress ==
    ASSUME CallsFit, NEW x, x.args \in Calls, Valid(x.args), x.todo = Groups(x),
           NEW m, NEW b, NEW t, BagMemory(m), BagMemory(b),
           IF x.first THEN x.kind = FirstKind(x.args) /\ m = b
                      ELSE \E y : Follows(y, x) /\ y.todo = {} /\ Progress(y, m, b, t)
    PROVE  Progress(x, m, b, t)
<1>1. PICK c \in Calls : c = x.args /\ Valid(c)
  OBVIOUS
<1>2. allBlocks(c) \in Nat \ {0}
  BY <1>1, CallSizes
<1>3. CASE x.first
  <2>1. CASE allBlocks(c) > 1
    <3>1. x.kind = "reduce" /\ (0 .. allBlocks(c) - 2) \ x.todo = {}
      <4>1. x.kind = "reduce"
        BY <1>1, <1>3, <2>1 DEF FirstKind
      <4>2. x.todo = 0 .. allBlocks(c) - 1 - 1
        BY <1>1, <4>1 DEF Groups, GroupCount
      <4> QED
        BY <1>2, <4>1, <4>2
    <3> QED
      BY <1>1, <1>3, <3>1 DEF Progress, BlockSums
  <2>2. CASE ~(allBlocks(c) > 1)
    <3>1. x.kind = "small" /\ 0 .. allBlocks(c) - 2 = {}
      BY <1>1, <1>2, <1>3, <2>2 DEF FirstKind
    <3>2. 0 \in x.todo
      BY <3>1 DEF Groups, GroupCount
    <3> QED
      BY <1>1, <1>3, <3>1, <3>2 DEF Progress, BlockSums
  <2> QED
    BY <2>1, <2>2
<1>4. ASSUME NEW y, Follows(y, x), y.todo = {}, Progress(y, m, b, t)
      PROVE  Progress(x, m, b, t)
  <2>0. y.args = c
    BY <1>1, <1>4 DEF Follows
  <2>1. CASE y.kind = "reduce" /\ x.kind = "small"
    <3>1. 0 \in x.todo
      BY <2>1 DEF Groups, GroupCount
    <3>2. m = b /\ BlockSums(t, b, c, (0 .. allBlocks(c) - 2) \ {})
      BY <1>4, <2>0, <2>1 DEF Progress
    <3>3. BlockSums(t, b, c, 0 .. allBlocks(c) - 2)
      BY <3>2 DEF BlockSums
    <3> QED
      BY <1>1, <2>1, <3>1, <3>2, <3>3 DEF Progress
  <2>2. CASE y.kind = "small" /\ x.kind = "scan"
    <3>1. m = b /\ Bases(t, b, c)
      BY <1>4, <2>0, <2>2 DEF Progress
    <3>2. x.todo = 0 .. allBlocks(c) - 1
      BY <1>1, <2>2 DEF Groups, GroupCount
    <3>3. ScanBut(b, c, x.todo) = b
      BY <1>1, <3>2, ScanButAll
    <3> QED
      BY <1>1, <2>2, <3>1, <3>3 DEF Progress
  <2> QED
    BY <1>4, <2>1, <2>2 DEF Follows
<1> QED
  BY <1>3, <1>4

\* One work-group of each kernel.
LEMMA ReduceProgress ==
    ASSUME CallsFit, TypeOK, NEW x, NEW c \in Calls, Valid(c), x.args = c, x.kind = "reduce",
           NEW g \in x.todo, g \in 0 .. allBlocks(c) - 2,
           NEW y, y.args = c, y.kind = "reduce", y.todo = x.todo \ {g},
           NEW m, NEW b, Progress(x, m, b, sums),
           NEW values, values = ReduceValues(m, c, g),
           NEW t, t[g] = SumOf(values, ReduceLen(c)), \A h \in DOMAIN sums : h # g => t[h] = sums[h]
    PROVE  Progress(y, m, b, t)
<1>1. m = b /\ BlockSums(sums, b, c, (0 .. allBlocks(c) - 2) \ x.todo)
  BY DEF Progress
<1>2. SumOf(values, ReduceLen(c)) = BlockSum(b, c, g)
  BY <1>1, ReduceGroup
<1>3. \A h \in 0 .. allBlocks(c) - 2 : h \in DOMAIN sums
  <2>1. PICK a \in Nat : a = allBlocks(c) /\ a <= maxBlocks
    BY CallSizes
  <2>2. DOMAIN sums = 0 .. maxBlocks - 1 /\ maxBlocks \in Nat
    BY ParametersAssumption DEF TypeOK, MemoryOK
  <2> QED
    BY <2>1, <2>2
<1>4. ASSUME NEW h \in (0 .. allBlocks(c) - 2) \ y.todo PROVE t[h] = BlockSum(b, c, h)
  <2>1. CASE h = g
    BY <1>2, <2>1
  <2>2. CASE h # g
    <3>1. h \in (0 .. allBlocks(c) - 2) \ x.todo
      BY <2>2
    <3>2. sums[h] = BlockSum(b, c, h)
      BY <1>1, <3>1 DEF BlockSums
    <3> QED
      BY <1>3, <2>2, <3>2
  <2> QED
    BY <2>1, <2>2
<1> QED
  BY <1>1, <1>4 DEF Progress, BlockSums

LEMMA SmallProgress ==
    ASSUME CallsFit, NEW x, NEW c \in Calls, Valid(c), x.args = c, x.kind = "small",
           0 \in x.todo, NEW y, y.args = c, y.kind = "small", y.todo = x.todo \ {0},
           NEW m, NEW b, BagMemory(b), NEW s, Progress(x, m, b, s),
           NEW t, t = [g \in 0 .. maxBlocks - 1 |-> OffsetValue(m, c) (+) SumOf(s, g)]
    PROVE  Progress(y, m, b, t)
<1>1. m = b /\ BlockSums(s, b, c, 0 .. allBlocks(c) - 2)
  BY DEF Progress
<1>2. \A g \in 0 .. allBlocks(c) - 1 : g \in 0 .. maxBlocks - 1
  <2>1. PICK a \in Nat : a = allBlocks(c) /\ a <= maxBlocks
    BY CallSizes
  <2> QED
    BY <2>1, ParametersAssumption
<1>3. \A g \in 0 .. allBlocks(c) - 1 : OffsetValue(b, c) (+) SumOf(s, g) = Base(b, c, g)
  BY <1>1, SmallGroup
<1>4. Bases(t, b, c)
  BY <1>1, <1>2, <1>3 DEF Bases
<1> QED
  BY <1>1, <1>4 DEF Progress

LEMMA ScanProgress ==
    ASSUME CallsFit, NEW x, NEW c \in Calls, Valid(c), x.args = c, x.kind = "scan",
           NEW g \in x.todo, x.todo \subseteq 0 .. allBlocks(c) - 1,
           NEW y, y.args = c, y.kind = "scan", y.todo = x.todo \ {g},
           NEW m, NEW b, BagMemory(b), NEW s, Progress(x, m, b, s),
           NEW r, r = Scanned(m, c, g, s[g])
    PROVE  Progress(y, r, b, s)
<1>1. m = ScanBut(b, c, x.todo) /\ Bases(s, b, c)
  BY DEF Progress
<1>v. PICK values : values = ScanValues(m, c, g)
  OBVIOUS
<1>2. g \in 0 .. allBlocks(c) - 1 /\ g \in Nat /\ s[g] = Base(b, c, g)
  BY <1>1 DEF Bases
<1>3. PICK a \in Nat : a = g * blockSize(c) /\ \A j : ScanIndex(c, g, j) = a + j
  BY <1>2, ScanCells
<1>4. /\ ScanLen(c, g) \in Nat
      /\ \A k \in Nat : k - a \in 0 .. ScanLen(c, g) - 1 <=> k \in Block(c, g) /\ k < c.elements
  BY <1>2, <1>3, ScanCells
<1>5. /\ c.in \in Buffers /\ c.out \in Buffers /\ c.elements \in Nat
      /\ \A k \in 0 .. c.elements - 1 : k \in CellsOf(c.in)
  BY ElementsAreBags, ValidElements
<1>6. /\ DOMAIN m = Buffers
      /\ \A d \in Buffers : d # c.out => m[d] = b[d]
      /\ \A k \in CellsOf(c.out) :
             m[c.out][k] = IF k < c.elements /\ \A h \in x.todo : k \notin Block(c, h)
                           THEN OffsetValue(b, c) (+) SumOf(b[c.in], k)
                           ELSE b[c.out][k]
  BY <1>1, <1>5, ScanButCells
<1>7. ASSUME NEW j \in 0 .. ScanLen(c, g) - 1 PROVE values[j] = b[c.in][a + j]
  <2>1. PICK k \in Nat : k = a + j /\ k - a = j
    BY <1>4
  <2>2. k \in Block(c, g) /\ k < c.elements
    BY <1>4, <2>1
  <2>3. k \in CellsOf(c.in)
    BY <1>5, <2>2
  <2>4. values[j] = m[c.in][k]
    BY <1>3, <1>v, <2>1, <2>3 DEF Cell, ScanValues
  <2>5. m[c.in][k] = b[c.in][k]
    BY <1>5, <1>6, <2>2, <2>3
  <2> QED
    BY <2>1, <2>4, <2>5
<1> DEFINE Done(k) == k < c.elements /\ \A h \in y.todo : k \notin Block(c, h)
           Cells == [k \in CellsOf(c.out) |->
                        IF k < c.elements /\ \A h \in y.todo : k \notin Block(c, h)
                        THEN OffsetValue(b, c) (+) SumOf(b[c.in], k)
                        ELSE b[c.out][k]]
           New == [k \in CellsOf(c.out) |->
                      LET j == k - ScanIndex(c, g, 0)
                      IN  IF j \in 0 .. ScanLen(c, g) - 1
                          THEN s[g] (+) SumOf(values, j)
                          ELSE m[c.out][k]]
<1>8. ASSUME NEW k \in CellsOf(c.out) PROVE New[k] = Cells[k]
  <2>1. k \in Nat /\ ScanIndex(c, g, 0) = a
    BY <1>3, CellsAreNat
  <2>2. CASE k \in Block(c, g) /\ k < c.elements
    <3>1. k - a \in 0 .. ScanLen(c, g) - 1
      BY <1>4, <2>1, <2>2
    <3>2. New[k] = s[g] (+) SumOf(values, k - a)
      BY <2>1, <3>1
    <3>3. Base(b, c, g) (+) SumOf(values, k - a) = OffsetValue(b, c) (+) SumOf(b[c.in], k)
      <4>1. \A j \in 0 .. ScanLen(c, g) - 1 : values[j] = b[c.in][a + j]
        BY <1>7
      <4> HIDE DEF Cells, New, Done
      <4> QED
        BY <1>2, <1>3, <2>1, <2>2, <4>1, ScanGroup
    <3>4. \A h \in y.todo : k \notin Block(c, h)
      <4> SUFFICES ASSUME NEW h \in y.todo, k \in Block(c, h) PROVE FALSE
        OBVIOUS
      <4>1. h # g /\ h \in Nat
        OBVIOUS
      <4> HIDE DEF Cells, New, Done
      <4> QED
        BY <1>2, <2>1, <2>2, <4>1, BlocksPartition
    <3>5. Cells[k] = OffsetValue(b, c) (+) SumOf(b[c.in], k)
      BY <2>2, <3>4
    <3> QED
      BY <1>2, <3>2, <3>3, <3>5
  <2>3. CASE ~(k \in Block(c, g) /\ k < c.elements)
    <3>1. ~(k - a \in 0 .. ScanLen(c, g) - 1)
      BY <1>4, <2>1, <2>3
    <3>2. New[k] = m[c.out][k]
      BY <2>1, <3>1
    <3>3. Done(k) <=> (k < c.elements /\ \A h \in x.todo : k \notin Block(c, h))
      BY <2>3
    <3> QED
      BY <1>6, <3>2, <3>3
  <2> QED
    BY <2>2, <2>3
<1>9. New = Cells
  BY <1>8
<1>10. r = [m EXCEPT ![c.out] = Cells]
  BY <1>v, <1>9 DEF Scanned
<1>11. m = [b EXCEPT ![c.out] = m[c.out]] /\ DOMAIN b = Buffers
  <2>1. DOMAIN b = Buffers
    BY DEF BagMemory
  <2> QED
    BY <1>1, <1>5, <2>1 DEF ScanBut
<1> HIDE DEF New, Cells
<1>12. r = [b EXCEPT ![c.out] = Cells]
  BY <1>5, <1>10, <1>11
<1>13. r = ScanBut(b, c, y.todo)
  BY <1>12 DEF ScanBut, Cells
<1> QED
  BY <1>1, <1>13 DEF Progress

\* What the device does next to command k, and the command it makes of it.
LEMMA DeviceKeepsResult ==
    ASSUME CallsFit, TypeOK, OrderInv, Structure, ResultInv, Work
    PROVE  Structure' /\ ResultInv'
<1> PICK k \in 1 .. Len(cmds) :
                    \/ Start(k)
                    \/ \E g \in cmds[k].todo : RunReduce(k, g) \/ RunScan(k, g)
                    \/ RunSmall(k)
                    \/ Complete(k)
  BY DEF Work
<1>0. /\ IsQueue(cmds) /\ Len(cmds) \in Nat /\ cmds[k] \in CommandType
      /\ StructureOf(cmds)
      /\ cmds[k].todo \subseteq Groups(cmds[k])
  BY TypedQueue DEF Structure, TypeOK, CommandsOK, Groups
<1>1. PICK c \in Calls : c = cmds[k].args /\ Valid(c)
  BY <1>0 DEF CommandType
<1>2. BagMemory(mem) /\ BagMemory(before)
  BY DEF ResultInv
\* One command changes, and becomes or stays the newest.
<1>3. ASSUME NEW x, Updated(cmds, k, x, cmds'), hostPC' = hostPC,
             Ready(k) \/ cmds[k].status = "running", cmds[k].status # "complete",
             x.first = cmds[k].first, x.kind = cmds[k].kind, x.args = cmds[k].args,
             x.status # "queued", x.status = "complete" => x.todo = {},
             BagMemory(mem'), BagMemory(before'),
             Progress(x, mem', before', sums')
      PROVE  Structure' /\ ResultInv'
  <2>1. StructureOf(cmds')
    BY <1>0, <1>3, UpdateStructure
  <2>2. /\ Len(cmds') = Len(cmds) /\ cmds'[k] = x
        /\ \A i \in 1 .. Len(cmds') : Newest(cmds', i) => i = k
    BY <1>3, OnlyNewest
  <2>3. \A i \in 1 .. Len(cmds) : cmds'[i].kind = cmds[i].kind
    BY <1>0, <1>3, <2>2, QueueExcept
  <2>4. hostPC # "idle" => Len(cmds) \in 1 .. Len(cmds)
    BY <1>0 DEF TypeOK, HostOK
  <2>5. Structure'
    BY <1>3, <2>1, <2>2, <2>3, <2>4 DEF Structure
  <2>6. ResultInv'
    BY <1>3, <2>2 DEF ResultInv
  <2> QED
    BY <2>5, <2>6
<1>4. CASE Start(k)
  <2>1. PICK x : x = [cmds[k] EXCEPT !.status = "running"]
    OBVIOUS
  <2>2. /\ Ready(k) /\ Updated(cmds, k, x, cmds') /\ mem' = mem /\ sums' = sums
        /\ before' = (IF cmds[k].first THEN mem ELSE before) /\ hostPC' = hostPC
    BY <1>4, <2>1 DEF Start, Updated, hostVars
  <2>3. /\ x.first = cmds[k].first /\ x.kind = cmds[k].kind /\ x.args = cmds[k].args
        /\ x.todo = cmds[k].todo /\ x.status = "running" /\ cmds[k].status = "queued"
    BY <1>0, <2>1, <2>2 DEF CommandType, Ready
  <2>4. x.todo = Groups(x)
    BY <1>0, <2>3 DEF StructureOf, Groups
  <2>5. BagMemory(mem') /\ BagMemory(before')
    BY <1>2, <2>2
  <2>6. CASE x.first
    <3>1. x.kind = FirstKind(x.args) /\ mem' = before'
      BY <1>0, <2>2, <2>3, <2>6 DEF StructureOf
    <3>2. Progress(x, mem', before', sums')
      BY <1>1, <2>3, <2>4, <2>5, <2>6, <3>1, StartProgress
    <3> QED
      BY <1>3, <2>2, <2>3, <2>5, <3>2
  <2>7. CASE ~x.first
    <3>1. k > 1 /\ Follows(cmds[k - 1], x)
      <4>1. k > 1 /\ Follows(cmds[k - 1], cmds[k])
        BY <1>0, <2>3, <2>7 DEF StructureOf
      <4> QED
        BY <2>3, <4>1 DEF Follows
    <3>2. k - 1 \in 1 .. Len(cmds) /\ Newest(cmds, k - 1) /\ cmds[k - 1].status = "complete"
      BY <2>2, <2>3, <3>1, OnlyNewest
    <3>3. Progress(cmds[k - 1], mem, before, sums) /\ cmds[k - 1].todo = {}
      BY <1>0, <3>2 DEF ResultInv, StructureOf
    <3>4. mem' = mem /\ before' = before /\ sums' = sums
      BY <2>2, <2>3, <2>7
    <3>5. Progress(x, mem', before', sums')
      BY <1>1, <2>3, <2>4, <2>5, <2>7, <3>1, <3>3, <3>4, StartProgress
    <3> QED
      BY <1>3, <2>2, <2>3, <2>5, <3>5
  <2> QED
    BY <2>6, <2>7
<1>5. CASE Complete(k)
  <2>1. PICK x : x = [cmds[k] EXCEPT !.status = "complete"]
    OBVIOUS
  <2>2. /\ Updated(cmds, k, x, cmds') /\ UNCHANGED <<mem, sums, before, hostPC>>
        /\ cmds[k].status = "running" /\ cmds[k].todo = {}
    BY <1>5, <2>1 DEF Complete, Updated, hostVars, deviceVars
  <2>3. /\ x.first = cmds[k].first /\ x.kind = cmds[k].kind /\ x.args = cmds[k].args
        /\ x.todo = cmds[k].todo /\ x.status = "complete"
    BY <1>0, <2>1 DEF CommandType
  <2>4. Newest(cmds, k)
    BY <2>2, <2>3, OnlyNewest
  <2>5. Progress(cmds[k], mem, before, sums)
    BY <2>4 DEF ResultInv
  <2>6. Progress(x, mem', before', sums')
    BY <2>2, <2>3, <2>5 DEF Progress
  <2> QED
    BY <1>2, <1>3, <2>2, <2>3, <2>6
<1>6. ASSUME NEW g, NEW kind, RunGroup(k, g, kind)
      PROVE  \E x : /\ Updated(cmds, k, x, cmds') /\ hostPC' = hostPC /\ before' = before
                    /\ cmds[k].status = "running" /\ cmds[k].kind = kind /\ g \in cmds[k].todo
                    /\ x.first = cmds[k].first /\ x.kind = kind /\ x.args = c
                    /\ x.todo = cmds[k].todo \ {g} /\ x.status = "running"
                    /\ Newest(cmds, k)
  <2>1. PICK x : x = [cmds[k] EXCEPT !.todo = @ \ {g}]
    OBVIOUS
  <2>2. /\ Updated(cmds, k, x, cmds') /\ hostPC' = hostPC /\ before' = before
        /\ cmds[k].status = "running" /\ cmds[k].kind = kind /\ g \in cmds[k].todo
    BY <1>6, <2>1 DEF RunGroup, Updated, hostVars
  <2>3. /\ x.first = cmds[k].first /\ x.kind = kind /\ x.args = c
        /\ x.todo = cmds[k].todo \ {g} /\ x.status = "running"
    BY <1>0, <1>1, <2>1, <2>2 DEF CommandType
  <2>4. Newest(cmds, k)
    BY <2>2, <2>3, OnlyNewest
  <2> QED
    BY <2>2, <2>3, <2>4
<1>7. ASSUME NEW g \in cmds[k].todo, RunReduce(k, g) PROVE Structure' /\ ResultInv'
  <2>1. PICK x : /\ Updated(cmds, k, x, cmds') /\ hostPC' = hostPC /\ before' = before
                 /\ cmds[k].status = "running" /\ cmds[k].kind = "reduce" /\ g \in cmds[k].todo
                 /\ x.first = cmds[k].first /\ x.kind = "reduce" /\ x.args = c
                 /\ x.todo = cmds[k].todo \ {g} /\ x.status = "running"
                 /\ Newest(cmds, k)
    BY <1>6, <1>7 DEF RunReduce
  <2>2. Progress(cmds[k], mem, before, sums)
    BY <2>1 DEF ResultInv
  <2>3. PICK values : values = ReduceValues(mem, c, g)
    OBVIOUS
  <2>4. sums' = [sums EXCEPT ![g] = SumOf(values, ReduceLen(c))] /\ mem' = mem
    BY <1>1, <1>7, <2>3 DEF RunReduce, ReduceValues
  <2>5. g \in 0 .. allBlocks(c) - 2
    <3>1. allBlocks(c) \in Nat
      BY <1>1, CallSizes
    <3> QED
      BY <1>0, <1>1, <2>1, <3>1 DEF Groups, GroupCount
  <2>6. Progress(x, mem', before', sums')
    <3>1. PICK y, t : y = cmds[k] /\ t = sums'
      OBVIOUS
    <3>2. /\ y.args = c /\ y.kind = "reduce" /\ g \in y.todo
          /\ x.args = c /\ x.kind = "reduce" /\ x.todo = y.todo \ {g}
          /\ Progress(y, mem, before, sums)
      BY <1>1, <2>1, <2>2, <3>1
    <3>3. t[g] = SumOf(values, ReduceLen(c)) /\ \A h \in DOMAIN sums : h # g => t[h] = sums[h]
      <4>1. PICK a \in Nat : a = allBlocks(c) /\ a <= maxBlocks
        BY <1>1, CallSizes
      <4>2. DOMAIN sums = 0 .. maxBlocks - 1 /\ maxBlocks \in Nat
        BY ParametersAssumption DEF TypeOK, MemoryOK
      <4>3. g \in DOMAIN sums
        BY <2>5, <4>1, <4>2
      <4> QED
        BY <2>4, <3>1, <4>3
    <3>4. Progress(x, mem, before, t)
      BY <1>1, <2>3, <2>5, <3>2, <3>3, ReduceProgress
    <3> QED
      BY <2>1, <2>4, <3>1, <3>4
  <2>7. BagMemory(mem') /\ BagMemory(before')
    BY <1>2, <2>1, <2>4
  <2> QED
    BY <1>1, <1>3, <2>1, <2>6, <2>7
<1>8. CASE RunSmall(k)
  <2>1. PICK x : /\ Updated(cmds, k, x, cmds') /\ hostPC' = hostPC /\ before' = before
                 /\ cmds[k].status = "running" /\ cmds[k].kind = "small" /\ 0 \in cmds[k].todo
                 /\ x.first = cmds[k].first /\ x.kind = "small" /\ x.args = c
                 /\ x.todo = cmds[k].todo \ {0} /\ x.status = "running"
                 /\ Newest(cmds, k)
    BY <1>6, <1>8 DEF RunSmall
  <2>2. Progress(cmds[k], mem, before, sums)
    BY <2>1 DEF ResultInv
  <2>3. /\ sums' = [g \in 0 .. maxBlocks - 1 |-> OffsetValue(mem, c) (+) SumOf(sums, g)]
        /\ mem' = mem
    BY <1>1, <1>8 DEF RunSmall
  <2>4. Progress(x, mem', before', sums')
    BY <1>1, <1>2, <2>1, <2>2, <2>3, SmallProgress
  <2>5. BagMemory(mem') /\ BagMemory(before')
    BY <1>2, <2>1, <2>3
  <2> QED
    BY <1>1, <1>3, <2>1, <2>4, <2>5
<1>9. ASSUME NEW g \in cmds[k].todo, RunScan(k, g) PROVE Structure' /\ ResultInv'
  <2>1. PICK x : /\ Updated(cmds, k, x, cmds') /\ hostPC' = hostPC /\ before' = before
                 /\ cmds[k].status = "running" /\ cmds[k].kind = "scan" /\ g \in cmds[k].todo
                 /\ x.first = cmds[k].first /\ x.kind = "scan" /\ x.args = c
                 /\ x.todo = cmds[k].todo \ {g} /\ x.status = "running"
                 /\ Newest(cmds, k)
    BY <1>6, <1>9 DEF RunScan
  <2>2. Progress(cmds[k], mem, before, sums)
    BY <2>1 DEF ResultInv
  <2>4. mem' = Scanned(mem, c, g, sums[g]) /\ sums' = sums
    BY <1>1, <1>9 DEF RunScan, Scanned, ScanValues
  <2>5. cmds[k].todo \subseteq 0 .. allBlocks(c) - 1
    BY <1>0, <1>1, <2>1 DEF Groups, GroupCount
  <2>6. Progress(x, mem', before', sums')
    BY <1>1, <1>2, <2>1, <2>2, <2>4, <2>5, ScanProgress
  <2>7. mem' = ScanBut(before', c, x.todo)
    BY <2>1, <2>6 DEF Progress
  <2>8. BagMemory(mem') /\ BagMemory(before')
    BY <1>1, <1>2, <2>1, <2>7, ScanButIsMemory
  <2> QED
    BY <1>1, <1>3, <2>1, <2>6, <2>8
<1> QED
  BY <1>4, <1>5, <1>7, <1>8, <1>9

(* The post-condition of a call, for every call that the integer types can *)
(* represent and whatever calls share the object, the queue and the        *)
(* buffers: the scan of its elements, and no other change.                 *)
THEOREM ScanCallResult ==
    ASSUME CallsFit
    PROVE  SafeSpec => []ScanResult
<1>1. Init => Structure /\ ResultInv
  <2> SUFFICES ASSUME Init PROVE Structure /\ ResultInv
    OBVIOUS
  <2>1. Len(cmds) = 0 /\ hostPC = "idle" /\ before = mem
    BY DEF Init
  <2>2. BagMemory(mem)
    BY BagOfSet DEF Init, BagMemory
  <2> QED
    BY <2>1, <2>2 DEF Structure, StructureOf, ResultInv
<1>2. TypeOK /\ OrderInv /\ Structure /\ ResultInv /\ [Next]_vars => Structure' /\ ResultInv'
  <2>1. ASSUME Structure, ResultInv, UNCHANGED vars PROVE Structure' /\ ResultInv'
    BY <2>1 DEF Structure, ResultInv, vars, hostVars, deviceVars
  <2> QED
    BY <2>1, HostKeepsStructure, HostKeepsResult, DeviceKeepsResult DEF Next
<1>3. TypeOK /\ Structure /\ ResultInv => ScanResult
  <2> SUFFICES ASSUME TypeOK, ResultInv, NEW i \in 1 .. Len(cmds), NEW c, c = cmds[i].args,
                      cmds[i].kind = "scan", IsComplete(i),
                      \A j \in i + 1 .. Len(cmds) : cmds[j].status = "queued",
                      Structure
               PROVE  mem = ScanOf(before, c)
    BY DEF ScanResult
  <2>1. Newest(cmds, i) /\ cmds[i].todo = {}
    BY DEF Newest, IsComplete, Structure, StructureOf
  <2>2. mem = ScanBut(before, c, {})
    BY <2>1 DEF ResultInv, Progress
  <2> QED
    BY <2>2 DEF ScanBut, ScanOf
<1>4. SafeSpec => []OrderInv
  BY ScanOrder
<1> QED
  BY <1>1, <1>2, <1>3, <1>4, ScanTypeOK, PTL DEF SafeSpec

-----------------------------------------------------------------------------
(***************************************************************************)
(* The kernel reduce of scan.cl.                                           *)
(***************************************************************************)
\* The number of partial sums that work-item l sees.
Width(s) == IF s = 0 THEN 1 ELSE 2 * s

\* The elements of the block that partial sum l of n holds.
Class(n, l) == {e \in Summed!Block : (e - size.group * Summed!len) % n = l}

\* Bag b holds elements of S, none of them twice.
IsSumOf(b, S) == \E A \in {DOMAIN b} : A \subseteq S /\ b = Summed!SetToBag(A)

SumCell(l) ==
    LET w == Width(scale[l])
    IN  /\ scale[l] = size.wgs => partials[l] = Summed!Uninitialised
        /\ scale[l] < size.wgs =>
              /\ IsSumOf(partials[l], Summed!Block)
              /\ l < w => partials[l] = Summed!SetToBag(Class(w, l))
              /\ l >= w /\ l < 2 * w => partials[l] = Summed!SetToBag(Class(2 * w, l))

SumInv ==
    /\ size \in Sizes
    /\ scale \in [Summed!Items -> 0 .. size.wgs] /\ DOMAIN partials = Summed!Items
    /\ \A l \in Summed!Items :
          /\ scale[l] = 0 \/ Summed!IS_POWER2(scale[l])
          /\ scale[l] = size.wgs \/ 2 * scale[l] <= size.wgs
          /\ SumCell(l)
          /\ \A m \in Summed!Items :
                scale[l] <= scale[m] => scale[l] = scale[m] \/ scale[l] = scale[m] \div 2
    /\ out = Summed!Uninitialised \/ out = Summed!SetToBag(Summed!Block)
    /\ scale[0] = 0 => out = Summed!SetToBag(Summed!Block)

LEMMA DisjointUnion ==
    ASSUME NEW S, NEW T, S \cap T = {}
    PROVE  Summed!(+)(Summed!SetToBag(S), Summed!SetToBag(T)) = Summed!SetToBag(S \cup T)
  BY DEF Summed!SetToBag, Summed!(+)

LEMMA ModBounds ==
    ASSUME NEW x \in Nat, NEW y \in Nat \ {0}
    PROVE  /\ x % y \in 0 .. y - 1
           /\ x = (x \div y) * y + (x % y) /\ x \div y \in Nat
<1>1. /\ x % y \in 0 .. y - 1 /\ x \div y \in Nat
  OBVIOUS
<1>2. x = (x \div y) * y + (x % y)
  OBVIOUS
<1> QED
  BY <1>1, <1>2

\* x % y and x \div y are the only remainder and quotient.
LEMMA ModUnique ==
    ASSUME NEW x \in Nat, NEW y \in Nat \ {0}, NEW k \in Nat, NEW r \in 0 .. y - 1,
           x = k * y + r
    PROVE  x % y = r /\ x \div y = k
  OBVIOUS

LEMMA ModSplit ==
    ASSUME NEW x \in Nat, NEW s \in Nat \ {0}, NEW r \in 0 .. s - 1
    PROVE  x % s = r <=> x % (2 * s) = r \/ x % (2 * s) = r + s
<1>1. PICK k \in Nat, t \in 0 .. (2 * s - 1) : x = k * (2 * s) + t /\ x % (2 * s) = t
  <2>1. 2 * s \in Nat \ {0}
    OBVIOUS
  <2> QED
    BY <2>1, ModBounds
<1>2. CASE t < s
  <2>1. x = (2 * k) * s + t /\ 2 * k \in Nat /\ t \in 0 .. s - 1
    BY <1>1, <1>2
  <2>2. x % s = t
    BY <2>1, ModUnique
  <2> QED
    BY <1>1, <1>2, <2>2
<1>3. CASE t >= s
  <2>1. x = (2 * k + 1) * s + (t - s) /\ 2 * k + 1 \in Nat /\ t - s \in 0 .. s - 1
    BY <1>1, <1>3
  <2>2. x % s = t - s
    BY <2>1, ModUnique
  <2> QED
    BY <1>1, <1>3, <2>2
<1> QED
  BY <1>1, <1>2, <1>3

LEMMA HalfPower ==
    ASSUME NEW x \in Nat, Summed!IS_POWER2(x), x > 1
    PROVE  x \div 2 \in Nat \ {0} /\ x = 2 * (x \div 2) /\ Summed!IS_POWER2(x \div 2)
<1>1. x \in 1 .. x /\ x % x = 0
  OBVIOUS
<1>2. x % 2 = 0
  BY <1>1 DEF Summed!IS_POWER2
<1>3. PICK h \in Nat \ {0} : h = x \div 2 /\ x = 2 * h
  BY <1>2
<1>4. ASSUME NEW d \in 1 .. h, h % d = 0
      PROVE  d = 1 \/ d % 2 = 0
  <2>1. PICK k \in Nat : h = k * d
    BY <1>4
  <2>2. x = (2 * k) * d + 0 /\ 2 * k \in Nat /\ d \in Nat \ {0} /\ 0 \in 0 .. d - 1
    BY <1>3, <2>1
  <2>3. x % d = 0 /\ d \in 1 .. x
    BY <1>3, <2>2, ModUnique
  <2> QED
    BY <2>3 DEF Summed!IS_POWER2
<1> QED
  BY <1>3, <1>4 DEF Summed!IS_POWER2

LEMMA ClassSplit ==
    ASSUME NEW s \in Nat \ {0}, NEW l \in 0 .. s - 1, size.group \in Nat, Summed!len \in Nat
    PROVE  /\ Class(2 * s, l) \cup Class(2 * s, l + s) = Class(s, l)
           /\ Class(2 * s, l) \cap Class(2 * s, l + s) = {}
<1>1. \A e \in Summed!Block : e - size.group * Summed!len \in Nat
  BY DEF Summed!Block
<1>2. \A e \in Summed!Block :
         (e - size.group * Summed!len) % s = l <=>
            \/ (e - size.group * Summed!len) % (2 * s) = l
            \/ (e - size.group * Summed!len) % (2 * s) = l + s
  <2> TAKE e \in Summed!Block
  <2> PICK x \in Nat : x = e - size.group * Summed!len
    BY <1>1
  <2>1. x % s = l <=> x % (2 * s) = l \/ x % (2 * s) = l + s
    BY ModSplit
  <2> QED
    BY <2>1
<1>3. l # l + s
  OBVIOUS
<1>4. \A e : e \in Class(2 * s, l) \/ e \in Class(2 * s, l + s) <=> e \in Class(s, l)
  BY <1>2 DEF Class
<1>5. \A e : ~(e \in Class(2 * s, l) /\ e \in Class(2 * s, l + s))
  BY <1>3 DEF Class
<1> HIDE DEF Class
<1> QED
  BY <1>4, <1>5

LEMMA ClassWhole ==
    ASSUME size.group \in Nat, Summed!len \in Nat
    PROVE  Class(1, 0) = Summed!Block
<1>1. \A e \in Summed!Block : e - size.group * Summed!len \in Nat
  BY DEF Summed!Block
<1>2. \A x \in Nat : x % 1 = 0
  OBVIOUS
<1> QED
  BY <1>1, <1>2 DEF Class

\* What the loop over the tiles adds up.
LEMMA ClassLoaded ==
    ASSUME NEW w \in Nat \ {0}, w = size.wgs, NEW t \in Nat, t = size.tiles,
           NEW g \in Nat, g = size.group, NEW l \in 0 .. w - 1
    PROVE  {size.group * Summed!len + l + i * size.wgs : i \in 0 .. size.tiles - 1} = Class(w, l)
<1>1. PICK b \in Nat : b = size.group * Summed!len
  BY DEF Summed!len
<1>2. Summed!Block = b .. b + t * w - 1
  <2>1. PICK n \in Nat : n = t * w
    OBVIOUS
  <2>2. (g + 1) * n = g * n + n
    BY <2>1
  <2>3. Summed!len = n
    BY <2>1 DEF Summed!len
  <2> QED
    BY <1>1, <2>1, <2>2, <2>3 DEF Summed!Block
<1>3. ASSUME NEW i \in 0 .. t - 1
      PROVE  b + l + i * w \in Class(w, l)
  <2>1. i * w \in Nat /\ i * w + w <= t * w
    <3>1. PICK j \in Nat : t = i + 1 + j
      BY i \in Nat, t - i - 1 \in Nat
    <3>2. t * w = i * w + w + j * w /\ j * w \in Nat /\ i * w \in Nat
      BY <3>1
    <3> QED
      BY <3>2
  <2>2. b + l + i * w \in Summed!Block
    <3>1. PICK x \in Nat, y \in Nat : x = i * w /\ y = t * w
      BY <2>1
    <3>2. b + l + x \in b .. b + y - 1
      BY <2>1, <3>1
    <3> QED
      BY <1>2, <3>1, <3>2
  <2>3. (b + l + i * w) - b = i * w + l /\ i * w + l \in Nat
    BY <2>1
  <2>4. (i * w + l) % w = l
    BY <2>3, ModUnique
  <2> QED
    BY <1>1, <2>2, <2>3, <2>4 DEF Class
<1>4. ASSUME NEW e \in Class(w, l)
      PROVE  \E i \in 0 .. t - 1 : e = b + l + i * w
  <2>1. e \in b .. b + t * w - 1 /\ (e - b) % w = l
    BY <1>1, <1>2 DEF Class
  <2>2. e - b \in Nat /\ e - b < t * w
    BY <2>1
  <2>3. PICK i \in Nat : e - b = i * w + l
    BY <2>1, <2>2, ModBounds
  <2>4. i < t
    <3> SUFFICES ASSUME t <= i PROVE FALSE
      OBVIOUS
    <3>1. PICK j \in Nat : i = t + j
      BY i - t \in Nat
    <3>2. i * w = t * w + j * w /\ j * w \in Nat
      BY <3>1
    <3> QED
      BY <2>2, <2>3, <3>2
  <2>5. i \in 0 .. t - 1
    BY <2>4
  <2>6. e = b + l + i * w
    <3>1. PICK x \in Nat, y \in Nat : x = i * w /\ y = t * w
      OBVIOUS
    <3>2. e \in b .. b + y - 1
      BY <2>1, <3>1
    <3>3. e \in Int /\ e - b = x + l
      BY <2>3, <3>1, <3>2
    <3>4. e = b + l + x
      BY <3>3
    <3> QED
      BY <3>1, <3>4
  <2> QED
    BY <2>5, <2>6
<1> QED
  BY <1>1, <1>3, <1>4

-----------------------------------------------------------------------------
(* The sizes.                                                              *)
LEMMA SumSizes ==
    ASSUME Summed!Supported, size \in Sizes
    PROVE  /\ size.wgs \in Nat \ {0} /\ size.tiles \in Nat /\ size.group \in Nat
           /\ Summed!IS_POWER2(size.wgs) /\ Summed!len \in Nat /\ 0 \in Summed!Items
           /\ Summed!Items = 0 .. size.wgs - 1
<1>1. /\ size.wgs \in Nat /\ size.tiles \in Nat /\ size.group \in Nat
      /\ Summed!IS_POWER2(size.wgs)
  BY DEF Summed!Supported
<1>2. size.wgs > 0
  BY <1>1 DEF Summed!IS_POWER2
<1> QED
  BY <1>1, <1>2 DEF Summed!len, Summed!Items

LEMMA SumInit ==
    ASSUME Summed!Supported, Summed!Init
    PROVE  SumInv
<1> USE DEF Summed!Init
<1>0. size \in Sizes
  OBVIOUS
<1>1. /\ size.wgs \in Nat \ {0} /\ Summed!IS_POWER2(size.wgs) /\ 0 \in Summed!Items
  BY <1>0, SumSizes
<1>2. scale \in [Summed!Items -> 0 .. size.wgs] /\ DOMAIN partials = Summed!Items
  BY <1>1
<1>3. \A l \in Summed!Items : scale[l] = size.wgs /\ partials[l] = Summed!Uninitialised
  OBVIOUS
<1>4. \A l \in Summed!Items : SumCell(l)
  BY <1>1, <1>3 DEF SumCell
<1> QED
  BY <1>0, <1>1, <1>2, <1>3, <1>4 DEF SumInv

\* A step leaves the cells of the other work-items alone.
LEMMA OtherCell ==
    ASSUME NEW m, partials'[m] = partials[m], scale'[m] = scale[m], size' = size, SumCell(m)
    PROVE  SumCell(m)'
<1>1. Summed!Block' = Summed!Block /\ Summed!len' = Summed!len /\ Summed!Uninitialised' = Summed!Uninitialised
  BY DEF Summed!Block, Summed!len, Summed!Uninitialised, Summed!SetToBag
<1>2. \A n, r : Class(n, r)' = Class(n, r)
  BY <1>1 DEF Class
<1>3. \A S : Summed!SetToBag(S)' = Summed!SetToBag(S)
  BY DEF Summed!SetToBag
<1> QED
  BY <1>1, <1>2, <1>3 DEF SumCell, IsSumOf

\* What Step does to the loop variables.
LEMMA ScaleStep ==
    ASSUME Summed!Supported, SumInv, NEW l \in Summed!Items, Summed!Step(l)
    PROVE  /\ scale' \in [Summed!Items -> 0 .. size.wgs]
           /\ scale'[l] = scale[l] \div 2 /\ scale[l] \in 1 .. size.wgs
           /\ scale'[l] < scale[l] /\ scale'[l] \in Nat
           /\ scale'[l] = 0 => scale[l] = 1
           /\ scale[l] # size.wgs => 2 * scale[l] <= size.wgs
           /\ 2 * scale'[l] <= size.wgs
           /\ scale'[l] # 0 => scale[l] = 2 * scale'[l] /\ Summed!IS_POWER2(scale'[l])
           /\ \A m \in Summed!Items : m # l => scale'[m] = scale[m]
           /\ \A m \in Summed!Items : scale[m] <= scale[l]
<1>1. size.wgs \in Nat \ {0}
  BY SumSizes DEF SumInv
<1>2. scale \in [Summed!Items -> 0 .. size.wgs] /\ scale' = [scale EXCEPT ![l] = scale[l] \div 2]
  BY DEF SumInv, Summed!Step
<1>3. scale[l] \in 1 .. size.wgs /\ \A m \in Summed!Items : scale[m] <= scale[l]
  <2>1. CASE Summed!Accumulate(l)
    BY <1>1, <1>2, <2>1 DEF Summed!Accumulate
  <2>2. CASE Summed!Upsweep(l)
    BY <1>1, <1>2, <2>2 DEF Summed!Upsweep, Summed!BarrierPassed
  <2> QED
    BY <2>1, <2>2 DEF Summed!Step
<1>4. PICK s \in Nat \ {0} : s = scale[l] /\ s <= size.wgs
  BY <1>1, <1>3
<1>5. Summed!IS_POWER2(s)
  BY <1>4 DEF SumInv
<1>6. /\ s \div 2 \in 0 .. size.wgs /\ s \div 2 \in Nat /\ s \div 2 < s
      /\ s \div 2 = 0 => s = 1
      /\ 2 * (s \div 2) <= size.wgs
  BY <1>1, <1>4
<1>7. s \div 2 # 0 => s = 2 * (s \div 2) /\ Summed!IS_POWER2(s \div 2)
  <2> SUFFICES ASSUME s \div 2 # 0 PROVE s = 2 * (s \div 2) /\ Summed!IS_POWER2(s \div 2)
    OBVIOUS
  <2>1. s > 1
    OBVIOUS
  <2> QED
    BY <1>5, <2>1, HalfPower
<1>8. scale[l] # size.wgs => 2 * scale[l] <= size.wgs
  BY DEF SumInv
<1> QED
  BY <1>2, <1>3, <1>4, <1>6, <1>7, <1>8

\* The sum that a step leaves in the cell of its own work-item.
LEMMA CellStep ==
    ASSUME Summed!Supported, SumInv, NEW l \in Summed!Items, Summed!Step(l)
    PROVE  /\ SumCell(l)'
           /\ DOMAIN partials' = Summed!Items
           /\ \A m \in Summed!Items : m # l => partials'[m] = partials[m]
<1> PICK w \in Nat \ {0}, t \in Nat, g \in Nat : w = size.wgs /\ t = size.tiles /\ g = size.group
  BY SumSizes DEF SumInv
<1>0. Summed!len \in Nat /\ Summed!Items = 0 .. w - 1 /\ size' = size
  BY SumSizes DEF SumInv, Summed!Step
<1> PICK s \in 1 .. w : s = scale[l]
  BY ScaleStep
<1> PICK h \in Nat : h = scale'[l] /\ h < s /\ (h = 0 => s = 1) /\ (h # 0 => s = 2 * h)
  BY ScaleStep
<1>1. Summed!Block' = Summed!Block /\ \A n, r : Class(n, r)' = Class(n, r)
  BY <1>0 DEF Summed!Block, Summed!len, Class
<1>2. Width(h) = s
  BY DEF Width
<1> DEFINE New == partials'[l]
<1>3. SUFFICES /\ DOMAIN partials' = Summed!Items
               /\ \A m \in Summed!Items : m # l => partials'[m] = partials[m]
               /\ IsSumOf(New, Summed!Block)
               /\ l < s => New = Summed!SetToBag(Class(s, l))
               /\ l >= s /\ l < 2 * s => New = Summed!SetToBag(Class(2 * s, l))
  <2>1. SumCell(l)' <=> LET n == Width(h)
                     IN  /\ h = w => partials'[l] = Summed!Uninitialised
                         /\ h < w =>
                               /\ IsSumOf(partials'[l], Summed!Block)
                               /\ l < n => partials'[l] = Summed!SetToBag(Class(n, l))
                               /\ l >= n /\ l < 2 * n => partials'[l] = Summed!SetToBag(Class(2 * n, l))
    BY <1>0, <1>1 DEF SumCell, IsSumOf, Summed!SetToBag, Summed!Uninitialised
  <2>2. h < w /\ h # w
    OBVIOUS
  <2> QED
    BY <1>2, <1>3, <2>1, <2>2
<1>4. \A n, r : Class(n, r) \subseteq Summed!Block
  BY DEF Class
<1>5. \A A \in SUBSET Summed!Block : IsSumOf(Summed!SetToBag(A), Summed!Block)
  BY DEF IsSumOf, Summed!SetToBag
<1>6. CASE Summed!Accumulate(l)
  <2>1. s = w /\ partials' = [partials EXCEPT ![l] = Summed!SetToBag(Class(w, l))]
    BY <1>0, <1>6, ClassLoaded DEF Summed!Accumulate
  <2>2. New = Summed!SetToBag(Class(w, l))
    BY <2>1 DEF SumInv
  <2>3. IsSumOf(New, Summed!Block)
    BY <1>4, <1>5, <2>2
  <2>4. l < s /\ ~(l >= s)
    BY <1>0, <2>1
  <2>5. DOMAIN partials' = Summed!Items /\ \A m \in Summed!Items : m # l => partials'[m] = partials[m]
    BY <2>1 DEF SumInv
  <2> HIDE DEF New
  <2> QED
    BY <2>1, <2>2, <2>3, <2>4, <2>5
<1>7. CASE Summed!Upsweep(l)
  <2>1. /\ s < w /\ 2 * s <= w
        /\ partials' = IF l < s THEN [partials EXCEPT ![l] = Summed!(+)(partials[l], partials[l + s])] ELSE partials
    BY <1>7, ScaleStep DEF Summed!Upsweep
  <2>2. Width(s) = 2 * s /\ l \in Nat
    BY <1>0 DEF Width
  <2>3. IsSumOf(partials[l], Summed!Block) /\ (l < 2 * s => partials[l] = Summed!SetToBag(Class(2 * s, l)))
    BY <2>1, <2>2 DEF SumInv, SumCell
  <2>4. CASE l >= s
    BY <1>0, <2>1, <2>2, <2>3, <2>4 DEF SumInv
  <2>5. CASE l < s
    <3>1. PICK m \in Summed!Items : m = l + s
      BY <1>0, <2>1, <2>2, <2>5
    <3>2. scale[m] = s \/ scale[m] = h
      <4>1. scale[m] <= scale[l]
        BY ScaleStep
      <4>2. scale[m] = scale[l] \/ scale[m] = scale[l] \div 2
        BY <4>1 DEF SumInv
      <4> QED
        BY <4>2, ScaleStep
    <3>3. partials[m] = Summed!SetToBag(Class(2 * s, m))
      <4>0. SumCell(m) /\ m >= s /\ m < 2 * s /\ h < w /\ s < w
        BY <2>1, <2>2, <2>5, <3>1 DEF SumInv
      <4>1. CASE scale[m] = s
        BY <2>2, <4>0, <4>1 DEF SumCell
      <4>2. CASE scale[m] = h
        BY <1>2, <4>0, <4>2 DEF SumCell
      <4> QED
        BY <3>2, <4>1, <4>2
    <3>4. l \in 0 .. s - 1 /\ l < 2 * s /\ s \in Nat \ {0}
      BY <2>2, <2>5
    <3>5. Summed!(+)(partials[l], partials[l + s]) = Summed!SetToBag(Class(s, l))
      BY <1>0, <2>3, <3>1, <3>3, <3>4, ClassSplit, DisjointUnion, SMTT(30)
    <3>6. New = Summed!SetToBag(Class(s, l)) /\ DOMAIN partials' = Summed!Items
          /\ \A n \in Summed!Items : n # l => partials'[n] = partials[n]
      BY <2>1, <2>5, <3>5 DEF SumInv
    <3>7. IsSumOf(New, Summed!Block)
      BY <1>4, <1>5, <3>6
    <3> HIDE DEF New
    <3> QED
      BY <2>5, <3>4, <3>6, <3>7
  <2> QED
    BY <2>2, <2>4, <2>5
<1> QED
  BY <1>6, <1>7 DEF Summed!Step

LEMMA SumStep ==
    ASSUME Summed!Supported, SumInv, [Summed!Next]_(Summed!vars)
    PROVE  SumInv'
<1>1. CASE UNCHANGED Summed!vars
  <2>1. UNCHANGED <<size, partials, scale, out>>
    BY <1>1 DEF Summed!vars
  <2>2. \A l \in Summed!Items : SumCell(l)'
    BY <2>1, OtherCell DEF SumInv
  <2>3. /\ Summed!Items' = Summed!Items /\ Summed!Block' = Summed!Block
        /\ Summed!Uninitialised' = Summed!Uninitialised
    BY <2>1 DEF Summed!Items, Summed!Block, Summed!len, Summed!Uninitialised, Summed!SetToBag
  <2> QED
    BY <2>1, <2>2, <2>3 DEF SumInv, Summed!SetToBag, Summed!IS_POWER2
<1>2. CASE Summed!Terminated
  BY <1>1, <1>2 DEF Summed!Terminated
<1>3. ASSUME NEW l \in Summed!Items, Summed!Step(l) PROVE SumInv'
  <2>1. size' = size /\ out' = IF l = 0 /\ scale'[l] = 0 THEN partials'[0] ELSE out
    BY <1>3 DEF Summed!Step
  <2>2. /\ Summed!Items' = Summed!Items /\ Summed!Block' = Summed!Block
        /\ Summed!Uninitialised' = Summed!Uninitialised
    BY <2>1 DEF Summed!Items, Summed!Block, Summed!len, Summed!Uninitialised, Summed!SetToBag
  <2>3. \A m \in Summed!Items : SumCell(m)'
    BY <1>3, <2>1, CellStep, ScaleStep, OtherCell DEF SumInv
  <2>4. scale' \in [Summed!Items -> 0 .. size.wgs] /\ DOMAIN partials' = Summed!Items
    BY <1>3, CellStep, ScaleStep
  <2>5. ASSUME NEW m \in Summed!Items
        PROVE  /\ scale'[m] = 0 \/ Summed!IS_POWER2(scale'[m])
               /\ scale'[m] = size.wgs \/ 2 * scale'[m] <= size.wgs
    BY <1>3, ScaleStep DEF SumInv
  <2>6. ASSUME NEW a \in Summed!Items, NEW b \in Summed!Items, scale'[a] <= scale'[b]
        PROVE  scale'[a] = scale'[b] \/ scale'[a] = scale'[b] \div 2
    <3>1. \A m, n \in Summed!Items : scale[m] <= scale[n] => scale[m] = scale[n] \/ scale[m] = scale[n] \div 2
      BY DEF SumInv
    <3>2. \A m \in Summed!Items : scale[m] \in Nat /\ scale'[m] \in Nat
      BY <2>4, SumSizes DEF SumInv
    <3>3. /\ scale'[l] = scale[l] \div 2 /\ scale'[l] < scale[l]
          /\ \A m \in Summed!Items : m # l => scale'[m] = scale[m]
          /\ \A m \in Summed!Items : scale[m] <= scale[l]
      BY <1>3, ScaleStep
    <3>4. CASE a = l /\ b = l
      BY <3>4
    <3>5. CASE a # l /\ b # l
      BY <2>6, <3>1, <3>3, <3>5
    <3>6. CASE a = l /\ b # l
      <4>1. scale[b] = scale[l] \/ scale[b] = scale[l] \div 2
        BY <3>1, <3>3
      <4> QED
        BY <3>3, <3>6, <4>1
    <3>7. CASE a # l /\ b = l
      <4>1. scale[a] = scale[l] \/ scale[a] = scale[l] \div 2
        BY <3>1, <3>3
      <4> QED
        BY <2>6, <3>2, <3>3, <3>7, <4>1
    <3> QED
      BY <3>4, <3>5, <3>6, <3>7
  <2>7. scale'[0] = 0 => out' = Summed!SetToBag(Summed!Block)
    <3> SUFFICES ASSUME scale'[0] = 0 PROVE out' = Summed!SetToBag(Summed!Block)
      OBVIOUS
    <3>1. CASE l = 0
      <4>1. SumCell(0)' /\ scale'[0] < size.wgs /\ 0 \in Summed!Items
        BY <1>3, <3>1, <2>3, SumSizes DEF SumInv
      <4>2. Width(scale'[0]) = 1 /\ 0 < 1
        BY DEF Width
      <4>3. partials'[0] = Summed!SetToBag(Class(1, 0)')
        BY <2>1, <4>1, <4>2 DEF SumCell, Summed!SetToBag
      <4>4. Class(1, 0)' = Class(1, 0)
        BY <2>1 DEF Class, Summed!Block, Summed!len
      <4> QED
        BY <2>1, <3>1, <4>3, <4>4, ClassWhole, SumSizes DEF SumInv
    <3>2. CASE l # 0
      <4>1. scale[0] = 0
        BY <1>3, <3>2, ScaleStep, SumSizes DEF SumInv
      <4> QED
        BY <2>1, <3>2, <4>1 DEF SumInv
    <3> QED
      BY <3>1, <3>2
  <2>8. out' = Summed!Uninitialised \/ out' = Summed!SetToBag(Summed!Block)
    <3>1. CASE l = 0 /\ scale'[l] = 0
      BY <2>7, <3>1
    <3>2. CASE ~(l = 0 /\ scale'[l] = 0)
      BY <2>1, <3>2 DEF SumInv
    <3> QED
      BY <3>1, <3>2
  <2>9. /\ Summed!SetToBag(Summed!Block)' = Summed!SetToBag(Summed!Block)
        /\ \A x : Summed!IS_POWER2(x)' <=> Summed!IS_POWER2(x)
    BY <2>2 DEF Summed!SetToBag, Summed!IS_POWER2
  <2> QED
    BY <2>1, <2>2, <2>3, <2>4, <2>5, <2>6, <2>7, <2>8, <2>9 DEF SumInv
<1> QED
  BY <1>1, <1>2, <1>3 DEF Summed!Next

LEMMA SumResult ==
    ASSUME Summed!Supported, SumInv
    PROVE  Summed!TypeOK /\ Summed!BlockSummed
<1>1. \A S, b : IsSumOf(b, S) => Summed!BagToSet(b) \subseteq S /\ \A e \in Summed!BagToSet(b) : b[e] = 1
  BY DEF IsSumOf, Summed!BagToSet, Summed!SetToBag
<1>2. IsSumOf(Summed!SetToBag(Summed!Block), Summed!Block)
  BY DEF IsSumOf, Summed!SetToBag
<1>3. \A l \in Summed!Items : partials[l] = Summed!Uninitialised \/ IsSumOf(partials[l], Summed!Block)
  <2> TAKE l \in Summed!Items
  <2>1. scale[l] = size.wgs \/ scale[l] < size.wgs
    BY SumSizes DEF SumInv
  <2> QED
    BY <2>1 DEF SumInv, SumCell
<1>4. out = Summed!Uninitialised \/ IsSumOf(out, Summed!Block)
  BY <1>2 DEF SumInv
<1> QED
  BY <1>1, <1>3, <1>4 DEF SumInv, Summed!TypeOK, Summed!BlockSummed

-----------------------------------------------------------------------------
(***************************************************************************)
(* The kernels scanExclusiveSmall and scanExclusiveSmallOffset.            *)
(***************************************************************************)
\* Cell p - 1 of local memory is to be the sum of Whole(p); Part(p, d) is the
\* part of it that the last d cells contribute.
Whole(p) == Small!SetToBag(-1 .. p - 2)
Part(p, d) == Small!SetToBag(p - d - 1 .. p - 2)

\* D are the scales below c: each divides the next one twice.
Chain(D, c) ==
    /\ \A d \in D : \E j \in Nat : c = j * (2 * d)
    /\ \A d, e \in D : d < e => \E j \in Nat : e = j * (2 * d)
    /\ \A e \in D \cup {c} : e = 1 \/ \E h \in D : e = 2 * h

At(l, q, where, s) == phase[l] = q /\ pc[l] = where /\ scale[l] = s

LoadInv(q) ==
    /\ \A i \in Small!Cells : inout[i] = Small!Unit(i)
    /\ \A l \in Small!Items :
          \/ At(l, q, "load", 1)
          \/ /\ At(l, q + 1, "up", 1)
             /\ v[l] = Part(l + 1, 1)
             /\ v[l + Small!wgs] = Part(l + Small!wgs + 1, 1)

\* The cells at odd multiples of a smaller scale are settled until the
\* downsweep returns to that scale.
Settled(D) ==
    \A d \in D, k \in Nat :
        k * (2 * d) + d <= SCAN_BLOCKS => v[k * (2 * d) + d - 1] = Part(k * (2 * d) + d, d)

UpInv(q, c, D) ==
    /\ Chain(D, c) /\ Settled(D)
    /\ \A l \in Small!Items :
          \/ At(l, q, "up", c)
          \/ 2 * c <= Small!wgs /\ At(l, q + 1, "up", 2 * c)
          \/ 2 * c > Small!wgs /\ At(l, q + 1, "down", c)
    /\ \A k \in Nat :
          k * (2 * c) + c <= SCAN_BLOCKS => v[k * (2 * c) + c - 1] = Part(k * (2 * c) + c, c)
    /\ \A k \in Nat :
          (k + 1) * (2 * c) <= SCAN_BLOCKS =>
              v[(k + 1) * (2 * c) - 1] =
                  Part((k + 1) * (2 * c), IF phase[k] = q THEN c ELSE 2 * c)

DownInv(q, c, D) ==
    /\ Chain(D, c) /\ Settled(D)
    /\ \A l \in Small!Items :
          \/ At(l, q, "down", c)
          \/ c > 1 /\ At(l, q + 1, "down", c \div 2)
          \/ c = 1 /\ At(l, q + 1, "write", 0)
    /\ c <= SCAN_BLOCKS => v[c - 1] = Whole(c)
    /\ \A k \in Nat :
          (k + 1) * (2 * c) <= SCAN_BLOCKS => v[(k + 1) * (2 * c) - 1] = Whole((k + 1) * (2 * c))
    /\ \A k \in Nat :
          (k + 1) * (2 * c) + c <= SCAN_BLOCKS =>
              v[(k + 1) * (2 * c) + c - 1] =
                  IF phase[k] = q THEN Part((k + 1) * (2 * c) + c, c)
                                  ELSE Whole((k + 1) * (2 * c) + c)

WriteInv(q) ==
    /\ \A i \in Small!Cells : v[i] = Whole(i + 1)
    /\ \A l \in Small!Items :
          \/ At(l, q, "write", 0)
          \/ /\ At(l, q + 1, "end", 0)
             /\ inout[l] = Whole(l + 1)
             /\ inout[l + Small!wgs] = Whole(l + Small!wgs + 1)

\* A cell of local memory is not initialised, or a sum up to its own value.
IsPart(b, p) == b = Small!Uninitialised \/ \E d \in 1 .. p : b = Part(p, d)

Common ==
    /\ SCAN_BLOCKS \in BlockCounts
    /\ DOMAIN inout = Small!Cells /\ DOMAIN v = Small!Cells
    /\ \A i \in Small!Cells :
          /\ inout[i] = Small!Unit(i) \/ inout[i] = Whole(i + 1)
          /\ IsPart(v[i], i + 1)
    /\ pc \in [Small!Items -> {"load", "up", "down", "write", "end"}]
    /\ scale \in [Small!Items -> 0 .. Small!wgs]
    /\ phase \in [Small!Items -> Nat]

Sweep ==
    \/ \E q \in Nat : LoadInv(q) \/ WriteInv(q)
    \/ \E q \in Nat, c \in 1 .. Small!wgs : \E D \in SUBSET (1 .. c - 1) :
          UpInv(q, c, D) \/ DownInv(q, c, D)

SmallInv == Common /\ Sweep

\* Multiples.
LEMMA OddIsNotEven ==
    ASSUME NEW c \in Nat \ {0}, NEW k \in Nat, NEW m \in Nat
    PROVE  k * (2 * c) + c # m * (2 * c)
<1>1. CASE k < m
  <2>1. PICK j \in Nat : m = k + 1 + j
    BY <1>1, m - k - 1 \in Nat
  <2>2. m * (2 * c) = k * (2 * c) + 2 * c + j * (2 * c) /\ j * (2 * c) \in Nat
    BY <2>1
  <2> QED
    BY <2>2
<1>2. CASE k >= m
  <2>1. PICK j \in Nat : k = m + j
    BY <1>2, k - m \in Nat
  <2>2. k * (2 * c) = m * (2 * c) + j * (2 * c) /\ j * (2 * c) \in Nat
    BY <2>1
  <2> QED
    BY <2>2
<1> QED
  BY <1>1, <1>2

LEMMA SameMultiple ==
    ASSUME NEW c \in Nat \ {0}, NEW k \in Nat, NEW m \in Nat, k * (2 * c) = m * (2 * c)
    PROVE  k = m
<1>1. ASSUME NEW a \in Nat, NEW b \in Nat, a < b PROVE a * (2 * c) # b * (2 * c)
  <2>1. PICK j \in Nat : b = a + 1 + j
    BY <1>1, b - a - 1 \in Nat
  <2>2. b * (2 * c) = a * (2 * c) + 2 * c + j * (2 * c) /\ j * (2 * c) \in Nat
    BY <2>1
  <2> QED
    BY <2>2
<1> QED
  BY <1>1

\* A positive multiple is at least its factor.
LEMMA MultipleBounds ==
    ASSUME NEW c \in Nat \ {0}, NEW k \in Nat
    PROVE  /\ k * (2 * c) \in Nat
           /\ (k + 1) * (2 * c) \in Nat /\ (k + 1) * (2 * c) = k * (2 * c) + 2 * c
           /\ k <= k * (2 * c) /\ 2 * k <= k * (2 * c)
<1>1. PICK e \in Nat : c = 1 + e
  BY c - 1 \in Nat
<1>2. k * (2 * c) = 2 * k + 2 * (k * e) /\ k * e \in Nat
  BY <1>1
<1>3. (k + 1) * (2 * c) = k * (2 * c) + 2 * c
  OBVIOUS
<1> QED
  BY <1>2, <1>3

\* A multiple of twice c is a multiple of twice any smaller scale.
LEMMA TwiceDivides ==
    \A d, c, j, k \in Nat :
        c = j * (2 * d) => /\ \E m \in Nat : k * (2 * c) = m * (2 * d)
                           /\ \E m \in Nat : k * (2 * c) + c = m * (2 * d)
<1> TAKE d, c, j, k \in Nat
<1> HAVE c = j * (2 * d)
<1>1. k * (2 * c) = (2 * k * j) * (2 * d) /\ 2 * k * j \in Nat
  OBVIOUS
<1>2. k * (2 * c) + c = (2 * k * j + j) * (2 * d) /\ 2 * k * j + j \in Nat
  BY <1>1
<1> QED
  BY <1>1, <1>2

\* The sums.
LEMMA PartSum ==
    ASSUME NEW p \in Nat, NEW c \in Nat, NEW d \in Nat, c <= p
    PROVE  Small!(+)(Part(p, c), Part(p - c, d)) = Part(p, c + d)
<1> DEFINE S == p - c - 1 .. p - 2
           T == p - c - d - 1 .. p - c - 2
<1>1. S \cap T = {} /\ S \cup T = p - (c + d) - 1 .. p - 2
  OBVIOUS
<1>2. Small!(+)(Small!SetToBag(S), Small!SetToBag(T)) = Small!SetToBag(S \cup T)
  BY <1>1 DEF Small!SetToBag, Small!(+)
<1>3. Part(p, c) = Small!SetToBag(S) /\ Part(p - c, d) = Small!SetToBag(T)
  BY DEF Part
<1> QED
  BY <1>1, <1>2, <1>3 DEF Part

LEMMA WholeIsPart ==
    ASSUME NEW p \in Nat
    PROVE  Whole(p) = Part(p, p)
<1>1. p - p - 1 = -1
  OBVIOUS
<1> QED
  BY <1>1 DEF Whole, Part

LEMMA PartRigid == \A p, d : Part(p, d)' = Part(p, d) /\ Whole(p)' = Whole(p)
  BY DEF Part, Whole, Small!SetToBag

LEMMA SmallSizes ==
    ASSUME Small!Supported, SCAN_BLOCKS \in BlockCounts
    PROVE  /\ SCAN_BLOCKS \in Nat /\ Small!wgs \in Nat \ {0} /\ SCAN_BLOCKS = 2 * Small!wgs
           /\ Small!Cells = 0 .. SCAN_BLOCKS - 1 /\ Small!Items = 0 .. Small!wgs - 1
           /\ 0 \in Small!Items
<1>1. SCAN_BLOCKS \in Nat /\ SCAN_BLOCKS >= 2 /\ SCAN_BLOCKS % 2 = 0
  BY DEF Small!Supported
<1>2. SCAN_BLOCKS \div 2 \in Nat \ {0} /\ SCAN_BLOCKS = 2 * (SCAN_BLOCKS \div 2)
  BY <1>1
<1> QED
  BY <1>1, <1>2 DEF Small!wgs, Small!Cells, Small!Items

LEMMA SmallInit ==
    ASSUME Small!Supported, Small!Init
    PROVE  SmallInv
<1> USE DEF Small!Init
<1>1. SCAN_BLOCKS \in BlockCounts
  OBVIOUS
<1>2. Small!wgs \in Nat \ {0}
  BY <1>1, SmallSizes
<1>3. Common
  BY <1>1, <1>2 DEF Common, IsPart
<1>4. LoadInv(0)
  BY <1>1 DEF LoadInv, At
<1> QED
  BY <1>3, <1>4 DEF SmallInv, Sweep

\* What Run does to the position of the work-items.
LEMMA RunStep ==
    ASSUME Small!Supported, Common, NEW l \in Small!Items, NEW next, NEW s \in 0 .. Small!wgs,
           next \in {"load", "up", "down", "write", "end"}, Small!Run(l, next, s)
    PROVE  /\ SCAN_BLOCKS' = SCAN_BLOCKS /\ Small!wgs' = Small!wgs
           /\ Small!Cells' = Small!Cells /\ Small!Items' = Small!Items
           /\ pc' \in [Small!Items -> {"load", "up", "down", "write", "end"}]
           /\ scale' \in [Small!Items -> 0 .. Small!wgs]
           /\ phase' \in [Small!Items -> Nat]
           /\ phase'[l] = phase[l] + 1 /\ pc'[l] = next /\ scale'[l] = s
           /\ \A m \in Small!Items :
                 m # l => phase'[m] = phase[m] /\ pc'[m] = pc[m] /\ scale'[m] = scale[m]
<1>1. SCAN_BLOCKS' = SCAN_BLOCKS
  BY DEF Small!Run
<1>2. /\ Small!wgs' = Small!wgs
      /\ Small!Cells' = Small!Cells /\ Small!Items' = Small!Items
  BY <1>1 DEF Small!wgs, Small!Cells, Small!Items
<1>3. /\ pc' = [pc EXCEPT ![l] = next] /\ scale' = [scale EXCEPT ![l] = s]
      /\ phase' = [phase EXCEPT ![l] = phase[l] + 1]
  BY DEF Small!Run
<1>4. phase[l] + 1 \in Nat
  BY DEF Common
<1>5. /\ pc' \in [Small!Items -> {"load", "up", "down", "write", "end"}]
      /\ scale' \in [Small!Items -> 0 .. Small!wgs]
      /\ phase' \in [Small!Items -> Nat]
  BY <1>3, <1>4 DEF Common
<1>6. /\ phase'[l] = phase[l] + 1 /\ pc'[l] = next /\ scale'[l] = s
      /\ \A m \in Small!Items :
            m # l => phase'[m] = phase[m] /\ pc'[m] = pc[m] /\ scale'[m] = scale[m]
  BY <1>3 DEF Common
<1> QED
  BY <1>1, <1>2, <1>5, <1>6

\* Common after a step that leaves inout alone.
LEMMA CommonStep ==
    ASSUME Small!Supported, Common, inout' = inout, SCAN_BLOCKS' = SCAN_BLOCKS,
           Small!wgs' = Small!wgs, Small!Cells' = Small!Cells, Small!Items' = Small!Items,
           pc' \in [Small!Items -> {"load", "up", "down", "write", "end"}],
           scale' \in [Small!Items -> 0 .. Small!wgs],
           phase' \in [Small!Items -> Nat],
           DOMAIN v' = Small!Cells,
           \A i \in Small!Cells : v'[i] = v[i] \/ \E d \in 1 .. i + 1 : v'[i] = Part(i + 1, d)
    PROVE  Common'
<1>1. \A a : Small!Unit(a)' = Small!Unit(a)
  BY DEF Small!Unit, Small!SetToBag
<1>2. Small!Uninitialised' = Small!Uninitialised
  BY <1>1 DEF Small!Uninitialised, Small!Unit, Small!SetToBag
<1>3. \A i \in Small!Cells : v'[i] = Small!Uninitialised \/ \E d \in 1 .. i + 1 : v'[i] = Part(i + 1, d)
  BY DEF Common, IsPart
<1>4. \A i \in Small!Cells : IsPart(v[i], i + 1)'
  BY <1>2, <1>3, PartRigid DEF IsPart
<1>5. \A i \in Small!Cells : (inout[i] = Small!Unit(i) \/ inout[i] = Whole(i + 1))'
  BY <1>1, PartRigid DEF Common
<1> QED
  BY <1>4, <1>5 DEF Common

LEMMA UnitIsPart ==
    ASSUME NEW p \in Int
    PROVE  Small!Unit(p - 2) = Part(p, 1)
<1>1. p - 1 - 1 .. p - 2 = {p - 2}
  OBVIOUS
<1> QED
  BY <1>1 DEF Small!Unit, Part

LEMMA LoadStep ==
    ASSUME Small!Supported, Common, NEW q \in Nat, LoadInv(q),
           NEW l \in Small!Items, phase[l] = q, Small!Load(l)
    PROVE  Common' /\ LoadInv(q)'
<1> PICK W \in Nat \ {0} : W = Small!wgs
  BY SmallSizes DEF Common
<1>0. /\ Small!Items = 0 .. W - 1 /\ Small!Cells = 0 .. 2 * W - 1 /\ SCAN_BLOCKS = 2 * W
      /\ l \in Nat /\ l < W
  BY SmallSizes DEF Common
<1>1. Small!Run(l, "up", 1) /\ 1 \in 0 .. W /\ inout' = inout
  BY DEF Small!Load
<1>2. /\ SCAN_BLOCKS' = SCAN_BLOCKS /\ Small!wgs' = Small!wgs
      /\ Small!Cells' = Small!Cells /\ Small!Items' = Small!Items
      /\ pc' \in [Small!Items -> {"load", "up", "down", "write", "end"}]
      /\ scale' \in [Small!Items -> 0 .. Small!wgs]
      /\ phase' \in [Small!Items -> Nat]
  BY <1>1, RunStep
<1>3. /\ phase'[l] = q + 1 /\ pc'[l] = "up" /\ scale'[l] = 1
      /\ \A m \in Small!Items :
            m # l => phase'[m] = phase[m] /\ pc'[m] = pc[m] /\ scale'[m] = scale[m]
  BY <1>1, RunStep
<1>4. (IF l = 0 THEN Small!Unit(Small!Offset) ELSE inout[l - 1]) = Part(l + 1, 1)
  <2>1. Small!Unit(l + 1 - 2) = Part(l + 1, 1) /\ l + 1 - 2 = l - 1
    BY <1>0, UnitIsPart
  <2>2. CASE l = 0
    BY <2>1, <2>2 DEF Small!Offset
  <2>3. CASE l # 0
    <3>1. l - 1 \in Small!Cells
      BY <1>0, <2>3
    <3>2. inout[l - 1] = Small!Unit(l - 1)
      BY <3>1 DEF LoadInv
    <3> QED
      BY <2>1, <2>3, <3>2
  <2> QED
    BY <2>2, <2>3
<1>5. inout[l + W - 1] = Part(l + W + 1, 1)
  <2>1. Small!Unit(l + W + 1 - 2) = Part(l + W + 1, 1) /\ l + W + 1 - 2 = l + W - 1
    BY <1>0, UnitIsPart
  <2>2. l + W - 1 \in Small!Cells
    BY <1>0
  <2> QED
    BY <2>1, <2>2 DEF LoadInv
<1>6. v' = [v EXCEPT ![l] = Part(l + 1, 1), ![l + W] = Part(l + W + 1, 1)]
  BY <1>4, <1>5 DEF Small!Load
<1>7. /\ DOMAIN v' = Small!Cells
      /\ v'[l] = Part(l + 1, 1) /\ v'[l + W] = Part(l + W + 1, 1)
      /\ \A i \in Small!Cells : i # l /\ i # l + W => v'[i] = v[i]
  <2>1. l \in Small!Cells /\ l + W \in Small!Cells /\ l # l + W
    BY <1>0
  <2> QED
    BY <1>6, <2>1 DEF Common
<1>8. Common'
  <2>1. \A i \in Small!Cells : v'[i] = v[i] \/ \E d \in 1 .. i + 1 : v'[i] = Part(i + 1, d)
    <3> TAKE i \in Small!Cells
    <3>1. 1 \in 1 .. i + 1
      BY <1>0
    <3> QED
      BY <1>7, <3>1
  <2> QED
    BY <1>1, <1>2, <1>7, <2>1, CommonStep
<1>9. LoadInv(q)'
  <2>1. \A i \in Small!Cells : (inout[i] = Small!Unit(i))'
    BY <1>1 DEF LoadInv, Small!Unit, Small!SetToBag
  <2>2. \A m \in Small!Items :
           \/ At(m, q, "load", 1)'
           \/ /\ At(m, q + 1, "up", 1)'
              /\ v'[m] = Part(m + 1, 1)
              /\ v'[m + W] = Part(m + W + 1, 1)
    <3> TAKE m \in Small!Items
    <3>1. CASE m = l
      BY <1>3, <1>7, <3>1 DEF At
    <3>2. CASE m # l
      <4>1. v'[m] = v[m] /\ v'[m + W] = v[m + W]
        <5>1. /\ m \in Small!Cells /\ m + W \in Small!Cells
              /\ m # l + W /\ m + W # l /\ m + W # l + W
          BY <1>0, <3>2
        <5> QED
          BY <1>7, <3>2, <5>1
      <4> QED
        BY <1>3, <3>2, <4>1 DEF At, LoadInv
    <3> QED
      BY <3>1, <3>2
  <2> QED
    BY <1>2, <2>1, <2>2, PartRigid DEF LoadInv
<1> QED
  BY <1>8, <1>9

\* The cell that an iteration of the upsweep writes.
LEMMA UpStep ==
    ASSUME Small!Supported, Common, NEW q \in Nat, NEW c \in 1 .. Small!wgs,
           NEW D \in SUBSET (1 .. c - 1), UpInv(q, c, D),
           NEW l \in Small!Items, phase[l] = q, Small!Upsweep(l)
    PROVE  Common' /\ UpInv(q, c, D)'
<1> PICK W \in Nat \ {0} : W = Small!wgs
  BY SmallSizes DEF Common
<1>0. /\ Small!Items = 0 .. W - 1 /\ Small!Cells = 0 .. SCAN_BLOCKS - 1 /\ SCAN_BLOCKS = 2 * W
      /\ l \in Nat /\ l < W /\ c \in Nat \ {0} /\ c <= W
  BY SmallSizes DEF Common
<1>1. scale[l] = c /\ pc[l] = "up"
  BY DEF UpInv, At, Small!Upsweep
<1>2. PICK next \in {"up", "down"}, s \in 0 .. W :
         /\ Small!Run(l, next, s)
         /\ IF 2 * c <= W THEN next = "up" /\ s = 2 * c ELSE next = "down" /\ s = c
  <2>1. CASE 2 * c <= W
    BY <1>0, <1>1, <2>1 DEF Small!Upsweep
  <2>2. CASE ~(2 * c <= W)
    BY <1>0, <1>1, <2>2 DEF Small!Upsweep
  <2> QED
    BY <2>1, <2>2
<1>3. inout' = inout
  BY DEF Small!Upsweep
<1>4. /\ SCAN_BLOCKS' = SCAN_BLOCKS /\ Small!wgs' = Small!wgs
      /\ Small!Cells' = Small!Cells /\ Small!Items' = Small!Items
      /\ pc' \in [Small!Items -> {"load", "up", "down", "write", "end"}]
      /\ scale' \in [Small!Items -> 0 .. Small!wgs]
      /\ phase' \in [Small!Items -> Nat]
  BY <1>2, RunStep
<1>5. /\ phase'[l] = q + 1 /\ pc'[l] = next /\ scale'[l] = s
      /\ \A m \in Small!Items :
            m # l => phase'[m] = phase[m] /\ pc'[m] = pc[m] /\ scale'[m] = scale[m]
  BY <1>2, RunStep
<1> PICK p \in Nat : p = (l + 1) * (2 * c) /\ p = l * (2 * c) + 2 * c
  BY <1>0, MultipleBounds
<1>6. v' = IF p <= SCAN_BLOCKS THEN [v EXCEPT ![p - 1] = Small!(+)(v[p - 1], v[p - c - 1])] ELSE v
  BY <1>1 DEF Small!Upsweep, Small!pos
<1>7. p <= SCAN_BLOCKS => Small!(+)(v[p - 1], v[p - c - 1]) = Part(p, 2 * c)
  <2> SUFFICES ASSUME p <= SCAN_BLOCKS PROVE Small!(+)(v[p - 1], v[p - c - 1]) = Part(p, 2 * c)
    OBVIOUS
  <2>1. v[p - 1] = Part(p, c)
    BY <1>0 DEF UpInv
  <2>2. p - c = l * (2 * c) + c /\ p - c <= SCAN_BLOCKS
    BY <1>0
  <2>3. v[p - c - 1] = Part(p - c, c)
    BY <1>0, <2>2 DEF UpInv
  <2>4. c <= p /\ c + c = 2 * c
    BY <1>0, MultipleBounds
  <2>5. Small!(+)(Part(p, c), Part(p - c, c)) = Part(p, c + c)
    BY <1>0, <2>4, PartSum
  <2> QED
    BY <2>1, <2>3, <2>4, <2>5
<1>8. /\ DOMAIN v' = Small!Cells
      /\ p <= SCAN_BLOCKS => v'[p - 1] = Part(p, 2 * c)
      /\ \A i \in Small!Cells : i # p - 1 => v'[i] = v[i]
  <2>1. p <= SCAN_BLOCKS => p - 1 \in Small!Cells
    BY <1>0, MultipleBounds
  <2> QED
    BY <1>6, <1>7, <2>1 DEF Common
<1>9. \A i \in Nat : i <= SCAN_BLOCKS /\ i >= 1 /\ i # p => v'[i - 1] = v[i - 1]
  <2> TAKE i \in Nat
  <2> HAVE i <= SCAN_BLOCKS /\ i >= 1 /\ i # p
  <2>1. i - 1 \in Small!Cells /\ i - 1 # p - 1
    BY <1>0
  <2> QED
    BY <1>8, <2>1
<1>10. Common'
  <2>1. \A i \in Small!Cells : v'[i] = v[i] \/ \E d \in 1 .. i + 1 : v'[i] = Part(i + 1, d)
    <3> TAKE i \in Small!Cells
    <3>1. CASE i # p - 1
      BY <1>8, <3>1
    <3>2. CASE i = p - 1
      <4>1. i + 1 = p /\ p <= SCAN_BLOCKS /\ 2 * c \in 1 .. i + 1
        BY <1>0, <3>2, MultipleBounds
      <4> QED
        BY <1>8, <3>2, <4>1
    <3> QED
      BY <3>1, <3>2
  <2> QED
    BY <1>3, <1>4, <1>8, <2>1, CommonStep
<1>11. UpInv(q, c, D)'
  <2>1. Chain(D, c)'
    BY DEF UpInv, Chain
  <2>2. \A d \in D, k \in Nat :
           k * (2 * d) + d <= SCAN_BLOCKS => v'[k * (2 * d) + d - 1] = Part(k * (2 * d) + d, d)
    <3> TAKE d \in D, k \in Nat
    <3> HAVE k * (2 * d) + d <= SCAN_BLOCKS
    <3>1. d \in Nat \ {0}
      OBVIOUS
    <3>2. PICK j \in Nat : c = j * (2 * d)
      BY DEF UpInv, Chain
    <3>3. PICK m \in Nat : p = m * (2 * d)
      <4>1. PICK k1 \in Nat : k1 = l + 1
        BY <1>0
      <4>2. d \in Nat /\ c \in Nat
        BY <1>0, <3>1
      <4>3. \E m \in Nat : k1 * (2 * c) = m * (2 * d)
        BY <3>2, <4>2, TwiceDivides
      <4> QED
        BY <4>1, <4>3
    <3>4. PICK i \in Nat : i = k * (2 * d) + d /\ i >= 1 /\ i # p
      BY <3>1, <3>3, OddIsNotEven, MultipleBounds
    <3>5. v[i - 1] = Part(i, d)
      BY <3>4 DEF UpInv, Settled
    <3> QED
      BY <1>9, <3>4, <3>5
  <2>3. \A k \in Nat :
           k * (2 * c) + c <= SCAN_BLOCKS => v'[k * (2 * c) + c - 1] = Part(k * (2 * c) + c, c)
    <3> TAKE k \in Nat
    <3> HAVE k * (2 * c) + c <= SCAN_BLOCKS
    <3>1. PICK i \in Nat : i = k * (2 * c) + c /\ i >= 1 /\ i # p
      BY <1>0, OddIsNotEven, MultipleBounds
    <3>2. v[i - 1] = Part(i, c)
      BY <3>1 DEF UpInv
    <3> QED
      BY <1>9, <3>1, <3>2
  <2>4. \A k \in Nat :
           (k + 1) * (2 * c) <= SCAN_BLOCKS =>
               v'[(k + 1) * (2 * c) - 1] =
                   Part((k + 1) * (2 * c), IF phase'[k] = q THEN c ELSE 2 * c)
    <3> TAKE k \in Nat
    <3> HAVE (k + 1) * (2 * c) <= SCAN_BLOCKS
    <3>1. PICK i \in Nat : i = (k + 1) * (2 * c) /\ i >= 1 /\ 2 * (k + 1) <= i
      BY <1>0, MultipleBounds, k + 1 \in Nat
    <3>2. k \in Small!Items
      BY <1>0, <3>1
    <3>3. v[i - 1] = Part(i, IF phase[k] = q THEN c ELSE 2 * c)
      BY <3>1 DEF UpInv
    <3>4. CASE k = l
      <4>1. phase'[k] # q /\ i = p
        BY <1>5, <3>1, <3>4
      <4> QED
        BY <1>8, <3>1, <4>1
    <3>5. CASE k # l
      <4>1. i # p
        BY <1>0, <3>1, <3>5, SameMultiple, k + 1 \in Nat, l + 1 \in Nat
      <4>2. phase'[k] = phase[k] /\ v'[i - 1] = v[i - 1]
        BY <1>5, <1>9, <3>1, <3>2, <3>5, <4>1
      <4> QED
        BY <3>1, <3>3, <4>2
    <3> QED
      BY <3>4, <3>5
  <2>5. \A m \in Small!Items :
          \/ At(m, q, "up", c)'
          \/ 2 * c <= W /\ At(m, q + 1, "up", 2 * c)'
          \/ 2 * c > W /\ At(m, q + 1, "down", c)'
    <3> TAKE m \in Small!Items
    <3>1. CASE m = l
      BY <1>0, <1>2, <1>5, <3>1 DEF At
    <3>2. CASE m # l
      BY <1>5, <3>2 DEF UpInv, At
    <3> QED
      BY <3>1, <3>2
  <2>6. Settled(D)'
    BY <1>4, <2>2, PartRigid DEF Settled
  <2> QED
    BY <1>4, <2>1, <2>3, <2>4, <2>5, <2>6, PartRigid DEF UpInv
<1> QED
  BY <1>10, <1>11

\* The cell that an iteration of the downsweep writes.
LEMMA DownStep ==
    ASSUME Small!Supported, Common, NEW q \in Nat, NEW c \in 1 .. Small!wgs,
           NEW D \in SUBSET (1 .. c - 1), DownInv(q, c, D),
           NEW l \in Small!Items, phase[l] = q, Small!Downsweep(l)
    PROVE  Common' /\ DownInv(q, c, D)'
<1> PICK W \in Nat \ {0} : W = Small!wgs
  BY SmallSizes DEF Common
<1>0. /\ Small!Items = 0 .. W - 1 /\ Small!Cells = 0 .. SCAN_BLOCKS - 1 /\ SCAN_BLOCKS = 2 * W
      /\ l \in Nat /\ l < W /\ c \in Nat \ {0} /\ c <= W
  BY SmallSizes DEF Common
<1>1. scale[l] = c /\ pc[l] = "down"
  BY DEF DownInv, At, Small!Downsweep
<1>2. PICK next \in {"down", "write"}, s \in 0 .. W :
         /\ Small!Run(l, next, s)
         /\ IF c > 1 THEN next = "down" /\ s = c \div 2 ELSE next = "write" /\ s = 0
  <2>1. CASE c > 1
    <3>1. c \div 2 >= 1 /\ c \div 2 \in 0 .. W
      BY <1>0, <2>1
    <3> QED
      BY <1>0, <1>1, <2>1, <3>1 DEF Small!Downsweep
  <2>2. CASE c = 1
    <3>1. ~(c \div 2 >= 1) /\ ~(c > 1) /\ 0 \in 0 .. W
      BY <1>0, <2>2
    <3> QED
      BY <1>0, <1>1, <3>1 DEF Small!Downsweep
  <2> QED
    BY <1>0, <2>1, <2>2
<1>3. inout' = inout
  BY DEF Small!Downsweep
<1>4. /\ SCAN_BLOCKS' = SCAN_BLOCKS /\ Small!wgs' = Small!wgs
      /\ Small!Cells' = Small!Cells /\ Small!Items' = Small!Items
      /\ pc' \in [Small!Items -> {"load", "up", "down", "write", "end"}]
      /\ scale' \in [Small!Items -> 0 .. Small!wgs]
      /\ phase' \in [Small!Items -> Nat]
  BY <1>2, RunStep
<1>5. /\ phase'[l] = q + 1 /\ pc'[l] = next /\ scale'[l] = s
      /\ \A m \in Small!Items :
            m # l => phase'[m] = phase[m] /\ pc'[m] = pc[m] /\ scale'[m] = scale[m]
  BY <1>2, RunStep
<1> PICK b \in Nat : b = (l + 1) * (2 * c) /\ b = l * (2 * c) + 2 * c
  BY <1>0, MultipleBounds
<1> PICK p \in Nat : p = b + c
  BY <1>0
<1>6. v' = IF p <= SCAN_BLOCKS THEN [v EXCEPT ![p - 1] = Small!(+)(v[p - 1], v[b - 1])] ELSE v
  <2>1. (b <= SCAN_BLOCKS - c <=> p <= SCAN_BLOCKS) /\ b + c - 1 = p - 1
    BY <1>0
  <2>2. Small!pos(l) = b
    BY <1>1 DEF Small!pos
  <2> QED
    BY <1>1, <2>1, <2>2 DEF Small!Downsweep
<1>7. p <= SCAN_BLOCKS => Small!(+)(v[p - 1], v[b - 1]) = Whole(p)
  <2> SUFFICES ASSUME p <= SCAN_BLOCKS PROVE Small!(+)(v[p - 1], v[b - 1]) = Whole(p)
    OBVIOUS
  <2>1. v[p - 1] = Part(p, c)
    BY <1>0 DEF DownInv
  <2>2. p - c = b /\ b <= SCAN_BLOCKS /\ c <= p /\ c + b = p
    BY <1>0
  <2>3. v[b - 1] = Whole(b)
    BY <1>0, <2>2 DEF DownInv
  <2>4. Small!(+)(Part(p, c), Part(p - c, b)) = Part(p, c + b)
    BY <1>0, <2>2, PartSum
  <2> QED
    BY <2>1, <2>2, <2>3, <2>4, WholeIsPart
<1>8. /\ DOMAIN v' = Small!Cells
      /\ p <= SCAN_BLOCKS => v'[p - 1] = Whole(p)
      /\ \A i \in Small!Cells : i # p - 1 => v'[i] = v[i]
  <2>1. p <= SCAN_BLOCKS => p - 1 \in Small!Cells
    BY <1>0, MultipleBounds
  <2> QED
    BY <1>6, <1>7, <2>1 DEF Common
<1>9. \A i \in Nat : i <= SCAN_BLOCKS /\ i >= 1 /\ i # p => v'[i - 1] = v[i - 1]
  <2> TAKE i \in Nat
  <2> HAVE i <= SCAN_BLOCKS /\ i >= 1 /\ i # p
  <2>1. i - 1 \in Small!Cells /\ i - 1 # p - 1
    BY <1>0
  <2> QED
    BY <1>8, <2>1
<1>10. Common'
  <2>1. \A i \in Small!Cells : v'[i] = v[i] \/ \E d \in 1 .. i + 1 : v'[i] = Part(i + 1, d)
    <3> TAKE i \in Small!Cells
    <3>1. CASE i # p - 1
      BY <1>8, <3>1
    <3>2. CASE i = p - 1
      <4>1. i + 1 = p /\ p <= SCAN_BLOCKS /\ i + 1 \in 1 .. i + 1
        BY <1>0, <3>2, MultipleBounds
      <4> QED
        BY <1>8, <3>2, <4>1, WholeIsPart
    <3> QED
      BY <3>1, <3>2
  <2> QED
    BY <1>3, <1>4, <1>8, <2>1, CommonStep
<1>11. DownInv(q, c, D)'
  <2>1. Chain(D, c)'
    BY DEF DownInv, Chain
  <2>2. \A d \in D, k \in Nat :
           k * (2 * d) + d <= SCAN_BLOCKS => v'[k * (2 * d) + d - 1] = Part(k * (2 * d) + d, d)
    <3> TAKE d \in D, k \in Nat
    <3> HAVE k * (2 * d) + d <= SCAN_BLOCKS
    <3>1. d \in Nat \ {0}
      OBVIOUS
    <3>2. PICK j \in Nat : c = j * (2 * d)
      BY DEF DownInv, Chain
    <3>3. PICK m \in Nat : p = m * (2 * d)
      <4>1. PICK k1 \in Nat : k1 = l + 1
        BY <1>0
      <4>2. d \in Nat /\ c \in Nat
        BY <1>0, <3>1
      <4>3. \E m \in Nat : k1 * (2 * c) + c = m * (2 * d)
        BY <3>2, <4>2, TwiceDivides
      <4> QED
        BY <4>1, <4>3
    <3>4. PICK i \in Nat : i = k * (2 * d) + d /\ i >= 1 /\ i # p
      BY <3>1, <3>3, OddIsNotEven, MultipleBounds
    <3>5. v[i - 1] = Part(i, d)
      BY <3>4 DEF DownInv, Settled
    <3> QED
      BY <1>9, <3>4, <3>5
  <2>3. c <= SCAN_BLOCKS => v'[c - 1] = Whole(c)
    <3>1. c # p /\ c >= 1
      BY <1>0, MultipleBounds
    <3> QED
      BY <1>0, <1>9, <3>1 DEF DownInv
  <2>4. \A k \in Nat :
           (k + 1) * (2 * c) <= SCAN_BLOCKS => v'[(k + 1) * (2 * c) - 1] = Whole((k + 1) * (2 * c))
    <3> TAKE k \in Nat
    <3> HAVE (k + 1) * (2 * c) <= SCAN_BLOCKS
    <3>1. PICK i \in Nat : i = (k + 1) * (2 * c) /\ i >= 1 /\ i # p
      BY <1>0, OddIsNotEven, MultipleBounds, k + 1 \in Nat, l + 1 \in Nat
    <3>2. v[i - 1] = Whole(i)
      BY <3>1 DEF DownInv
    <3> QED
      BY <1>9, <3>1, <3>2
  <2>5. \A k \in Nat :
          (k + 1) * (2 * c) + c <= SCAN_BLOCKS =>
              v'[(k + 1) * (2 * c) + c - 1] =
                  IF phase'[k] = q THEN Part((k + 1) * (2 * c) + c, c)
                                   ELSE Whole((k + 1) * (2 * c) + c)
    <3> TAKE k \in Nat
    <3> HAVE (k + 1) * (2 * c) + c <= SCAN_BLOCKS
    <3>1. PICK a \in Nat : a = (k + 1) * (2 * c) /\ a >= 1 /\ 2 * (k + 1) <= a
      BY <1>0, MultipleBounds, k + 1 \in Nat
    <3>2. PICK i \in Nat : i = a + c /\ i >= 1 /\ i <= SCAN_BLOCKS
      BY <1>0, <3>1
    <3>3. k \in Small!Items
      BY <1>0, <3>1, <3>2
    <3>4. v[i - 1] = IF phase[k] = q THEN Part(i, c) ELSE Whole(i)
      BY <3>1, <3>2 DEF DownInv
    <3>5. CASE k = l
      <4>1. phase'[k] # q /\ i = p
        BY <1>5, <3>1, <3>2, <3>5
      <4> QED
        BY <1>8, <3>1, <3>2, <4>1
    <3>6. CASE k # l
      <4>1. i # p
        BY <1>0, <3>1, <3>2, <3>6, SameMultiple, k + 1 \in Nat, l + 1 \in Nat
      <4>2. phase'[k] = phase[k] /\ v'[i - 1] = v[i - 1]
        BY <1>5, <1>9, <3>2, <3>3, <3>6, <4>1
      <4> QED
        BY <3>1, <3>2, <3>4, <4>2
    <3> QED
      BY <3>5, <3>6
  <2>6. \A m \in Small!Items :
          \/ At(m, q, "down", c)'
          \/ c > 1 /\ At(m, q + 1, "down", c \div 2)'
          \/ c = 1 /\ At(m, q + 1, "write", 0)'
    <3> TAKE m \in Small!Items
    <3>1. CASE m = l
      BY <1>0, <1>2, <1>5, <3>1 DEF At
    <3>2. CASE m # l
      BY <1>5, <3>2 DEF DownInv, At
    <3> QED
      BY <3>1, <3>2
  <2>7. Settled(D)'
    BY <1>4, <2>2, PartRigid DEF Settled
  <2> QED
    BY <1>4, <2>1, <2>3, <2>4, <2>5, <2>6, <2>7, PartRigid DEF DownInv
<1> QED
  BY <1>10, <1>11

LEMMA WriteStep ==
    ASSUME Small!Supported, Common, NEW q \in Nat, WriteInv(q),
           NEW l \in Small!Items, phase[l] = q, Small!Writeback(l)
    PROVE  Common' /\ WriteInv(q)'
<1> PICK W \in Nat \ {0} : W = Small!wgs
  BY SmallSizes DEF Common
<1>0. /\ Small!Items = 0 .. W - 1 /\ Small!Cells = 0 .. 2 * W - 1 /\ SCAN_BLOCKS = 2 * W
      /\ l \in Nat /\ l < W
  BY SmallSizes DEF Common
<1>1. Small!Run(l, "end", 0) /\ 0 \in 0 .. W /\ v' = v
  BY DEF Small!Writeback
<1>2. /\ SCAN_BLOCKS' = SCAN_BLOCKS /\ Small!wgs' = Small!wgs
      /\ Small!Cells' = Small!Cells /\ Small!Items' = Small!Items
      /\ pc' \in [Small!Items -> {"load", "up", "down", "write", "end"}]
      /\ scale' \in [Small!Items -> 0 .. Small!wgs]
      /\ phase' \in [Small!Items -> Nat]
  BY <1>1, RunStep
<1>3. /\ phase'[l] = q + 1 /\ pc'[l] = "end" /\ scale'[l] = 0
      /\ \A m \in Small!Items :
            m # l => phase'[m] = phase[m] /\ pc'[m] = pc[m] /\ scale'[m] = scale[m]
  BY <1>1, RunStep
<1>4. l \in Small!Cells /\ l + W \in Small!Cells /\ l # l + W
  BY <1>0
<1>5. inout' = [inout EXCEPT ![l] = Whole(l + 1), ![l + W] = Whole(l + W + 1)]
  BY <1>4 DEF Small!Writeback, WriteInv
<1>6. /\ DOMAIN inout' = Small!Cells
      /\ inout'[l] = Whole(l + 1) /\ inout'[l + W] = Whole(l + W + 1)
      /\ \A i \in Small!Cells : i # l /\ i # l + W => inout'[i] = inout[i]
  BY <1>4, <1>5 DEF Common
<1>7. Common'
  <2>1. \A a : Small!Unit(a)' = Small!Unit(a)
    BY DEF Small!Unit, Small!SetToBag
  <2>2. Small!Uninitialised' = Small!Uninitialised
    BY DEF Small!Uninitialised, Small!Unit, Small!SetToBag
  <2>3. \A i \in Small!Cells : IsPart(v[i], i + 1)'
    BY <1>1, <2>2, PartRigid DEF Common, IsPart
  <2>4. \A i \in Small!Cells : (inout[i] = Small!Unit(i) \/ inout[i] = Whole(i + 1))'
    BY <1>6, <2>1, PartRigid DEF Common
  <2> QED
    BY <1>1, <1>2, <1>6, <2>3, <2>4 DEF Common
<1>8. WriteInv(q)'
  <2>1. \A i \in Small!Cells : (v[i] = Whole(i + 1))'
    BY <1>1, PartRigid DEF WriteInv
  <2>2. \A m \in Small!Items :
           \/ At(m, q, "write", 0)'
           \/ /\ At(m, q + 1, "end", 0)'
              /\ inout'[m] = Whole(m + 1)
              /\ inout'[m + W] = Whole(m + W + 1)
    <3> TAKE m \in Small!Items
    <3>1. CASE m = l
      BY <1>3, <1>6, <3>1 DEF At
    <3>2. CASE m # l
      <4>1. inout'[m] = inout[m] /\ inout'[m + W] = inout[m + W]
        <5>1. /\ m \in Small!Cells /\ m + W \in Small!Cells
              /\ m # l + W /\ m + W # l /\ m + W # l + W
          BY <1>0, <3>2
        <5> QED
          BY <1>6, <3>2, <5>1
      <4> QED
        BY <1>3, <3>2, <4>1 DEF At, WriteInv
    <3> QED
      BY <3>1, <3>2
  <2> QED
    BY <1>2, <2>1, <2>2, PartRigid DEF WriteInv
<1> QED
  BY <1>7, <1>8

\* Once every work-item has reached a barrier, the next segment starts.
LEMMA LoadShift ==
    ASSUME Small!Supported, Common, NEW q \in Nat, LoadInv(q),
           \A m \in Small!Items : phase[m] # q
    PROVE  1 \in 1 .. Small!wgs /\ {} \in SUBSET (1 .. 1 - 1) /\ UpInv(q + 1, 1, {})
<1> PICK W \in Nat \ {0} : W = Small!wgs
  BY SmallSizes DEF Common
<1>0. /\ Small!Items = 0 .. W - 1 /\ SCAN_BLOCKS = 2 * W
  BY SmallSizes DEF Common
<1>1. \A m \in Small!Items : /\ At(m, q + 1, "up", 1)
                             /\ v[m] = Part(m + 1, 1) /\ v[m + W] = Part(m + W + 1, 1)
  BY DEF LoadInv, At
<1>2. \A i \in Nat : i >= 1 /\ i <= SCAN_BLOCKS => v[i - 1] = Part(i, 1)
  <2> TAKE i \in Nat
  <2> HAVE i >= 1 /\ i <= SCAN_BLOCKS
  <2>1. CASE i <= W
    <3>1. i - 1 \in Small!Items /\ i - 1 + 1 = i
      BY <1>0, <2>1
    <3>2. v[i - 1] = Part(i - 1 + 1, 1)
      BY <1>1, <3>1
    <3> QED
      BY <3>1, <3>2
  <2>2. CASE i > W
    <3>1. PICK m \in Small!Items : m = i - 1 - W
      BY <1>0, <2>2
    <3>2. m + W = i - 1 /\ m + W + 1 = i
      BY <1>0, <3>1
    <3>3. v[m + W] = Part(m + W + 1, 1)
      BY <1>1
    <3> QED
      BY <3>2, <3>3
  <2> QED
    BY <2>1, <2>2
<1>3. Chain({}, 1) /\ Settled({})
  BY DEF Chain, Settled
<1>4. \A k \in Nat :
        k * (2 * 1) + 1 <= SCAN_BLOCKS => v[k * (2 * 1) + 1 - 1] = Part(k * (2 * 1) + 1, 1)
  <2> TAKE k \in Nat
  <2> HAVE k * (2 * 1) + 1 <= SCAN_BLOCKS
  <2>1. PICK i \in Nat : i = k * (2 * 1) + 1 /\ i >= 1
    OBVIOUS
  <2> QED
    BY <1>2, <2>1
<1>5. \A k \in Nat :
        (k + 1) * (2 * 1) <= SCAN_BLOCKS =>
            v[(k + 1) * (2 * 1) - 1] =
                Part((k + 1) * (2 * 1), IF phase[k] = q + 1 THEN 1 ELSE 2 * 1)
  <2> TAKE k \in Nat
  <2> HAVE (k + 1) * (2 * 1) <= SCAN_BLOCKS
  <2>1. PICK i \in Nat : i = (k + 1) * (2 * 1) /\ i >= 1
    OBVIOUS
  <2>2. k \in Small!Items
    BY <1>0
  <2>3. phase[k] = q + 1
    BY <1>1, <2>2 DEF At
  <2> QED
    BY <1>2, <2>1, <2>3
<1>6. UpInv(q + 1, 1, {})
  BY <1>1, <1>3, <1>4, <1>5 DEF UpInv
<1> QED
  BY <1>6

LEMMA UpShift ==
    ASSUME Small!Supported, Common, NEW q \in Nat, NEW c \in 1 .. Small!wgs,
           NEW D \in SUBSET (1 .. c - 1), UpInv(q, c, D),
           \A m \in Small!Items : phase[m] # q
    PROVE  \/ /\ 2 * c \in 1 .. Small!wgs /\ D \cup {c} \in SUBSET (1 .. 2 * c - 1)
              /\ UpInv(q + 1, 2 * c, D \cup {c})
           \/ DownInv(q + 1, c, D)
<1> PICK W \in Nat \ {0} : W = Small!wgs
  BY SmallSizes DEF Common
<1>0. /\ Small!Items = 0 .. W - 1 /\ SCAN_BLOCKS = 2 * W
      /\ c \in Nat \ {0} /\ c <= W
  BY SmallSizes DEF Common
<1>1. \A k \in Nat : (k + 1) * (2 * c) <= SCAN_BLOCKS => k \in Small!Items /\ phase[k] # q
  <2> TAKE k \in Nat
  <2> HAVE (k + 1) * (2 * c) <= SCAN_BLOCKS
  <2>1. 2 * (k + 1) <= (k + 1) * (2 * c) /\ (k + 1) * (2 * c) \in Nat
    BY <1>0, MultipleBounds, k + 1 \in Nat
  <2>2. k \in Small!Items
    BY <1>0, <2>1
  <2> QED
    BY <2>2
<1>2. \A k \in Nat :
         (k + 1) * (2 * c) <= SCAN_BLOCKS =>
             v[(k + 1) * (2 * c) - 1] = Part((k + 1) * (2 * c), 2 * c)
  BY <1>1 DEF UpInv
<1>3. \A k \in Nat :
         k * (2 * c) + c <= SCAN_BLOCKS => v[k * (2 * c) + c - 1] = Part(k * (2 * c) + c, c)
  BY DEF UpInv
<1>4. Chain(D, c) /\ Settled(D)
  BY DEF UpInv
<1>5. CASE 2 * c <= W
  <2> PICK e \in Nat \ {0} : e = 2 * c
    BY <1>0
  <2>1. e \in 1 .. Small!wgs /\ D \cup {c} \in SUBSET (1 .. e - 1)
    BY <1>0, <1>5
  <2>2. \A m \in Small!Items : At(m, q + 1, "up", e)
    BY <1>0, <1>5 DEF UpInv, At
  <2>3. Chain(D \cup {c}, e)
    <3>1. ASSUME NEW d \in D \cup {c} PROVE \E j \in Nat : e = j * (2 * d)
      <4>1. CASE d = c
        BY <1>0, <4>1, e = 1 * (2 * c)
      <4>2. CASE d \in D
        <5>1. PICK j \in Nat : c = j * (2 * d)
          BY <1>4, <4>2 DEF Chain
        <5>2. e = (2 * j) * (2 * d) /\ 2 * j \in Nat
          BY <5>1, <4>2
        <5> QED
          BY <5>2
      <4> QED
        BY <4>1, <4>2
    <3>2. ASSUME NEW d \in D \cup {c}, NEW f \in D \cup {c}, d < f
          PROVE  \E j \in Nat : f = j * (2 * d)
      <4>1. d \in D
        BY <1>0, <3>2
      <4> QED
        BY <1>4, <3>2, <4>1 DEF Chain
    <3>3. \A f \in (D \cup {c}) \cup {e} : f = 1 \/ \E h \in D \cup {c} : f = 2 * h
      BY <1>4 DEF Chain
    <3> QED
      BY <3>1, <3>2, <3>3 DEF Chain
  <2>4. Settled(D \cup {c})
    BY <1>3, <1>4 DEF Settled
  <2>5. \A k \in Nat :
           k * (2 * e) + e <= SCAN_BLOCKS => v[k * (2 * e) + e - 1] = Part(k * (2 * e) + e, e)
    <3> TAKE k \in Nat
    <3> HAVE k * (2 * e) + e <= SCAN_BLOCKS
    <3>1. PICK j \in Nat : j = 2 * k
      OBVIOUS
    <3>2. (j + 1) * (2 * c) = k * (2 * e) + e
      BY <1>0, <3>1
    <3> QED
      BY <1>2, <3>2
  <2>6. \A k \in Nat :
           (k + 1) * (2 * e) <= SCAN_BLOCKS =>
               v[(k + 1) * (2 * e) - 1] =
                   Part((k + 1) * (2 * e), IF phase[k] = q + 1 THEN e ELSE 2 * e)
    <3> TAKE k \in Nat
    <3> HAVE (k + 1) * (2 * e) <= SCAN_BLOCKS
    <3>1. PICK j \in Nat : j = 2 * k + 1
      OBVIOUS
    <3>2. (j + 1) * (2 * c) = (k + 1) * (2 * e)
      BY <1>0, <3>1
    <3>3. 2 * (k + 1) <= (k + 1) * (2 * e) /\ (k + 1) * (2 * e) \in Nat
      BY MultipleBounds, k + 1 \in Nat
    <3>4. k \in Small!Items
      BY <1>0, <3>3
    <3>5. phase[k] = q + 1
      BY <2>2, <3>4 DEF At
    <3> QED
      BY <1>2, <3>2, <3>5
  <2>7. UpInv(q + 1, e, D \cup {c})
    BY <2>2, <2>3, <2>4, <2>5, <2>6 DEF UpInv
  <2> QED
    BY <2>1, <2>7
<1>6. CASE ~(2 * c <= W)
  <2>1. \A m \in Small!Items : At(m, q + 1, "down", c)
    BY <1>0, <1>6 DEF UpInv, At
  <2>2. c <= SCAN_BLOCKS => v[c - 1] = Whole(c)
    <3>1. 0 \in Nat /\ 0 * (2 * c) + c = c
      BY <1>0
    <3>2. v[c - 1] = Part(c, c)
      <4>1. 0 * (2 * c) + c <= SCAN_BLOCKS
        BY <1>0, <3>1
      <4>2. v[0 * (2 * c) + c - 1] = Part(0 * (2 * c) + c, c)
        BY <1>3, <4>1
      <4> QED
        BY <3>1, <4>2
    <3> QED
      BY <1>0, <3>2, WholeIsPart
  <2>3. \A k \in Nat :
          (k + 1) * (2 * c) <= SCAN_BLOCKS => v[(k + 1) * (2 * c) - 1] = Whole((k + 1) * (2 * c))
    <3> TAKE k \in Nat
    <3> HAVE (k + 1) * (2 * c) <= SCAN_BLOCKS
    <3>1. k = 0
      <4> SUFFICES ASSUME k # 0 PROVE FALSE
        OBVIOUS
      <4>1. PICK j \in Nat : k = 1 + j
        BY k - 1 \in Nat
      <4>2. (k + 1) * (2 * c) = 4 * c + j * (2 * c) /\ j * (2 * c) \in Nat
        BY <1>0, <4>1
      <4> QED
        BY <1>0, <1>6, <4>2
    <3>2. (k + 1) * (2 * c) = 2 * c /\ 2 * c \in Nat
      BY <1>0, <3>1
    <3>3. v[2 * c - 1] = Part(2 * c, 2 * c)
      BY <1>2, <3>2
    <3> QED
      BY <3>2, <3>3, WholeIsPart
  <2>4. \A k \in Nat :
          (k + 1) * (2 * c) + c <= SCAN_BLOCKS =>
              v[(k + 1) * (2 * c) + c - 1] =
                  IF phase[k] = q + 1 THEN Part((k + 1) * (2 * c) + c, c)
                                      ELSE Whole((k + 1) * (2 * c) + c)
    <3> TAKE k \in Nat
    <3> HAVE (k + 1) * (2 * c) + c <= SCAN_BLOCKS
    <3>1. PICK j \in Nat : j = k + 1
      OBVIOUS
    <3>2. v[j * (2 * c) + c - 1] = Part(j * (2 * c) + c, c)
      BY <1>3, <3>1
    <3>3. j * (2 * c) <= SCAN_BLOCKS
      BY <1>0, <3>1, MultipleBounds
    <3>4. phase[k] = q + 1
      BY <1>1, <2>1, <3>1, <3>3 DEF At
    <3> QED
      BY <3>1, <3>2, <3>4
  <2>5. DownInv(q + 1, c, D)
    BY <1>4, <2>1, <2>2, <2>3, <2>4 DEF DownInv
  <2> QED
    BY <2>5
<1> QED
  BY <1>5, <1>6

\* In the downsweep the cells at odd multiples of c are whole as well.
LEMMA DownWhole ==
    ASSUME Small!Supported, Common, NEW q \in Nat, NEW c \in 1 .. Small!wgs,
           NEW D \in SUBSET (1 .. c - 1), DownInv(q, c, D),
           \A m \in Small!Items : phase[m] # q, NEW k \in Nat
    PROVE  k * (2 * c) + c <= SCAN_BLOCKS => v[k * (2 * c) + c - 1] = Whole(k * (2 * c) + c)
<1> PICK W \in Nat \ {0} : W = Small!wgs
  BY SmallSizes DEF Common
<1>0. /\ Small!Items = 0 .. W - 1 /\ SCAN_BLOCKS = 2 * W
      /\ c \in Nat \ {0} /\ c <= W
  BY SmallSizes DEF Common
<1> HAVE k * (2 * c) + c <= SCAN_BLOCKS
<1>1. CASE k = 0
  <2>1. k * (2 * c) + c = c /\ c <= SCAN_BLOCKS
    BY <1>0, <1>1
  <2> QED
    BY <2>1 DEF DownInv
<1>2. CASE k # 0
  <2>1. PICK j \in Nat : k = j + 1
    BY <1>2, k - 1 \in Nat
  <2>2. 2 * k <= k * (2 * c) /\ k * (2 * c) \in Nat
    BY <1>0, MultipleBounds
  <2>3. j \in Small!Items
    BY <1>0, <2>1, <2>2
  <2>4. v[(j + 1) * (2 * c) + c - 1] = Whole((j + 1) * (2 * c) + c)
    BY <2>1, <2>3 DEF DownInv
  <2> QED
    BY <2>1, <2>4
<1> QED
  BY <1>1, <1>2

LEMMA DownShift ==
    ASSUME Small!Supported, Common, NEW q \in Nat, NEW c \in 1 .. Small!wgs,
           NEW D \in SUBSET (1 .. c - 1), DownInv(q, c, D),
           \A m \in Small!Items : phase[m] # q
    PROVE  \/ \E h \in 1 .. Small!wgs : \E E \in SUBSET (1 .. h - 1) : DownInv(q + 1, h, E)
           \/ WriteInv(q + 1)
<1> PICK W \in Nat \ {0} : W = Small!wgs
  BY SmallSizes DEF Common
<1>0. /\ Small!Items = 0 .. W - 1 /\ Small!Cells = 0 .. SCAN_BLOCKS - 1 /\ SCAN_BLOCKS = 2 * W
      /\ c \in Nat \ {0} /\ c <= W
  BY SmallSizes DEF Common
<1>1. \A k \in Nat :
         k * (2 * c) + c <= SCAN_BLOCKS => v[k * (2 * c) + c - 1] = Whole(k * (2 * c) + c)
  BY DownWhole
<1>2. \A k \in Nat :
         (k + 1) * (2 * c) <= SCAN_BLOCKS => v[(k + 1) * (2 * c) - 1] = Whole((k + 1) * (2 * c))
  BY DEF DownInv
<1>3. Chain(D, c) /\ Settled(D)
  BY DEF DownInv
<1>4. CASE c # 1
  <2>1. PICK h \in D : c = 2 * h
    BY <1>3, <1>4 DEF Chain
  <2>2. h \in Nat \ {0} /\ h \in 1 .. Small!wgs /\ c \div 2 = h
    BY <1>0, <2>1
  <2> PICK E \in SUBSET D : E = D \ {h}
    OBVIOUS
  <2>3. E \in SUBSET (1 .. h - 1)
    <3> SUFFICES ASSUME NEW d \in E PROVE d < h
      BY <2>2
    <3>1. d \in D /\ d # h /\ d \in Nat \ {0} /\ d < 2 * h
      BY <1>0, <2>1
    <3>2. ~(h < d)
      <4> SUFFICES ASSUME h < d PROVE FALSE
        OBVIOUS
      <4>1. PICK j \in Nat : d = j * (2 * h)
        BY <1>3, <3>1 DEF Chain
      <4>2. j # 0
        BY <2>2, <3>1, <4>1
      <4>3. PICK i \in Nat : j = 1 + i
        BY <4>2, j - 1 \in Nat
      <4>4. d = 2 * h + i * (2 * h) /\ i * (2 * h) \in Nat
        BY <2>2, <4>1, <4>3
      <4> QED
        BY <2>2, <3>1, <4>4
    <3> QED
      BY <2>2, <3>1, <3>2
  <2>4. Chain(E, h)
    <3>1. \A d \in E : \E j \in Nat : h = j * (2 * d)
      <4> TAKE d \in E
      <4>1. d < h /\ d \in D
        BY <2>2, <2>3
      <4> QED
        BY <1>3, <4>1 DEF Chain
    <3>2. \A d, e \in E : d < e => \E j \in Nat : e = j * (2 * d)
      BY <1>3 DEF Chain
    <3>3. ASSUME NEW e \in E \cup {h} PROVE e = 1 \/ \E g \in E : e = 2 * g
      <4>1. e \in D /\ e # c
        BY <1>0
      <4>2. e = 1 \/ \E g \in D : e = 2 * g
        BY <1>3, <4>1 DEF Chain
      <4>3. ASSUME NEW g \in D, e = 2 * g PROVE g \in E
        BY <2>1, <4>1, <4>3
      <4> QED
        BY <4>2, <4>3
    <3> QED
      BY <3>1, <3>2, <3>3 DEF Chain
  <2>5. Settled(E)
    BY <1>3 DEF Settled
  <2>6. \A m \in Small!Items : At(m, q + 1, "down", h)
    BY <1>0, <1>4, <2>2 DEF DownInv, At
  <2>7. \A k \in Nat :
           k * (2 * h) + h <= SCAN_BLOCKS => v[k * (2 * h) + h - 1] = Part(k * (2 * h) + h, h)
    BY <1>3 DEF Settled
  <2>8. h <= SCAN_BLOCKS => v[h - 1] = Whole(h)
    <3> HAVE h <= SCAN_BLOCKS
    <3>1. 0 * (2 * h) + h = h /\ 0 \in Nat
      BY <2>2
    <3>2. v[0 * (2 * h) + h - 1] = Part(0 * (2 * h) + h, h)
      BY <2>7, <3>1
    <3> QED
      BY <2>2, <3>1, <3>2, WholeIsPart
  <2>9. \A k \in Nat :
           (k + 1) * (2 * h) <= SCAN_BLOCKS => v[(k + 1) * (2 * h) - 1] = Whole((k + 1) * (2 * h))
    <3> TAKE k \in Nat
    <3> HAVE (k + 1) * (2 * h) <= SCAN_BLOCKS
    <3>1. PICK j \in Nat : k + 1 = 2 * j \/ k + 1 = 2 * j + 1
      <4>1. (k + 1) \div 2 \in Nat
            /\ (k + 1 = 2 * ((k + 1) \div 2) \/ k + 1 = 2 * ((k + 1) \div 2) + 1)
        OBVIOUS
      <4> QED
        BY <4>1
    <3>2. (k + 1) * (2 * h) = (k + 1) * c
      BY <2>1
    <3>3. CASE k + 1 = 2 * j + 1
      <4>1. (k + 1) * c = j * (2 * c) + c
        BY <1>0, <3>3
      <4>2. v[j * (2 * c) + c - 1] = Whole(j * (2 * c) + c)
        BY <1>1, <3>2, <4>1
      <4> QED
        BY <3>2, <4>1, <4>2
    <3>4. CASE k + 1 = 2 * j
      <4>1. PICK i \in Nat : j = i + 1
        BY <3>4, j - 1 \in Nat
      <4>2. (k + 1) * c = (i + 1) * (2 * c)
        BY <1>0, <3>4, <4>1
      <4>3. v[(i + 1) * (2 * c) - 1] = Whole((i + 1) * (2 * c))
        BY <1>2, <3>2, <4>2
      <4> QED
        BY <3>2, <4>2, <4>3
    <3> QED
      BY <3>1, <3>3, <3>4
  <2>10. \A k \in Nat :
          (k + 1) * (2 * h) + h <= SCAN_BLOCKS =>
              v[(k + 1) * (2 * h) + h - 1] =
                  IF phase[k] = q + 1 THEN Part((k + 1) * (2 * h) + h, h)
                                      ELSE Whole((k + 1) * (2 * h) + h)
    <3> TAKE k \in Nat
    <3> HAVE (k + 1) * (2 * h) + h <= SCAN_BLOCKS
    <3>1. PICK j \in Nat : j = k + 1
      OBVIOUS
    <3>2. v[j * (2 * h) + h - 1] = Part(j * (2 * h) + h, h)
      BY <2>7, <3>1
    <3>3. 2 * j <= j * (2 * h) /\ j * (2 * h) \in Nat
      BY <2>2, MultipleBounds
    <3>4. k \in Small!Items
      BY <1>0, <2>2, <3>1, <3>3
    <3>5. phase[k] = q + 1
      BY <2>6, <3>4 DEF At
    <3> QED
      BY <3>1, <3>2, <3>5
  <2>11. DownInv(q + 1, h, E)
    BY <2>4, <2>5, <2>6, <2>8, <2>9, <2>10 DEF DownInv
  <2> QED
    BY <2>2, <2>3, <2>11
<1>5. CASE c = 1
  <2>1. \A m \in Small!Items : At(m, q + 1, "write", 0)
    BY <1>5 DEF DownInv, At
  <2>2. \A i \in Small!Cells : v[i] = Whole(i + 1)
    <3> TAKE i \in Small!Cells
    <3>1. PICK j \in Nat : i = 2 * j \/ i = 2 * j + 1
      <4>1. i \div 2 \in Nat /\ (i = 2 * (i \div 2) \/ i = 2 * (i \div 2) + 1)
        BY <1>0
      <4> QED
        BY <4>1
    <3>2. CASE i = 2 * j
      <4>1. j * (2 * c) + c = i + 1 /\ i + 1 <= SCAN_BLOCKS /\ i + 1 - 1 = i
        BY <1>0, <1>5, <3>2
      <4>2. PICK p \in Nat : p = i + 1 /\ p = j * (2 * c) + c
        BY <1>0, <4>1
      <4>3. p <= SCAN_BLOCKS => v[p - 1] = Whole(p)
        BY <1>1, <4>2
      <4>4. p - 1 = i /\ p <= SCAN_BLOCKS
        BY <1>0, <4>1, <4>2
      <4> QED
        BY <4>2, <4>3, <4>4
    <3>3. CASE i = 2 * j + 1
      <4>1. (j + 1) * (2 * c) = i + 1 /\ i + 1 <= SCAN_BLOCKS /\ i + 1 - 1 = i
        BY <1>0, <1>5, <3>3
      <4>2. PICK p \in Nat : p = i + 1 /\ p = (j + 1) * (2 * c)
        BY <1>0, <4>1
      <4>3. p <= SCAN_BLOCKS => v[p - 1] = Whole(p)
        BY <1>2, <4>2
      <4>4. p - 1 = i /\ p <= SCAN_BLOCKS
        BY <1>0, <4>1, <4>2
      <4> QED
        BY <4>2, <4>3, <4>4
    <3> QED
      BY <3>1, <3>2, <3>3
  <2> QED
    BY <2>1, <2>2 DEF WriteInv
<1> QED
  BY <1>4, <1>5

\* A work-item that runs is in the current segment.
LEMMA InSegment ==
    ASSUME Small!Supported, SmallInv, NEW l \in Small!Items, Small!BarrierPassed(l),
           pc[l] # "end"
    PROVE  \/ \E q \in Nat : phase[l] = q /\ (LoadInv(q) \/ WriteInv(q))
           \/ \E q \in Nat, c \in 1 .. Small!wgs : \E D \in SUBSET (1 .. c - 1) :
                 phase[l] = q /\ (UpInv(q, c, D) \/ DownInv(q, c, D))
<1>0. Common
  BY DEF SmallInv
<1>1. ASSUME NEW q \in Nat, phase[l] = q + 1 PROVE \A m \in Small!Items : phase[m] # q
  <2> TAKE m \in Small!Items
  <2>1. phase[m] \in Nat /\ phase[m] >= q + 1
    BY <1>0, <1>1 DEF Common, Small!BarrierPassed
  <2> QED
    BY <2>1
<1>2. CASE \E q \in Nat : LoadInv(q)
  <2>1. PICK q \in Nat : LoadInv(q)
    BY <1>2
  <2>2. phase[l] = q \/ phase[l] = q + 1
    BY <2>1 DEF LoadInv, At
  <2>3. CASE phase[l] = q + 1
    <3>1. 1 \in 1 .. Small!wgs /\ {} \in SUBSET (1 .. 1 - 1) /\ UpInv(q + 1, 1, {})
      BY <1>0, <1>1, <2>1, <2>3, LoadShift
    <3> QED
      BY <2>3, <3>1, q + 1 \in Nat
  <2> QED
    BY <2>1, <2>2, <2>3
<1>3. CASE \E q \in Nat : WriteInv(q)
  <2>1. PICK q \in Nat : WriteInv(q)
    BY <1>3
  <2>2. phase[l] = q
    BY <2>1 DEF WriteInv, At
  <2> QED
    BY <2>1, <2>2
<1>4. CASE \E q \in Nat, c \in 1 .. Small!wgs : \E D \in SUBSET (1 .. c - 1) : UpInv(q, c, D)
  <2>1. PICK q \in Nat, c \in 1 .. Small!wgs : \E D \in SUBSET (1 .. c - 1) : UpInv(q, c, D)
    BY <1>4
  <2>2. PICK D \in SUBSET (1 .. c - 1) : UpInv(q, c, D)
    BY <2>1
  <2>3. phase[l] = q \/ phase[l] = q + 1
    BY <2>2 DEF UpInv, At
  <2>4. CASE phase[l] = q
    BY <2>2, <2>4
  <2>5. CASE phase[l] = q + 1
    <3>1. \/ /\ 2 * c \in 1 .. Small!wgs /\ D \cup {c} \in SUBSET (1 .. 2 * c - 1)
             /\ UpInv(q + 1, 2 * c, D \cup {c})
          \/ DownInv(q + 1, c, D)
      BY <1>0, <1>1, <2>2, <2>5, UpShift
    <3>2. CASE DownInv(q + 1, c, D)
      BY <2>5, <3>2, q + 1 \in Nat
    <3>3. CASE /\ 2 * c \in 1 .. Small!wgs /\ D \cup {c} \in SUBSET (1 .. 2 * c - 1)
               /\ UpInv(q + 1, 2 * c, D \cup {c})
      <4>1. PICK e \in 1 .. Small!wgs : e = 2 * c
        BY <3>3
      <4>2. PICK E \in SUBSET (1 .. e - 1) : E = D \cup {c}
        BY <3>3, <4>1
      <4>3. UpInv(q + 1, e, E)
        BY <3>3, <4>1, <4>2
      <4> QED
        BY <2>5, <4>3, q + 1 \in Nat
    <3> QED
      BY <3>1, <3>2, <3>3
  <2> QED
    BY <2>3, <2>4, <2>5
<1>5. CASE \E q \in Nat, c \in 1 .. Small!wgs : \E D \in SUBSET (1 .. c - 1) : DownInv(q, c, D)
  <2>1. PICK q \in Nat, c \in 1 .. Small!wgs : \E D \in SUBSET (1 .. c - 1) : DownInv(q, c, D)
    BY <1>5
  <2>2. PICK D \in SUBSET (1 .. c - 1) : DownInv(q, c, D)
    BY <2>1
  <2>3. phase[l] = q \/ phase[l] = q + 1
    BY <2>2 DEF DownInv, At
  <2>4. CASE phase[l] = q
    BY <2>2, <2>4
  <2>5. CASE phase[l] = q + 1
    <3>1. \/ \E h \in 1 .. Small!wgs : \E E \in SUBSET (1 .. h - 1) : DownInv(q + 1, h, E)
          \/ WriteInv(q + 1)
      BY <1>0, <1>1, <2>2, <2>5, DownShift
    <3> QED
      BY <2>5, <3>1, q + 1 \in Nat
  <2> QED
    BY <2>3, <2>4, <2>5
<1> QED
  BY <1>2, <1>3, <1>4, <1>5 DEF SmallInv, Sweep

LEMMA SmallStep ==
    ASSUME Small!Supported, SmallInv, NEW l \in Small!Items,
           Small!Load(l) \/ Small!Upsweep(l) \/ Small!Downsweep(l) \/ Small!Writeback(l)
    PROVE  SmallInv'
<1>0. Common
  BY DEF SmallInv
<1>1. Small!BarrierPassed(l) /\ pc[l] # "end" /\ SCAN_BLOCKS' = SCAN_BLOCKS
  BY DEF Small!Load, Small!Upsweep, Small!Downsweep, Small!Writeback, Small!Run
<1>2. Small!wgs' = Small!wgs
  BY <1>1 DEF Small!wgs
<1>3. ASSUME NEW q \in Nat, phase[l] = q, LoadInv(q) PROVE SmallInv'
  <2>1. Small!Load(l)
    BY <1>3 DEF LoadInv, At, Small!Upsweep, Small!Downsweep, Small!Writeback
  <2>2. Common' /\ LoadInv(q)'
    BY <1>0, <1>3, <2>1, LoadStep
  <2> QED
    BY <2>2 DEF SmallInv, Sweep
<1>4. ASSUME NEW q \in Nat, phase[l] = q, WriteInv(q) PROVE SmallInv'
  <2>1. Small!Writeback(l)
    BY <1>4 DEF WriteInv, At, Small!Upsweep, Small!Downsweep, Small!Load
  <2>2. Common' /\ WriteInv(q)'
    BY <1>0, <1>4, <2>1, WriteStep
  <2> QED
    BY <2>2 DEF SmallInv, Sweep
<1>5. ASSUME NEW q \in Nat, NEW c \in 1 .. Small!wgs, NEW D \in SUBSET (1 .. c - 1),
             phase[l] = q, UpInv(q, c, D)
      PROVE  SmallInv'
  <2>1. Small!Upsweep(l)
    BY <1>5 DEF UpInv, At, Small!Load, Small!Downsweep, Small!Writeback
  <2>2. Common' /\ UpInv(q, c, D)'
    BY <1>0, <1>5, <2>1, UpStep
  <2>3. c \in 1 .. Small!wgs'
    BY <1>2
  <2> QED
    BY <2>2, <2>3 DEF SmallInv, Sweep
<1>6. ASSUME NEW q \in Nat, NEW c \in 1 .. Small!wgs, NEW D \in SUBSET (1 .. c - 1),
             phase[l] = q, DownInv(q, c, D)
      PROVE  SmallInv'
  <2>1. Small!Downsweep(l)
    BY <1>6 DEF DownInv, At, Small!Load, Small!Upsweep, Small!Writeback
  <2>2. Common' /\ DownInv(q, c, D)'
    BY <1>0, <1>6, <2>1, DownStep
  <2>3. c \in 1 .. Small!wgs'
    BY <1>2
  <2> QED
    BY <2>2, <2>3 DEF SmallInv, Sweep
<1> QED
  BY <1>1, <1>3, <1>4, <1>5, <1>6, InSegment

LEMMA SmallStutter ==
    ASSUME SmallInv, UNCHANGED Small!vars
    PROVE  SmallInv'
<1>1. UNCHANGED <<SCAN_BLOCKS, inout, v, pc, scale, phase>>
  BY DEF Small!vars
<1>2. /\ Small!wgs' = Small!wgs /\ Small!Cells' = Small!Cells /\ Small!Items' = Small!Items
      /\ Small!Uninitialised' = Small!Uninitialised
      /\ \A a : Small!Unit(a)' = Small!Unit(a)
  BY <1>1 DEF Small!wgs, Small!Cells, Small!Items, Small!Uninitialised, Small!Unit, Small!SetToBag
<1>3. Common'
  BY <1>1, <1>2, PartRigid DEF SmallInv, Common, IsPart
<1>4. \A q : (LoadInv(q) => LoadInv(q)') /\ (WriteInv(q) => WriteInv(q)')
  BY <1>1, <1>2, PartRigid DEF LoadInv, WriteInv, At
<1>5. \A q, c, D : (UpInv(q, c, D) => UpInv(q, c, D)') /\ (DownInv(q, c, D) => DownInv(q, c, D)')
  <2>1. \A c, D : (Chain(D, c) => Chain(D, c)') /\ (Settled(D) => Settled(D)')
    BY <1>1, PartRigid DEF Chain, Settled
  <2> QED
    BY <1>1, <1>2, <2>1, PartRigid DEF UpInv, DownInv, At
<1>6. Sweep'
  BY <1>2, <1>4, <1>5 DEF SmallInv, Sweep
<1> QED
  BY <1>3, <1>6 DEF SmallInv

\* What the invariant says of the result.
LEMMA SmallResult ==
    ASSUME Small!Supported, SmallInv
    PROVE  Small!TypeOK /\ Small!ExclusiveScan
<1> PICK W \in Nat \ {0} : W = Small!wgs
  BY SmallSizes DEF SmallInv, Common
<1>0. /\ Small!Items = 0 .. W - 1 /\ Small!Cells = 0 .. 2 * W - 1 /\ SCAN_BLOCKS = 2 * W
      /\ 0 \in Small!Items /\ Common
  BY SmallSizes DEF SmallInv, Common
<1>1. Small!TypeOK
  <2>1. \A S : (S \subseteq Small!Cells \cup {Small!Offset}) => Small!IsSum(Small!SetToBag(S))
    BY DEF Small!IsSum, Small!SetToBag, Small!BagToSet
  <2>2. \A i \in Small!Cells : Small!IsSum(inout[i])
    <3> TAKE i \in Small!Cells
    <3>1. {i} \subseteq Small!Cells \cup {Small!Offset}
      OBVIOUS
    <3>2. -1 .. (i + 1) - 2 \subseteq Small!Cells \cup {Small!Offset}
      BY <1>0 DEF Small!Offset
    <3>3. Small!Unit(i) = Small!SetToBag({i}) /\ Whole(i + 1) = Small!SetToBag(-1 .. (i + 1) - 2)
      BY DEF Small!Unit, Whole
    <3>4. Small!IsSum(Small!SetToBag({i})) /\ Small!IsSum(Small!SetToBag(-1 .. (i + 1) - 2))
      BY <2>1, <3>1, <3>2
    <3> QED
      BY <1>0, <3>3, <3>4 DEF Common
  <2>3. \A i \in Small!Cells : v[i] = Small!Uninitialised \/ Small!IsSum(v[i])
    <3> TAKE i \in Small!Cells
    <3>1. ASSUME NEW d \in 1 .. i + 1 PROVE Small!IsSum(Part(i + 1, d))
      <4>1. (i + 1) - d - 1 .. (i + 1) - 2 \subseteq Small!Cells \cup {Small!Offset}
        BY <1>0 DEF Small!Offset
      <4>2. Small!IsSum(Small!SetToBag((i + 1) - d - 1 .. (i + 1) - 2))
        BY <2>1, <4>1
      <4> QED
        BY <4>2 DEF Part
    <3> QED
      BY <1>0, <3>1 DEF Common, IsPart
  <2> QED
    BY <1>0, <2>2, <2>3 DEF Common, Small!TypeOK
<1>2. ASSUME Small!Finished, NEW i \in Small!Cells
      PROVE  inout[i] = Small!SetToBag(0 .. i - 1 \union {Small!Offset})
  <2>1. pc[0] = "end"
    BY <1>0, <1>2 DEF Small!Finished
  <2>2. ~\E q \in Nat : LoadInv(q)
    BY <1>0, <2>1 DEF LoadInv, At
  <2>3. ~\E q \in Nat, c \in 1 .. Small!wgs : \E D \in SUBSET (1 .. c - 1) :
           UpInv(q, c, D) \/ DownInv(q, c, D)
    BY <1>0, <2>1 DEF UpInv, DownInv, At
  <2>4. PICK q \in Nat : WriteInv(q)
    BY <2>2, <2>3 DEF SmallInv, Sweep
  <2>5. \A l \in Small!Items : inout[l] = Whole(l + 1) /\ inout[l + W] = Whole(l + W + 1)
    BY <1>2, <2>4 DEF WriteInv, At, Small!Finished
  <2>6. inout[i] = Whole(i + 1)
    <3>1. CASE i < W
      <4>1. i \in Small!Items
        BY <1>0, <3>1
      <4> QED
        BY <2>5, <4>1
    <3>2. CASE ~(i < W)
      <4>1. PICK l \in Small!Items : l = i - W
        BY <1>0, <3>2
      <4>2. l + W = i
        BY <1>0, <4>1
      <4> QED
        BY <2>5, <4>2
    <3> QED
      BY <3>1, <3>2
  <2>7. -1 .. (i + 1) - 2 = 0 .. i - 1 \union {Small!Offset}
    BY <1>0 DEF Small!Offset
  <2>8. Whole(i + 1) = Small!SetToBag(-1 .. (i + 1) - 2)
    BY DEF Whole
  <2> QED
    BY <2>6, <2>7, <2>8
<1> QED
  BY <1>1, <1>2 DEF Small!ExclusiveScan

-----------------------------------------------------------------------------
(* The kernel reduce of scan.cl leaves the sum of its block, for every     *)
(* power of two as the work-group size, every length and every order in    *)
(* which work-items run between barriers.                                  *)
THEOREM ReduceBlockSummed ==
    ASSUME Summed!Supported
    PROVE  KernelSpec => []BlockSummed
<1> DEFINE Inv == kernel = "reduce" => SumInv
<1>1. KernelInit => Inv
  BY SumInit DEF KernelInit
<1>2. Inv /\ [KernelNext]_kernelVars => Inv'
  <2> SUFFICES ASSUME Inv, [KernelNext]_kernelVars, kernel' = "reduce" PROVE SumInv'
    OBVIOUS
  <2>1. kernel = "reduce" /\ SumInv
    BY DEF KernelNext, kernelVars
  <2>2. [Summed!Next]_(Summed!vars)
    BY <2>1 DEF KernelNext, kernelVars, ofReduce, Summed!vars
  <2> QED
    BY <2>1, <2>2, SumStep
<1>3. Inv => BlockSummed
  BY SumResult DEF BlockSummed
<1> QED
  BY <1>1, <1>2, <1>3, PTL DEF KernelSpec

(* scan.cl:219: the kernels scanExclusiveSmall and scanExclusiveSmallOffset *)
(* leave the exclusive prefix sums plus the offset, for every even          *)
(* SCAN_BLOCKS and every order of the work-items between the barriers.      *)
THEOREM SmallScansExclusively ==
    ASSUME Small!Supported
    PROVE  KernelSpec => []ExclusiveScan
<1> DEFINE Inv == kernel = "scanExclusiveSmall" => SmallInv
<1>1. KernelInit => Inv
  BY SmallInit DEF KernelInit
<1>2. Inv /\ [KernelNext]_kernelVars => Inv'
  <2> SUFFICES ASSUME Inv, [KernelNext]_kernelVars, kernel' = "scanExclusiveSmall" PROVE SmallInv'
    OBVIOUS
  <2>1. kernel = "scanExclusiveSmall" /\ SmallInv
    BY DEF KernelNext, kernelVars
  <2>2. Small!Next \/ UNCHANGED Small!vars
    BY <2>1 DEF KernelNext, kernelVars, ofSmall, Small!vars
  <2> QED
    BY <2>1, <2>2, SmallStep, SmallStutter DEF Small!Next, Small!Terminated
<1>3. Inv => ExclusiveScan
  BY SmallResult DEF ExclusiveScan
<1> QED
  BY <1>1, <1>2, <1>3, PTL DEF KernelSpec

=============================================================================
