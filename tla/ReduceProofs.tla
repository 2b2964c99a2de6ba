---------------------------- MODULE ReduceProofs ----------------------------
(***************************************************************************)
(* The reduce kernel is correct for every number of blocks, work-group     *)
(* size, set of requests and number of launches.                           *)
(*                                                                         *)
(* Reduce is correct for every set of calls, every number of calls and     *)
(* failures and every queue.  The host and its queue are shown to run the  *)
(* kernel as ReduceKernel expects, which gives them all that is proved of  *)
(* the kernel, and to hand each caller the result of his own call.         *)
(***************************************************************************)
EXTENDS Reduce, UtilsProofs, FiniteSetTheorems

-----------------------------------------------------------------------------
(* The kernel.                                                             *)
USE BlocksAssumption, WGSAssumption, UintAssumption, MaxLaunchesAssumption,
    RequestsAssumption

USE DEF Groups

(* Only StorePartial to WriteOut and the launch change what an unchanged   *)
(* launch and request determine.                                           *)
LEMMA BlockSumUnchanged ==
    ASSUME UNCHANGED <<launch, request>>
    PROVE  /\ \A g \in Groups : BlockSum(g)' = BlockSum(g)
           /\ Total(BlockSums)' = Total(BlockSums)
<1>1. \A g \in Groups : BlockSum(g)' = BlockSum(g)
  BY DEF BlockSum, First, Last, startArg, elementsArg, blockSizeArg, blockSize
<1>2. BlockSums' = BlockSums
  BY <1>1 DEF BlockSums
<1> QED
  BY <1>1, <1>2 DEF Total

LEMMA GroupsFinite == IsFiniteSet(Groups) /\ Cardinality(Groups) = Blocks
  BY FS_Interval, 0 \in Int, Blocks - 1 \in Int

RequestType == [first : Nat, elements : Nat \ {0}, out : OutCells]

(* The block size is a positive multiple of the work-group size, and the   *)
(* blocks cover the requested elements.                                    *)
LEMMA BlockSizeFacts ==
    ASSUME request \in RequestType
    PROVE  /\ blockSize \in Nat \ {0}
           /\ request.elements <= Blocks * blockSize
<1> DEFINE n == request.elements
<1>1. n \in Nat \ {0}
  BY DEF RequestType
<1> HIDE DEF n
<1>2. WGS \in Nat \ {0} /\ Blocks \in Nat \ {0}
  OBVIOUS
<1>3. /\ roundUp(n, WGS * Blocks) \div Blocks \in Nat \ {0}
      /\ n <= Blocks * (roundUp(n, WGS * Blocks) \div Blocks)
  BY ONLY <1>1, <1>2, EvenBlocks, Zenon
<1> QED
  BY <1>3 DEF n, blockSize

(* The pairs in BlockSum are elements.                                     *)
LEMMA BlockSumType ==
    ASSUME TypeOK, NEW g \in Groups
    PROVE  BlockSum(g) \subseteq Element
<1>1. launch \in Nat /\ request \in RequestType
  BY DEF TypeOK, RequestType
<1>2. blockSize \in Nat
  BY <1>1, BlockSizeFacts
<1>3. startArg \in Nat /\ blockSizeArg \in Nat
  BY <1>1, <1>2 DEF startArg, blockSizeArg, RequestType
<1>4. g * blockSizeArg \in Nat
  BY <1>3
<1>5. First(g) \in Nat
  BY <1>4 DEF First
<1> QED
  BY <1>1, <1>3, <1>5 DEF BlockSum, Element

LEMMA InitIInv == Init => IInv
<1> SUFFICES ASSUME Init PROVE IInv
  OBVIOUS
<1>1. TypeOK
  <2>1. {Garbage} \subseteq Element
    BY DEF Garbage, Element
  <2>2. launch \in 0 .. MaxLaunches /\ wgc \in 0 .. Blocks
    BY DEF Init
  <2>3. gpc \in [Groups ->
            {"range", "fence", "final", "reset", "write", "end", "exit"}]
    BY DEF Init
  <2> QED
    BY <2>1, <2>2, <2>3 DEF Init, TypeOK
<1> QED
  BY <1>1 DEF Init, IInv, Phases, Visibility, Counter, Counting, LastIsLast,
              ExactlyOneLastGroup, LastGroups, NotCounted, Results

(***************************************************************************)
(* Every step preserves the invariant: one lemma per action.               *)
(***************************************************************************)
LEMMA LaunchIInv ==
    ASSUME IInv, NEW r \in Requests, Launch(r)
    PROVE  IInv'
<1> USE DEF Launch
<1>1. TypeOK'
  BY DEF IInv, TypeOK
<1>2. NotCounted' = Groups
  BY DEF NotCounted
<1>3. LastGroups' = {} /\ 0 \in Groups
  BY DEF LastGroups
<1>4. wgc = Blocks
  BY DEF IInv, Phases, Counter, Counting, ExactlyOneLastGroup, LastGroups,
         NotCounted
<1>5. Counter'
  BY <1>2, <1>4, GroupsFinite DEF Counter, Counting
<1>6. Phases'
  BY DEF IInv, TypeOK, Phases
<1>7. pending = {}
  BY DEF IInv, TypeOK, Phases, Visibility
<1>8. Visibility' /\ Results'
  BY <1>7 DEF Visibility, Results
<1>9. LastIsLast' /\ ExactlyOneLastGroup'
  BY <1>2, <1>3 DEF LastIsLast, ExactlyOneLastGroup
<1> QED
  BY <1>1, <1>5, <1>6, <1>8, <1>9 DEF IInv

LEMMA StorePartialIInv ==
    ASSUME IInv, NEW g \in Groups, StorePartial(g)
    PROVE  IInv'
<1> USE DEF StorePartial
<1>1. TypeOK'
  BY DEF IInv, TypeOK
<1>2. NotCounted' = NotCounted /\ LastGroups' = LastGroups
  BY DEF IInv, TypeOK, NotCounted, LastGroups
<1>3. Phases'
  BY DEF IInv, TypeOK, Phases
<1>4. Visibility'
  BY BlockSumUnchanged DEF IInv, TypeOK, Visibility
<1>5. Counter'
  BY <1>2 DEF IInv, TypeOK, Counter, Counting
<1>6. LastIsLast' /\ ExactlyOneLastGroup'
  BY <1>2 DEF IInv, LastIsLast, ExactlyOneLastGroup
<1>7. Results'
  BY BlockSumUnchanged DEF IInv, TypeOK, Results
<1> QED
  BY <1>1, <1>3, <1>4, <1>5, <1>6, <1>7 DEF IInv

LEMMA FlushIInv ==
    ASSUME IInv, NEW g \in Groups, Flush(g)
    PROVE  IInv'
<1> USE DEF Flush
<1>1. TypeOK'
  BY BlockSumType DEF IInv, TypeOK
<1>2. NotCounted' = NotCounted /\ LastGroups' = LastGroups
  BY DEF NotCounted, LastGroups
<1>3. Phases'
  BY DEF IInv, Phases
<1>4. Visibility'
  BY BlockSumUnchanged DEF IInv, TypeOK, Visibility
<1>5. Counter'
  BY <1>2 DEF IInv, Counter, Counting
<1>6. LastIsLast' /\ ExactlyOneLastGroup'
  BY <1>2 DEF IInv, LastIsLast, ExactlyOneLastGroup
<1>7. Results'
  BY BlockSumUnchanged DEF IInv, TypeOK, Results
<1> QED
  BY <1>1, <1>3, <1>4, <1>5, <1>6, <1>7 DEF IInv

(* The heart of the matter: the decrement that finds 1 is the last one.    *)
LEMMA DecrementCounterIInv ==
    ASSUME IInv, NEW g \in Groups, DecrementCounter(g)
    PROVE  IInv'
<1> USE DEF DecrementCounter
<1>1. /\ g \in NotCounted
      /\ NotCounted' = NotCounted \ {g}
  BY DEF IInv, TypeOK, NotCounted
<1>2. LastGroups = {} /\ Counting
  BY <1>1 DEF IInv, LastIsLast, Counting, LastGroups, NotCounted, Phases, TypeOK
<1>3. wgc = Cardinality(NotCounted)
  BY <1>2 DEF IInv, Counter
<1>4. IsFiniteSet(NotCounted) /\ Cardinality(NotCounted) \in Nat
  <2>1. NotCounted \in SUBSET Groups
    BY DEF NotCounted
  <2> QED
    BY <2>1, GroupsFinite, FS_Subset, FS_CardinalityType
<1>5. /\ IsFiniteSet(NotCounted')
      /\ Cardinality(NotCounted') = Cardinality(NotCounted) - 1
      /\ Cardinality(NotCounted') \in Nat
  BY <1>1, <1>4, FS_RemoveElement, FS_CardinalityType
<1>6. wgc = 1 <=> NotCounted' = {}
  BY <1>3, <1>4, <1>5, FS_EmptySet
<1>7. LastGroups' = IF wgc = 1 THEN {g} ELSE {}
  BY <1>2 DEF IInv, TypeOK, LastGroups
<1>8. wgc' = Cardinality(NotCounted')
  BY <1>3, <1>5
<1>9. TypeOK'
  BY <1>5, <1>8 DEF IInv, TypeOK
<1>10. Phases'
  BY <1>2 DEF IInv, TypeOK, Phases, Counting
<1>11. Visibility'
  BY BlockSumUnchanged DEF IInv, TypeOK, Visibility
<1>12. Counting'
  BY <1>2 DEF IInv, TypeOK, Counting
<1>13. Counter'
  BY <1>8, <1>12 DEF Counter
<1>14. LastIsLast' /\ ExactlyOneLastGroup'
  BY <1>6, <1>7 DEF LastIsLast, ExactlyOneLastGroup
<1>15. Results'
  BY <1>2, BlockSumUnchanged DEF IInv, TypeOK, Results, Counting, LastGroups
<1> QED
  BY <1>9, <1>10, <1>11, <1>13, <1>14, <1>15 DEF IInv

(* The group that finds done set adds up the block sums of this launch.    *)
LEMMA ReducePartialsIInv ==
    ASSUME IInv, NEW g \in Groups, ReducePartials(g)
    PROVE  IInv'
<1> USE DEF ReducePartials
<1>1. TypeOK'
  BY DEF IInv, TypeOK
<1>2. NotCounted' = NotCounted /\ LastGroups' = LastGroups
  BY DEF IInv, TypeOK, NotCounted, LastGroups
<1>3. g \in LastGroups /\ LastGroups = {g} /\ NotCounted = {} /\ launch > 0
  BY DEF IInv, LastGroups, ExactlyOneLastGroup, LastIsLast, Phases, TypeOK
<1>4. \A h \in Groups : partial[h] = BlockSum(h)
  BY <1>3 DEF IInv, Visibility, NotCounted, TypeOK
<1>5. Total(partial) = Total(BlockSums)
  BY <1>4 DEF Total, BlockSums
<1>6. acc' = Total(BlockSums)'
  BY <1>5, BlockSumUnchanged
<1>7. Phases'
  BY DEF IInv, TypeOK, Phases
<1>8. Visibility'
  BY BlockSumUnchanged DEF IInv, TypeOK, Visibility
<1>9. Counter'
  BY <1>2 DEF IInv, TypeOK, Counter, Counting
<1>10. LastIsLast' /\ ExactlyOneLastGroup'
  BY <1>2 DEF IInv, LastIsLast, ExactlyOneLastGroup
<1>11. Results'
  BY <1>3, <1>6 DEF IInv, TypeOK, Results, LastGroups
<1> QED
  BY <1>1, <1>7, <1>8, <1>9, <1>10, <1>11 DEF IInv

LEMMA ResetCounterIInv ==
    ASSUME IInv, NEW g \in Groups, ResetCounter(g)
    PROVE  IInv'
<1> USE DEF ResetCounter
<1>1. TypeOK'
  BY DEF IInv, TypeOK
<1>2. NotCounted' = NotCounted /\ LastGroups' = LastGroups
  BY DEF IInv, TypeOK, NotCounted, LastGroups
<1>3. Phases'
  BY DEF IInv, TypeOK, Phases
<1>4. Visibility'
  BY BlockSumUnchanged DEF IInv, TypeOK, Visibility
<1>5. Counter'
  BY DEF IInv, TypeOK, Counter, Counting
<1>6. LastIsLast' /\ ExactlyOneLastGroup'
  BY <1>2 DEF IInv, LastIsLast, ExactlyOneLastGroup
<1>7. Results'
  BY BlockSumUnchanged DEF IInv, TypeOK, Results
<1> QED
  BY <1>1, <1>3, <1>4, <1>5, <1>6, <1>7 DEF IInv

LEMMA WriteOutIInv ==
    ASSUME IInv, NEW g \in Groups, WriteOut(g)
    PROVE  IInv'
<1> USE DEF WriteOut
<1>1. TypeOK'
  BY DEF IInv, TypeOK
<1>2. NotCounted' = NotCounted /\ LastGroups' = LastGroups
  BY DEF IInv, TypeOK, NotCounted, LastGroups
<1>3. Phases'
  BY DEF IInv, TypeOK, Phases
<1>4. Visibility'
  BY BlockSumUnchanged DEF IInv, TypeOK, Visibility
<1>5. Counter'
  BY DEF IInv, TypeOK, Counter, Counting
<1>6. LastIsLast' /\ ExactlyOneLastGroup'
  BY <1>2 DEF IInv, LastIsLast, ExactlyOneLastGroup
<1>7. LastGroups = {g}
  BY DEF IInv, LastGroups, ExactlyOneLastGroup
<1>8. out'[request.out] = Total(BlockSums)
  BY DEF IInv, TypeOK, Results
<1>9. Results'
  BY <1>7, <1>8, BlockSumUnchanged DEF IInv, TypeOK, Results, LastGroups
<1> QED
  BY <1>1, <1>3, <1>4, <1>5, <1>6, <1>9 DEF IInv

LEMMA CompleteIInv ==
    ASSUME IInv, Complete
    PROVE  IInv'
<1> USE DEF Complete
<1>1. NotCounted' = NotCounted /\ LastGroups' = LastGroups
  BY DEF NotCounted, LastGroups
<1>2. TypeOK' /\ Phases' /\ Counter'
  BY <1>1 DEF IInv, TypeOK, Phases, Counter, Counting
<1>3. Visibility'
  BY BlockSumUnchanged DEF IInv, TypeOK, Visibility
<1>4. Results'
  BY BlockSumUnchanged DEF IInv, TypeOK, Results
<1>5. LastIsLast' /\ ExactlyOneLastGroup'
  BY <1>1 DEF IInv, LastIsLast, ExactlyOneLastGroup
<1> QED
  BY <1>2, <1>3, <1>4, <1>5 DEF IInv

LEMMA StutterIInv ==
    ASSUME IInv, UNCHANGED kernelVars
    PROVE  IInv'
<1> USE DEF kernelVars
<1>1. NotCounted' = NotCounted /\ LastGroups' = LastGroups
  BY DEF NotCounted, LastGroups
<1>2. TypeOK' /\ Phases' /\ Counter'
  BY <1>1 DEF IInv, TypeOK, Phases, Counter, Counting
<1>3. Visibility'
  BY BlockSumUnchanged DEF IInv, TypeOK, Visibility
<1>4. Results'
  BY BlockSumUnchanged DEF IInv, TypeOK, Results
<1>5. LastIsLast' /\ ExactlyOneLastGroup'
  BY <1>1 DEF IInv, LastIsLast, ExactlyOneLastGroup
<1> QED
  BY <1>2, <1>3, <1>4, <1>5 DEF IInv

(* The strengthened invariant holds in every reachable state.              *)
THEOREM KernelInvariant == KernelSpec => []IInv
<1>1. IInv /\ [KernelNext]_kernelVars => IInv'
  <2> SUFFICES ASSUME IInv, [KernelNext]_kernelVars PROVE IInv'
    OBVIOUS
  <2>1. ASSUME NEW r \in Requests, Launch(r) PROVE IInv'
    BY <2>1, LaunchIInv
  <2>2. ASSUME NEW g \in Groups, GroupStep(g) PROVE IInv'
    BY <2>2, StorePartialIInv, FlushIInv, DecrementCounterIInv,
       ReducePartialsIInv, ResetCounterIInv, WriteOutIInv DEF GroupStep
  <2>3. CASE Complete
    BY <2>3, CompleteIInv
  <2>4. CASE UNCHANGED kernelVars
    BY <2>4, StutterIInv
  <2> QED
    BY <2>1, <2>2, <2>3, <2>4 DEF KernelNext, DeviceStep
<1> QED
  BY <1>1, InitIInv, PTL DEF KernelSpec

(***************************************************************************)
(* The block sums of a request that fits add up to the requested range.    *)
(***************************************************************************)
LEMMA BlockRange ==
    ASSUME RequestsFit, request \in Requests, NEW g \in Groups
    PROVE  /\ startArg = request.first
           /\ First(g) = g * blockSize
           /\ Last(g) = MinOf(g * blockSize + blockSize, request.elements)
<1> DEFINE n == request.elements
           s == blockSize
<1>1. request \in RequestType
  BY DEF RequestType
<1>2. n \in Nat \ {0} /\ s \in Nat \ {0} /\ n <= Blocks * s
  BY <1>1, BlockSizeFacts DEF RequestType
<1>3. Blocks * s < Uint /\ request.first \in Nat /\ request.first < Uint
  BY <1>1 DEF RequestsFit, RequestType, blockSize
<1>4. startArg = request.first
  BY <1>3 DEF startArg
<1> HIDE DEF n, s
<1>5. g * s + s <= Blocks * s
  <2>1. g * s + s = (g + 1) * s
    BY <1>2
  <2>2. g + 1 <= Blocks /\ g + 1 \in Nat
    OBVIOUS
  <2> QED
    BY <2>1, <2>2, <1>2
<1>6. s <= Blocks * s /\ Blocks * s \in Nat
  BY <1>2
<1>7. s % Uint = s /\ n % Uint = n
  BY <1>2, <1>3, <1>6
<1>8. g * s \in Nat /\ (g * s) % Uint = g * s /\ (g * s + s) % Uint = g * s + s
  BY <1>2, <1>3, <1>5, <1>6
<1>9. blockSizeArg = s /\ elementsArg = n
  BY <1>7 DEF blockSizeArg, elementsArg, s, n
<1>10. First(g) = g * s
  BY <1>8, <1>9 DEF First
<1>11. Last(g) = MinOf(g * s + s, n)
  BY <1>8, <1>9, <1>10 DEF Last
<1> QED
  BY <1>4, <1>10, <1>11 DEF n, s

LEMMA TotalIsRequested ==
    ASSUME RequestsFit, TypeOK
    PROVE  Total(BlockSums) = Requested
<1> DEFINE n == request.elements
           s == blockSize
           Elem(i) == <<launch, request.first + i>>
           InBlock(i, g) == g * s <= i /\ i < g * s + s
<1>1. request \in Requests /\ request \in RequestType /\ launch \in Nat
  BY DEF TypeOK, RequestType
<1>2. n \in Nat \ {0} /\ s \in Nat \ {0} /\ n <= Blocks * s
  BY <1>1, BlockSizeFacts DEF RequestType
<1>3. request.first \in Nat
  BY <1>1 DEF RequestType
<1>4. \A g \in Groups : BlockSum(g) = {Elem(i) : i \in {j \in 0 .. n - 1 : InBlock(j, g)}}
  <2> TAKE g \in Groups
  <2>1. First(g) = g * s /\ Last(g) = MinOf(g * s + s, n) /\ startArg = request.first
    BY <1>1, BlockRange
  <2> HIDE DEF n, s
  <2>2. g * s \in Nat
    BY <1>2
  <2>3. \A i : i \in First(g) .. Last(g) - 1 <=> i \in {j \in 0 .. n - 1 : InBlock(j, g)}
    BY <1>2, <2>1, <2>2 DEF MinOf
  <2> QED
    BY <2>1, <2>3 DEF BlockSum
<1> HIDE DEF n, s
<1>5. ASSUME NEW i \in 0 .. n - 1
      PROVE  \E g \in Groups : {h \in Groups : Elem(i) \in BlockSum(h)} = {g}
  <2> DEFINE g == i \div s
  <2>0. i \in Nat /\ Blocks \in Nat /\ Blocks * s \in Nat /\ i < Blocks * s
    BY <1>2
  <2>1. g \in Groups /\ InBlock(i, g)
    BY <1>2, <2>0, BlockOfIndex, Zenon
  <2> HIDE DEF g
  <2>2. \A h \in Groups : Elem(i) \in BlockSum(h) <=> InBlock(i, h)
    BY <1>1, <1>2, <1>3, <1>4
  <2>3. \A h \in Groups : InBlock(i, h) => h = g
    BY <1>2, <2>1, BlocksDisjoint
  <2> QED
    BY <2>1, <2>2, <2>3
<1>6. UNION {BlockSums[g] : g \in Groups} = {Elem(i) : i \in 0 .. n - 1}
  <2>1. \A g \in Groups : BlockSums[g] \subseteq {Elem(i) : i \in 0 .. n - 1}
    BY <1>4 DEF BlockSums
  <2>2. \A i \in 0 .. n - 1 : \E g \in Groups : Elem(i) \in BlockSums[g]
    BY <1>5 DEF BlockSums
  <2> QED
    BY <2>1, <2>2
<1>7. \A a \in {Elem(i) : i \in 0 .. n - 1} :
         Cardinality({g \in Groups : a \in BlockSums[g]}) = 1
  <2> TAKE a \in {Elem(i) : i \in 0 .. n - 1}
  <2>1. PICK g \in Groups : {h \in Groups : a \in BlockSum(h)} = {g}
    BY <1>5
  <2>2. {h \in Groups : a \in BlockSums[h]} = {h \in Groups : a \in BlockSum(h)}
    BY DEF BlockSums
  <2> QED
    BY <2>1, <2>2, FS_Singleton
<1>8. Requested = [a \in {Elem(i) : i \in 0 .. n - 1} |-> 1]
  BY DEF Requested, Once, n
<1> QED
  BY <1>6, <1>7, <1>8 DEF Total

-----------------------------------------------------------------------------
(* Type correctness of the kernel.                                         *)
THEOREM KernelTypeOK == KernelSpec => []TypeOK
<1>1. IInv => TypeOK
  BY DEF IInv
<1> QED
  BY <1>1, KernelInvariant, PTL

(* However many work-groups there are, exactly one finds itself last.      *)
THEOREM OneLastGroup == KernelSpec => []ExactlyOneLastGroup
<1>1. IInv => ExactlyOneLastGroup
  BY DEF IInv
<1> QED
  BY <1>1, KernelInvariant, PTL

(* The last work-group sees the partial sums of this launch.               *)
THEOREM LastGroupSees == KernelSpec => []LastGroupSeesAll
<1>1. IInv => LastGroupSeesAll
  <2> SUFFICES ASSUME IInv, NEW g \in LastGroups, NEW h \in Groups
               PROVE  partial[h] = BlockSum(h)
    BY DEF LastGroupSeesAll
  <2>1. h \notin NotCounted /\ launch > 0
    BY DEF IInv, LastIsLast, LastGroups, Phases, TypeOK
  <2>2. h \notin pending /\ gpc[h] # "range"
    BY <2>1 DEF IInv, Visibility, NotCounted
  <2> QED
    BY <2>1, <2>2 DEF IInv, Visibility
<1> QED
  BY <1>1, KernelInvariant, PTL

(* The counter is back at REDUCE_BLOCKS whenever no launch is executing.   *)
THEOREM CounterReusable == KernelSpec => []CounterRestored
<1>1. IInv => CounterRestored
  <2> SUFFICES ASSUME IInv, ~running PROVE wgc = Blocks
    BY DEF CounterRestored
  <2>1. NotCounted = {}
    BY DEF IInv, Phases, NotCounted
  <2>2. ~Counting
    BY <2>1 DEF IInv, Phases, Counting, ExactlyOneLastGroup, LastGroups, TypeOK
  <2> QED
    BY <2>2 DEF IInv, Counter
<1> QED
  BY <1>1, KernelInvariant, PTL

(* Nobody writes a partial sum while the last group reads them.            *)
THEOREM PartialsUntouched == KernelSpec => PartialsStable
<1>1. IInv /\ [KernelNext]_kernelVars
        => [\A g \in Groups : gpc[g] = "final" => partial' = partial]_kernelVars
  <2> SUFFICES ASSUME IInv, KernelNext, NEW g \in Groups, gpc[g] = "final"
               PROVE  partial' = partial
    OBVIOUS
  <2>1. pending = {}
    BY DEF IInv, LastIsLast, LastGroups, NotCounted, Visibility, TypeOK
  <2> QED
    BY <2>1 DEF KernelNext, DeviceStep, GroupStep, Launch, StorePartial, Flush,
         DecrementCounter, ReducePartials, ResetCounter, WriteOut, Complete
<1> QED
  BY <1>1, KernelInvariant, PTL DEF KernelSpec, PartialsStable

(* The result is right for every number of blocks, work-group size and     *)
(* launch, provided the rounded-up range can be addressed with a uint.     *)
THEOREM ReduceCorrect ==
    ASSUME RequestsFit
    PROVE  KernelSpec => []ResultCorrect
<1>1. IInv => ResultCorrect
  <2> SUFFICES ASSUME IInv, launch > 0, ~running
               PROVE  out[request.out] = Requested
    BY DEF ResultCorrect
  <2>1. NotCounted = {}
    BY DEF IInv, Phases, NotCounted
  <2>2. PICK g \in Groups : gpc[g] = "end"
    BY <2>1 DEF IInv, Phases, ExactlyOneLastGroup, LastGroups
  <2>3. out[request.out] = Total(BlockSums)
    BY <2>2 DEF IInv, Results
  <2> QED
    BY <2>3, TotalIsRequested DEF IInv
<1> QED
  BY <1>1, KernelInvariant, PTL

HIDE DEF Groups

-----------------------------------------------------------------------------
(* The inductive invariant of the host and its queue.                      *)

\* A command was enqueued by a call that passed validation.
CommandOK(x) ==
    /\ x = [kind |-> x.kind, call |-> x.call, waits |-> x.waits,
            status |-> x.status, launch |-> x.launch, value |-> x.value]
    /\ x.kind \in {"reduce", "read"}
    /\ x.status \in {"queued", "running", "complete"}
    /\ x.call \in Calls /\ Valid(x.call)

\* A read follows the kernel of its own call, and is executed in one step.
ReadOK(q, i) ==
    /\ i > 1
    /\ q[i - 1].kind = "reduce"
    /\ q[i - 1].call = q[i].call
    /\ q[i].call.form = "host"
    /\ q[i].waits = {i - 1}
    /\ q[i].status # "running"

CommandsOK(q) ==
    \A i \in 1 .. Len(q) :
        /\ CommandOK(q[i])
        /\ q[i].kind = "read" => ReadOK(q, i)

\* The queue cannot reorder the commands, whatever kind of queue it is.
QueueOK(q) ==
    /\ IsQueue(q)
    /\ Serial(q)
    /\ WaitsBack(q)
    /\ inOrder \/ Chained(q)

\* Between calls the last event returned covers all that is in flight.
HostOK ==
    /\ inOrder \in BOOLEAN
    /\ hostPC \in {"idle", "read", "wait"}
    /\ lastEvent \in 0 .. Len(cmds)
    /\ lost \in BOOLEAN
    /\ calls \in 0 .. MaxCalls
    /\ failures \in 0 .. MaxFailures
    /\ reported = 1 .. Len(cmds)
    /\ lost => hostPC = "idle"
    /\ hostPC = "read" => /\ Len(cmds) > 0
                          /\ cmds[Len(cmds)].kind = "reduce"
                          /\ cmds[Len(cmds)].call.form = "host"
    /\ hostPC # "read" /\ ~lost => Covers(cmds, lastEvent)

\* Command i is the kernel that started last.
Newest(q, i) ==
    /\ q[i].kind = "reduce" /\ q[i].status # "queued"
    /\ \A j \in i + 1 .. Len(q) : q[j].kind = "reduce" => q[j].status = "queued"

\* The kernel is executing when one of the commands is, and the arguments it
\* executes with, or executed with last, are those of the newest command.
DeviceOK ==
    /\ launch \in Nat
    /\ running \in BOOLEAN
    /\ running <=> \E i \in 1 .. Len(cmds) : cmds[i].status = "running"
    /\ \A i \in 1 .. Len(cmds) :
          Newest(cmds, i) => /\ launch > 0
                             /\ cmds[i].launch = launch
                             /\ request = RequestOf(cmds[i].call)

QueueInv ==
    /\ CommandsOK(cmds)
    /\ QueueOK(cmds)
    /\ HostOK
    /\ DeviceOK

-----------------------------------------------------------------------------
(* What an enqueue does to the queue, whatever it enqueues.                *)
LEMMA EnqueueKeeps ==
    ASSUME QueueInv, NEW x, CommandOK(x), x.status = "queued",
           x.waits \subseteq 1 .. Len(cmds),
           inOrder \/ \A i \in 1 .. Len(cmds) :
                          IsDone(cmds, i) \/ \E w \in x.waits : i <= w,
           x.kind = "read" => /\ hostPC = "read"
                              /\ x.call = cmds[Len(cmds)].call
                              /\ x.waits = {Len(cmds)},
           cmds' = Append(cmds, x), UNCHANGED <<inOrder, kernelVars>>
    PROVE  /\ CommandsOK(cmds)'
           /\ QueueOK(cmds)'
           /\ DeviceOK'
           /\ Len(cmds') = Len(cmds) + 1
           /\ cmds'[Len(cmds')] = x
           /\ \A i \in 1 .. Len(cmds) : cmds'[i] = cmds[i]
<1>1. /\ IsQueue(cmds') /\ Len(cmds) \in Nat /\ Len(cmds') = Len(cmds) + 1
      /\ cmds'[Len(cmds) + 1] = x
      /\ \A i \in 1 .. Len(cmds) : cmds'[i] = cmds[i]
  BY QueueAppend DEF QueueInv, QueueOK, IsQueue
<1>2. \A i \in 1 .. Len(cmds') : \/ i \in 1 .. Len(cmds) /\ cmds'[i] = cmds[i]
                                 \/ i = Len(cmds) + 1 /\ cmds'[i] = x
  BY <1>1
<1>3. /\ Serial(cmds') /\ WaitsBack(cmds')
      /\ ~inOrder => Chained(cmds')
  BY AppendOrdered DEF QueueInv, QueueOK
<1>4. QueueOK(cmds)'
  BY <1>1, <1>3 DEF QueueInv, QueueOK, HostOK
<1>5. CommandsOK(cmds)'
  <2> SUFFICES ASSUME NEW i \in 1 .. Len(cmds')
               PROVE  CommandOK(cmds'[i]) /\ (cmds'[i].kind = "read" => ReadOK(cmds', i))
    BY DEF CommandsOK
  <2>1. CASE i \in 1 .. Len(cmds) /\ cmds'[i] = cmds[i]
    <3>1. i > 1 => cmds'[i - 1] = cmds[i - 1]
      BY <1>1, <2>1
    <3> QED
      BY <2>1, <3>1 DEF QueueInv, CommandsOK, ReadOK
  <2>2. CASE i = Len(cmds) + 1 /\ cmds'[i] = x
    <3>1. ASSUME x.kind = "read" PROVE ReadOK(cmds', i)
      <4>1. /\ Len(cmds) > 0 /\ cmds[Len(cmds)].kind = "reduce"
            /\ cmds[Len(cmds)].call.form = "host"
        BY <3>1 DEF QueueInv, HostOK
      <4>2. i - 1 = Len(cmds) /\ cmds'[i - 1] = cmds[Len(cmds)]
        BY <1>1, <2>2, <4>1
      <4>3. i > 1 /\ {Len(cmds)} = {i - 1}
        BY <1>1, <2>2, <4>1
      <4> QED
        BY <2>2, <3>1, <4>1, <4>2, <4>3, Zenon DEF ReadOK
    <3> QED
      BY <2>2, <3>1
  <2> QED
    BY <1>2, <2>1, <2>2
<1>6. DeviceOK'
  <2>1. UNCHANGED <<launch, running, request>>
    BY DEF kernelVars
  <2>2. (\E i \in 1 .. Len(cmds') : cmds'[i].status = "running")
            <=> \E i \in 1 .. Len(cmds) : cmds[i].status = "running"
    BY <1>1, <1>2
  <2>3. ASSUME NEW i \in 1 .. Len(cmds'), Newest(cmds', i)
        PROVE  i \in 1 .. Len(cmds) /\ cmds'[i] = cmds[i] /\ Newest(cmds, i)
    <3>1. i \in 1 .. Len(cmds) /\ cmds'[i] = cmds[i]
      BY <1>2, <2>3 DEF Newest
    <3>2. \A j \in i + 1 .. Len(cmds) : j \in i + 1 .. Len(cmds') /\ cmds'[j] = cmds[j]
      BY <1>1, <3>1
    <3> QED
      BY <2>3, <3>1, <3>2 DEF Newest
  <2> QED
    BY <2>1, <2>2, <2>3 DEF QueueInv, DeviceOK
<1> QED
  BY <1>1, <1>4, <1>5, <1>6

(* What progress of a command that everything before it is complete does.  *)
LEMMA ProgressKeeps ==
    ASSUME QueueInv, NEW k \in 1 .. Len(cmds), NEW x, CommandOK(x),
           x.kind = cmds[k].kind, x.call = cmds[k].call, x.waits = cmds[k].waits,
           ~IsDone(cmds, k), \A i \in 1 .. k - 1 : IsDone(cmds, i),
           x.kind = "read" => x.status # "running",
           Updated(cmds, k, x, cmds'), UNCHANGED inOrder
    PROVE  /\ CommandsOK(cmds)'
           /\ QueueOK(cmds)'
           /\ Len(cmds') = Len(cmds)
           /\ cmds'[k] = x
           /\ \A i \in 1 .. Len(cmds) : i # k => cmds'[i] = cmds[i]
           /\ \A i \in 1 .. Len(cmds) : IsDone(cmds, i) => IsDone(cmds', i)
           /\ \A i \in 1 .. k - 1 : IsDone(cmds', i)
           /\ \A i \in k + 1 .. Len(cmds) : cmds[i].status = "queued"
           /\ \A i \in k + 1 .. Len(cmds) : cmds'[i].status = "queued"
<1>0. IsQueue(cmds) /\ Len(cmds) \in Nat
  BY DEF QueueInv, QueueOK, IsQueue
<1>1. /\ IsQueue(cmds') /\ Len(cmds') = Len(cmds) /\ cmds'[k] = x
      /\ \A i \in 1 .. Len(cmds) : i # k => cmds'[i] = cmds[i]
  BY <1>0, QueueExcept
<1>2. /\ Serial(cmds') /\ WaitsBack(cmds') /\ (Chained(cmds) => Chained(cmds'))
      /\ \A i \in 1 .. Len(cmds) : IsDone(cmds, i) => IsDone(cmds', i)
  BY <1>0, ProgressOrdered DEF QueueInv, QueueOK
<1>3. QueueOK(cmds)'
  BY <1>1, <1>2 DEF QueueInv, QueueOK
<1>4. \A i \in k + 1 .. Len(cmds) : cmds[i].status = "queued"
  BY <1>0 DEF QueueInv, QueueOK, Serial
<1>5. CommandsOK(cmds)'
  <2> SUFFICES ASSUME NEW i \in 1 .. Len(cmds)
               PROVE  CommandOK(cmds'[i]) /\ (cmds'[i].kind = "read" => ReadOK(cmds', i))
    BY <1>1 DEF CommandsOK
  <2>1. CommandOK(cmds[i]) /\ (cmds[i].kind = "read" => ReadOK(cmds, i))
    BY DEF QueueInv, CommandsOK
  <2>2. \A j \in 1 .. Len(cmds) :
            /\ cmds'[j].kind = cmds[j].kind /\ cmds'[j].call = cmds[j].call
            /\ cmds'[j].waits = cmds[j].waits
    BY <1>1
  <2>3. CommandOK(cmds'[i]) /\ (cmds'[i].kind = "read" => cmds'[i].status # "running")
    BY <1>1, <2>1 DEF ReadOK
  <2>4. i > 1 => i - 1 \in 1 .. Len(cmds)
    BY <1>0
  <2> QED
    BY <2>1, <2>2, <2>3, <2>4 DEF ReadOK
<1>6. \A i \in 1 .. k - 1 : IsDone(cmds', i)
  <2>1. \A i \in 1 .. k - 1 : i \in 1 .. Len(cmds)
    BY <1>0
  <2> QED
    BY <1>2, <2>1
<1>7. \A i \in k + 1 .. Len(cmds) : cmds'[i].status = "queued"
  BY <1>0, <1>1, <1>4
<1> QED
  BY <1>1, <1>2, <1>3, <1>4, <1>5, <1>6, <1>7

(* A command that is ready comes after all that are complete: the device   *)
(* has nothing else to do.                                                 *)
LEMMA ReadyIsAlone ==
    ASSUME QueueInv, NEW k \in 1 .. Len(cmds), Ready(k)
    PROVE  /\ \A i \in 1 .. k - 1 : IsDone(cmds, i)
           /\ \A i \in k .. Len(cmds) : cmds[i].status = "queued"
           /\ ~running
<1>1. IsQueue(cmds) /\ Len(cmds) \in Nat
  BY DEF QueueInv, QueueOK, IsQueue
<1>2. \A i \in 1 .. k - 1 : IsDone(cmds, i)
  <2>1. \A w \in cmds[k].waits : IsDone(cmds, w)
    BY DEF Ready, IsComplete, IsDone
  <2>2. Chained(cmds) \/ \A i \in 1 .. k - 1 : IsDone(cmds, i)
    BY DEF QueueInv, QueueOK, Ready, IsComplete, IsDone
  <2> QED
    BY <1>1, <2>1, <2>2, ReadyAfterAll DEF QueueInv, QueueOK
<1>3. \A i \in k .. Len(cmds) : cmds[i].status = "queued"
  BY <1>1 DEF QueueInv, QueueOK, Serial, Ready, IsDone
<1>4. \A i \in 1 .. Len(cmds) : cmds[i].status # "running"
  BY <1>1, <1>2, <1>3 DEF IsDone
<1> QED
  BY <1>2, <1>3, <1>4 DEF QueueInv, DeviceOK

-----------------------------------------------------------------------------
LEMMA InitQueueInv == HostInit => QueueInv
<1> SUFFICES ASSUME HostInit PROVE QueueInv
  OBVIOUS
<1>1. cmds = <<>> /\ Len(cmds) = 0
  BY DEF HostInit
<1>2. IsQueue(cmds)
  BY <1>1 DEF IsQueue
<1>3. CommandsOK(cmds) /\ QueueOK(cmds)
  BY <1>1, <1>2 DEF CommandsOK, QueueOK, Serial, WaitsBack, Chained
<1>4. HostOK
  <2>1. lost \in BOOLEAN /\ inOrder \in BOOLEAN
    BY Zenon DEF HostInit
  <2> QED
    BY <1>1, <2>1, BoundsAssumption DEF HostInit, HostOK, Covers
<1>5. DeviceOK
  <2>1. launch = 0 /\ running = FALSE
    BY DEF HostInit, Init
  <2>2. 1 .. Len(cmds) = {} /\ launch \in Nat
    BY <1>1, <2>1
  <2> QED
    BY <2>1, <2>2, Zenon DEF DeviceOK
<1> QED
  BY <1>3, <1>4, <1>5 DEF QueueInv

(* The host's part of Next.                                                *)
LEMMA HostKeepsQueueInv == QueueInv /\ HostStep => QueueInv'
<1> SUFFICES ASSUME QueueInv, HostStep PROVE QueueInv'
  OBVIOUS
<1>0. Len(cmds) \in Nat
  BY DEF QueueInv, QueueOK, IsQueue
<1>1. ASSUME UNCHANGED <<inOrder, cmds, kernelVars>>, HostOK' PROVE QueueInv'
  <2>1. CommandsOK(cmds)' /\ QueueOK(cmds)'
    BY <1>1 DEF QueueInv, QueueOK
  <2>2. DeviceOK'
    BY <1>1 DEF QueueInv, DeviceOK, kernelVars
  <2> QED
    BY <1>1, <2>1, <2>2 DEF QueueInv
<1>2. ASSUME NEW c \in Calls, RejectCall(c) \/ EnqueueFails(c) PROVE QueueInv'
  <2>1. HostOK'
    BY <1>2, BoundsAssumption
    DEF QueueInv, HostOK, RejectCall, EnqueueFails, MayCall, Covers, IsDone
  <2> QED
    BY <1>1, <1>2, <2>1 DEF RejectCall, EnqueueFails
<1>3. ASSUME NEW c \in Calls, EnqueueReduce(c) PROVE QueueInv'
  <2> DEFINE x == ReduceCommand(c)
  <2>1. /\ CommandOK(x) /\ x.status = "queued" /\ x.kind = "reduce"
        /\ x.call = c /\ x.waits = Waits
    BY <1>3 DEF EnqueueReduce, ReduceCommand, CommandOK
  <2>2. cmds' = Append(cmds, x) /\ UNCHANGED <<inOrder, kernelVars>>
    BY <1>3 DEF EnqueueReduce
  <2> HIDE DEF x
  <2>3. Waits \subseteq 1 .. Len(cmds)
    BY <1>0 DEF QueueInv, HostOK, Waits
  <2>4. Covers(cmds, lastEvent)
    BY <1>3 DEF QueueInv, HostOK, EnqueueReduce, MayCall
  <2>5. ASSUME ~inOrder, NEW i \in 1 .. Len(cmds)
        PROVE  IsDone(cmds, i) \/ \E w \in Waits : i <= w
    BY <1>0, <2>4, <2>5 DEF QueueInv, HostOK, Waits, Covers
  <2>6. /\ CommandsOK(cmds)' /\ QueueOK(cmds)' /\ DeviceOK'
        /\ Len(cmds') = Len(cmds) + 1 /\ cmds'[Len(cmds')] = x
    BY <2>1, <2>2, <2>3, <2>5, EnqueueKeeps
  <2>7. HostOK'
    <3>1. reported' = 1 .. Len(cmds')
      BY <1>0, <1>3, <2>6 DEF EnqueueReduce, QueueInv, HostOK
    <3>2. calls' \in 0 .. MaxCalls
      BY <1>3, BoundsAssumption DEF EnqueueReduce, MayCall, QueueInv, HostOK
    <3>3. CASE c.form = "buffer"
      <4>1. lastEvent' = Len(cmds') /\ hostPC' = "idle" /\ lost' = FALSE
        BY <1>3, <3>3, Zenon DEF EnqueueReduce, MayCall, QueueInv, HostOK
      <4>2. Covers(cmds, lastEvent)'
        BY <1>0, <2>6, <4>1 DEF Covers
      <4> QED
        BY <1>0, <1>3, <2>6, <3>1, <3>2, <4>1, <4>2
        DEF EnqueueReduce, QueueInv, HostOK
    <3>4. CASE c.form # "buffer"
      <4>1. lastEvent' = lastEvent /\ hostPC' = "read" /\ lost' = FALSE
        BY <1>3, <3>4, Zenon DEF EnqueueReduce, MayCall, QueueInv, HostOK
      <4>2. c.form = "host"
        BY <3>4, CallsAssumption DEF CallType
      <4> QED
        BY <1>0, <1>3, <2>1, <2>6, <3>1, <3>2, <4>1, <4>2
        DEF EnqueueReduce, QueueInv, HostOK
    <3> QED
      BY <3>3, <3>4
  <2> QED
    BY <2>6, <2>7 DEF QueueInv
<1>4. CASE EnqueueRead
  <2> DEFINE k == Len(cmds)
             c == cmds[k].call
             x == ReadCommand(c, k)
  <2>1. k \in 1 .. Len(cmds) /\ hostPC = "read"
    BY <1>0, <1>4 DEF EnqueueRead, QueueInv, HostOK
  <2>2. CommandOK(cmds[k])
    BY <2>1 DEF QueueInv, CommandsOK
  <2>3. /\ CommandOK(x) /\ x.status = "queued" /\ x.kind = "read"
        /\ x.call = c /\ x.waits = {k}
    BY <2>2 DEF CommandOK, ReadCommand
  <2>4. cmds' = Append(cmds, x) /\ UNCHANGED <<inOrder, kernelVars>>
    BY <1>4 DEF EnqueueRead
  <2> HIDE DEF x
  <2>5. \A i \in 1 .. Len(cmds) : \E w \in x.waits : i <= w
    BY <1>0, <2>3
  <2>6. /\ CommandsOK(cmds)' /\ QueueOK(cmds)' /\ DeviceOK'
        /\ Len(cmds') = Len(cmds) + 1 /\ cmds'[Len(cmds')] = x
    BY <2>1, <2>3, <2>4, <2>5, EnqueueKeeps
  <2>7. HostOK'
    <3>1. /\ lastEvent' = k + 1 /\ hostPC' \in {"idle", "wait"}
          /\ reported' = reported \union {k + 1}
          /\ UNCHANGED <<inOrder, lost, calls, failures>>
      BY <1>4 DEF EnqueueRead
    <3>2. lost' = FALSE
      BY <2>1, <3>1 DEF QueueInv, HostOK
    <3>3. Covers(cmds, lastEvent)'
      BY <1>0, <2>6, <3>1 DEF Covers
    <3>4. reported' = 1 .. Len(cmds')
      BY <1>0, <2>6, <3>1 DEF QueueInv, HostOK
    <3> QED
      BY <1>0, <2>6, <3>1, <3>2, <3>3, <3>4 DEF QueueInv, HostOK
  <2> QED
    BY <2>6, <2>7 DEF QueueInv
<1>5. CASE EnqueueReadFails
  <2>1. HostOK'
    BY <1>5, BoundsAssumption DEF EnqueueReadFails, QueueInv, HostOK
  <2> QED
    BY <1>1, <1>5, <2>1 DEF EnqueueReadFails
<1>6. CASE ReadReturns
  <2>1. HostOK'
    BY <1>6 DEF ReadReturns, QueueInv, HostOK, Covers, IsDone
  <2> QED
    BY <1>1, <1>6, <2>1 DEF ReadReturns
<1>7. CASE QueueFinish
  <2>1. HostOK'
    BY <1>7 DEF QueueFinish, QueueInv, HostOK, Covers, IsDone, IsComplete
  <2> QED
    BY <1>1, <1>7, <2>1 DEF QueueFinish
<1> QED
  BY <1>2, <1>3, <1>4, <1>5, <1>6, <1>7 DEF HostStep
(* The device's part of Next.                                              *)
LEMMA DeviceKeepsQueueInv == QueueInv /\ Work => QueueInv'
<1> SUFFICES ASSUME QueueInv, Work PROVE QueueInv'
  OBVIOUS
<1>0. Len(cmds) \in Nat
  BY DEF QueueInv, QueueOK, IsQueue
<1>1. ASSUME UNCHANGED <<inOrder, hostPC, lastEvent, lost, calls, failures, reported>>,
             Len(cmds') = Len(cmds),
             \A i \in 1 .. Len(cmds) :
                 /\ cmds'[i].kind = cmds[i].kind /\ cmds'[i].call = cmds[i].call
                 /\ IsDone(cmds, i) => IsDone(cmds', i)
      PROVE  HostOK'
  <2>1. Covers(cmds, lastEvent) => Covers(cmds, lastEvent)'
    BY <1>1 DEF Covers
  <2>2. Len(cmds) > 0 => /\ cmds'[Len(cmds)].kind = cmds[Len(cmds)].kind
                         /\ cmds'[Len(cmds)].call = cmds[Len(cmds)].call
    BY <1>0, <1>1
  <2> QED
    BY <1>1, <2>1, <2>2 DEF QueueInv, HostOK
<1>2. ASSUME NEW k \in 1 .. Len(cmds), StartReduce(k) PROVE QueueInv'
  <2> DEFINE y == [cmds[k] EXCEPT !.status = "running"]
             x == [y EXCEPT !.launch = launch + 1]
  <2>1. CommandOK(cmds[k]) /\ cmds[k].kind = "reduce"
    BY <1>2 DEF QueueInv, CommandsOK, StartReduce
  <2>2. /\ CommandOK(x) /\ x.kind = "reduce" /\ x.call = cmds[k].call
        /\ x.waits = cmds[k].waits /\ x.status = "running"
        /\ x.launch = launch + 1
    <3>1. /\ CommandOK(y) /\ y.kind = "reduce" /\ y.call = cmds[k].call
          /\ y.waits = cmds[k].waits /\ y.status = "running"
      BY <2>1 DEF CommandOK
    <3> HIDE DEF y
    <3> QED
      BY <3>1 DEF CommandOK
  <2>3. Updated(cmds, k, x, cmds')
    BY <1>2 DEF StartReduce, Updated
  <2> HIDE DEF x
  <2>4. /\ \A i \in 1 .. k - 1 : IsDone(cmds, i)
        /\ ~IsDone(cmds, k)
    BY <1>2, ReadyIsAlone DEF StartReduce, Ready, IsDone
  <2>5. UNCHANGED <<inOrder, hostPC, lastEvent, lost, calls, failures, reported>>
    BY <1>2 DEF StartReduce
  <2>6. /\ CommandsOK(cmds)' /\ QueueOK(cmds)' /\ Len(cmds') = Len(cmds)
        /\ cmds'[k] = x
        /\ \A i \in 1 .. Len(cmds) : i # k => cmds'[i] = cmds[i]
        /\ \A i \in 1 .. Len(cmds) : IsDone(cmds, i) => IsDone(cmds', i)
        /\ \A i \in k + 1 .. Len(cmds) : cmds'[i].status = "queued"
    BY <2>1, <2>2, <2>3, <2>4, <2>5, ProgressKeeps
  <2>7. HostOK'
    BY <1>1, <2>2, <2>1, <2>5, <2>6
  <2>8. DeviceOK'
    <3>1. /\ launch' = launch + 1 /\ running' = TRUE
          /\ request' = RequestOf(cmds[k].call)
      BY <1>2, Zenon DEF StartReduce, Launch
    <3>2. \E i \in 1 .. Len(cmds') : cmds'[i].status = "running"
      BY <2>2, <2>6
    <3>3. ASSUME NEW i \in 1 .. Len(cmds'), Newest(cmds', i) PROVE i = k
      <4>1. i \in 1 .. Len(cmds) /\ ~(i > k)
        BY <1>0, <2>6, <3>3 DEF Newest
      <4>2. ~(i < k)
        BY <1>0, <2>2, <2>6, <3>3 DEF Newest
      <4> QED
        BY <1>0, <4>1, <4>2
    <3>4. launch \in Nat
      BY DEF QueueInv, DeviceOK
    <3>5. /\ launch' \in Nat /\ launch' > 0 /\ cmds'[k].launch = launch'
          /\ request' = RequestOf(cmds'[k].call)
      BY <2>2, <2>6, <3>1, <3>4
    <3> QED
      BY <3>1, <3>2, <3>3, <3>5, Zenon DEF DeviceOK
  <2> QED
    BY <2>6, <2>7, <2>8 DEF QueueInv
<1>3. ASSUME NEW k \in 1 .. Len(cmds), FinishReduce(k) PROVE QueueInv'
  <2> DEFINE x == [cmds[k] EXCEPT !.status = "complete"]
  <2>1. CommandOK(cmds[k]) /\ cmds[k].status = "running"
    BY <1>3 DEF QueueInv, CommandsOK, FinishReduce
  <2>2. /\ CommandOK(x) /\ x.kind = cmds[k].kind /\ x.call = cmds[k].call
        /\ x.waits = cmds[k].waits /\ x.status = "complete"
        /\ x.launch = cmds[k].launch
    BY <2>1 DEF CommandOK
  <2>3. Updated(cmds, k, x, cmds')
    BY <1>3 DEF FinishReduce, Updated
  <2> HIDE DEF x
  <2>4. /\ \A i \in 1 .. k - 1 : IsDone(cmds, i)
        /\ ~IsDone(cmds, k)
    BY <2>1 DEF QueueInv, QueueOK, Serial, IsDone
  <2>5. UNCHANGED <<inOrder, hostPC, lastEvent, lost, calls, failures, reported>>
    BY <1>3 DEF FinishReduce
  <2>6. /\ CommandsOK(cmds)' /\ QueueOK(cmds)' /\ Len(cmds') = Len(cmds)
        /\ cmds'[k] = x
        /\ \A i \in 1 .. Len(cmds) : i # k => cmds'[i] = cmds[i]
        /\ \A i \in 1 .. Len(cmds) : IsDone(cmds, i) => IsDone(cmds', i)
        /\ \A i \in 1 .. k - 1 : IsDone(cmds', i)
        /\ \A i \in k + 1 .. Len(cmds) : cmds'[i].status = "queued"
    BY <2>1, <2>2, <2>3, <2>4, <2>5, ProgressKeeps
  <2>7. HostOK'
    BY <1>1, <2>2, <2>5, <2>6
  <2>8. DeviceOK'
    <3>1. /\ launch' = launch /\ running' = FALSE /\ request' = request
      BY <1>3, Zenon DEF FinishReduce, Complete
    <3>2. \A i \in 1 .. Len(cmds') : cmds'[i].status # "running"
      BY <1>0, <2>2, <2>6 DEF IsDone
    <3>3. ASSUME NEW i \in 1 .. Len(cmds'), Newest(cmds', i)
          PROVE  /\ i \in 1 .. Len(cmds) /\ Newest(cmds, i)
                 /\ cmds'[i].launch = cmds[i].launch /\ cmds'[i].call = cmds[i].call
      <4>1. \A j \in 1 .. Len(cmds) :
                /\ cmds'[j].kind = cmds[j].kind
                /\ cmds'[j].status = "queued" <=> cmds[j].status = "queued"
                /\ cmds'[j].launch = cmds[j].launch /\ cmds'[j].call = cmds[j].call
        BY <2>1, <2>2, <2>6
      <4>2. i \in 1 .. Len(cmds) /\ \A j \in i + 1 .. Len(cmds) : j \in 1 .. Len(cmds)
        BY <1>0, <2>6
      <4> QED
        BY <2>6, <3>3, <4>1, <4>2 DEF Newest
    <3> QED
      BY <3>1, <3>2, <3>3, Zenon DEF QueueInv, DeviceOK
  <2> QED
    BY <2>6, <2>7, <2>8 DEF QueueInv
<1>4. ASSUME NEW k \in 1 .. Len(cmds), ExecuteRead(k) PROVE QueueInv'
  <2> DEFINE y == [cmds[k] EXCEPT !.status = "complete"]
             x == [y EXCEPT !.value = out[Slot]]
  <2>1. CommandOK(cmds[k]) /\ cmds[k].kind = "read"
    BY <1>4 DEF QueueInv, CommandsOK, ExecuteRead
  <2>2. /\ CommandOK(x) /\ x.kind = "read" /\ x.call = cmds[k].call
        /\ x.waits = cmds[k].waits /\ x.status = "complete"
    <3>1. /\ CommandOK(y) /\ y.kind = "read" /\ y.call = cmds[k].call
          /\ y.waits = cmds[k].waits /\ y.status = "complete"
      BY <2>1 DEF CommandOK
    <3> HIDE DEF y
    <3> QED
      BY <3>1 DEF CommandOK
  <2>3. Updated(cmds, k, x, cmds')
    BY <1>4 DEF ExecuteRead, Updated
  <2> HIDE DEF x
  <2>4. /\ \A i \in 1 .. k - 1 : IsDone(cmds, i)
        /\ ~IsDone(cmds, k)
        /\ ~running
    BY <1>4, ReadyIsAlone DEF ExecuteRead, Ready, IsDone
  <2>5. UNCHANGED <<inOrder, hostPC, lastEvent, lost, calls, failures, reported>>
    BY <1>4 DEF ExecuteRead
  <2>6. /\ CommandsOK(cmds)' /\ QueueOK(cmds)' /\ Len(cmds') = Len(cmds)
        /\ cmds'[k] = x
        /\ \A i \in 1 .. Len(cmds) : i # k => cmds'[i] = cmds[i]
        /\ \A i \in 1 .. Len(cmds) : IsDone(cmds, i) => IsDone(cmds', i)
        /\ \A i \in 1 .. k - 1 : IsDone(cmds', i)
        /\ \A i \in k + 1 .. Len(cmds) : cmds'[i].status = "queued"
    BY <2>1, <2>2, <2>3, <2>4, <2>5, ProgressKeeps
  <2>7. HostOK'
    BY <1>1, <2>1, <2>2, <2>5, <2>6
  <2>8. DeviceOK'
    <3>1. UNCHANGED <<launch, running, request>>
      BY <1>4 DEF ExecuteRead, kernelVars
    <3>2. \A i \in 1 .. Len(cmds') : cmds'[i].status # "running"
      BY <1>0, <2>2, <2>6 DEF IsDone
    <3>3. ASSUME NEW i \in 1 .. Len(cmds'), Newest(cmds', i)
          PROVE  i \in 1 .. Len(cmds) /\ Newest(cmds, i) /\ cmds'[i] = cmds[i]
      <4>1. i \in 1 .. Len(cmds) /\ cmds'[i] = cmds[i]
        BY <2>2, <2>6, <3>3 DEF Newest
      <4>2. \A j \in i + 1 .. Len(cmds) :
                j \in 1 .. Len(cmds) /\ (cmds'[j] = cmds[j] \/ cmds[j].kind = "read")
        BY <1>0, <2>1, <2>6, <4>1
      <4> QED
        BY <2>6, <3>3, <4>1, <4>2 DEF Newest
    <3> QED
      BY <2>4, <3>1, <3>2, <3>3, Zenon DEF QueueInv, DeviceOK
  <2> QED
    BY <2>6, <2>7, <2>8 DEF QueueInv
<1>5. ASSUME NEW g \in Groups, ExecuteGroup(g) PROVE QueueInv'
  <2>1. UNCHANGED <<launch, running, request>> /\ UNCHANGED hostVars
    BY <1>5 DEF ExecuteGroup, GroupStep, StorePartial, Flush, DecrementCounter,
                ReducePartials, ResetCounter, WriteOut
  <2> QED
    BY <2>1 DEF hostVars, QueueInv, QueueOK, HostOK, DeviceOK
<1> QED
  BY <1>2, <1>3, <1>4, <1>5 DEF Work

(* However the device interleaves the commands it may execute, the queue   *)
(* keeps its order.                                                        *)
THEOREM QueueInvariant == Spec => []QueueInv
<1>1. QueueInv /\ [Next]_vars => QueueInv'
  <2>1. ASSUME QueueInv, UNCHANGED vars PROVE QueueInv'
    BY <2>1 DEF vars, kernelVars, hostVars, QueueInv, QueueOK, HostOK, DeviceOK
  <2> QED
    BY <2>1, HostKeepsQueueInv, DeviceKeepsQueueInv DEF Next
<1> QED
  BY <1>1, InitQueueInv, PTL DEF Spec
-----------------------------------------------------------------------------
(* Every step of the host and its queue is a step of the kernel or leaves  *)
(* it alone: the commands launch it only with requests it accepts.         *)
LEMMA StepRefinesKernel ==
    QueueInv /\ [Next]_vars => [KernelNext]_kernelVars
<1> SUFFICES ASSUME QueueInv, [Next]_vars PROVE [KernelNext]_kernelVars
  OBVIOUS
<1>1. ASSUME NEW k \in 1 .. Len(cmds), StartReduce(k) PROVE KernelNext
  <2>1. cmds[k].call \in Calls /\ Valid(cmds[k].call)
    BY DEF QueueInv, CommandsOK, CommandOK
  <2>2. RequestOf(cmds[k].call) \in Requests
    BY <2>1, CallsAssumption
  <2> QED
    BY <1>1, <2>2 DEF StartReduce, KernelNext
<1>2. ASSUME NEW k \in 1 .. Len(cmds), FinishReduce(k) PROVE KernelNext
  BY <1>2 DEF FinishReduce, KernelNext, DeviceStep
<1>3. ASSUME NEW g \in Groups, ExecuteGroup(g) PROVE KernelNext
  BY <1>3 DEF ExecuteGroup, KernelNext, DeviceStep
<1>4. ASSUME NEW k \in 1 .. Len(cmds), ExecuteRead(k) PROVE UNCHANGED kernelVars
  BY <1>4 DEF ExecuteRead
<1>5. ASSUME HostStep PROVE UNCHANGED kernelVars
  BY <1>5 DEF HostStep, RejectCall, EnqueueFails, EnqueueReduce, EnqueueRead,
              EnqueueReadFails, ReadReturns, QueueFinish
<1>6. ASSUME UNCHANGED vars PROVE UNCHANGED kernelVars
  BY <1>6 DEF vars
<1> QED
  BY <1>1, <1>2, <1>3, <1>4, <1>5, <1>6 DEF Next, Work

(* Reduce::enqueue runs the kernel as ReduceKernel specifies it: launches  *)
(* do not overlap and each has the arguments of an accepted call, whatever *)
(* fails and however the queue schedules the commands.                     *)
THEOREM RefinesKernel == Spec => KernelSpec
<1>1. HostInit => Init
  BY DEF HostInit
<1> QED
  BY <1>1, StepRefinesKernel, QueueInvariant, PTL DEF Spec, KernelSpec

(* So the inductive invariant of the kernel holds under the host.          *)
THEOREM HostKernelInvariant == Spec => []IInv
  BY RefinesKernel, KernelInvariant, PTL

(* The last group of a launch adds up partial sums nobody changes.         *)
THEOREM HostPartialsStable == Spec => PartialsStable
  BY RefinesKernel, PartialsUntouched, PTL

(* A buffer that a completed kernel wrote holds the sum of its range.      *)
THEOREM HostResultCorrect ==
    ASSUME RequestsFit
    PROVE  Spec => []ResultCorrect
  BY RefinesKernel, ReduceCorrect, PTL

(* Waiting for the event of the previous call keeps executions apart: while*)
(* a kernel is executing no other command of the object can start.         *)
THEOREM ReduceExecutionsDisjoint == Spec => []ExecutionsDisjoint
<1>1. QueueInv => ExecutionsDisjoint
  BY ReadyIsAlone DEF ExecutionsDisjoint
<1> QED
  BY <1>1, QueueInvariant, PTL

-----------------------------------------------------------------------------
(* The overflow check of reduce.cpp:281 does what it is for: an accepted   *)
(* range lies in the buffer.                                               *)
LEMMA AcceptedRange ==
    ASSUME NEW c \in Calls, Valid(c)
    PROVE  c.first + c.elements <= c.inBytes \div ElementSize
<1>1. c.first \in 0 .. SizeT - 1 /\ c.elements \in 0 .. SizeT - 1 /\ c.inBytes \in Nat
  BY CallsAssumption DEF CallType
<1> DEFINE f == c.first
           n == c.elements
           m == c.inBytes \div ElementSize
<1>2. (f + n) % SizeT >= f /\ m >= (f + n) % SizeT
  BY DEF Valid, RangeFits
<1>3. SizeT \in Nat \ {0} /\ f \in 0 .. SizeT - 1 /\ n \in 0 .. SizeT - 1
  BY <1>1, SizesAssumption
<1>4. m \in Nat
  BY <1>1, SizesAssumption
<1> HIDE DEF f, n, m
<1>5. f + n < SizeT
  <2> SUFFICES ASSUME f + n >= SizeT PROVE FALSE
    BY <1>3
  <2>1. f + n - SizeT \in 0 .. SizeT - 1
    BY <1>3
  <2>2. (f + n) % SizeT = f + n - SizeT
    BY <1>3, <2>1
  <2> QED
    BY <1>2, <1>3, <2>2
<1>6. (f + n) % SizeT = f + n
  BY <1>3, <1>5
<1> QED
  BY <1>2, <1>6 DEF f, n, m

(* A block holds only indices of the requested range, also when the uint   *)
(* arguments wrap.                                                         *)
LEMMA BlockInRange ==
    ASSUME TypeOK, NEW g \in Groups, NEW e \in BlockSum(g)
    PROVE  e[2] < request.first + request.elements
<1>1. request \in RequestType
  BY RequestsAssumption DEF TypeOK, RequestType
<1>2. request.first \in Nat /\ request.elements \in Nat /\ Uint \in Nat \ {0}
  BY <1>1, UintAssumption DEF RequestType
<1>3. /\ startArg \in Nat /\ startArg <= request.first
      /\ elementsArg \in Nat /\ elementsArg <= request.elements
  BY <1>2 DEF startArg, elementsArg
<1>4. blockSize \in Nat
  BY <1>1, BlockSizeFacts
<1>5. g \in Nat /\ blockSizeArg \in Nat
  BY <1>2, <1>4, BlocksAssumption DEF blockSizeArg, Groups
<1>6. First(g) \in Nat
  <2>1. g * blockSizeArg \in Nat
    BY <1>5
  <2> QED
    BY <1>2, <2>1 DEF First
<1>7. Last(g) \in Nat /\ Last(g) <= elementsArg
  BY <1>2, <1>3, <1>5, <1>6 DEF Last, MinOf
<1>8. PICK i \in First(g) .. Last(g) - 1 : e = <<launch, startArg + i>>
  BY DEF BlockSum
<1> QED
  BY <1>2, <1>3, <1>6, <1>7, <1>8

(* The kernel executes with the arguments of the command that is running.  *)
LEMMA RunningRequest ==
    ASSUME QueueInv, NEW i \in 1 .. Len(cmds), cmds[i].status = "running"
    PROVE  /\ cmds[i].call \in Calls /\ Valid(cmds[i].call)
           /\ request = RequestOf(cmds[i].call)
<1>0. IsQueue(cmds) /\ Len(cmds) \in Nat
  BY DEF QueueInv, QueueOK, IsQueue
<1>1. CommandOK(cmds[i]) /\ cmds[i].kind = "reduce"
  BY DEF QueueInv, CommandsOK, ReadOK, CommandOK
<1>2. Newest(cmds, i)
  BY <1>0, <1>1 DEF Newest, QueueInv, QueueOK, Serial, IsDone
<1> QED
  BY <1>1, <1>2 DEF QueueInv, DeviceOK, CommandOK

(* No accepted call makes the kernel read outside the input buffer, or     *)
(* write to another element than the one the caller named.                 *)
THEOREM ReduceAccessesInBounds == Spec => []AccessesInBounds
<1>1. QueueInv /\ IInv => AccessesInBounds
  <2> SUFFICES ASSUME QueueInv, IInv PROVE AccessesInBounds
    OBVIOUS
  <2>0. TypeOK /\ IsQueue(cmds) /\ Len(cmds) \in Nat
    BY DEF IInv, QueueInv, QueueOK, IsQueue
  <2>1. HostTypeOK
    BY <2>0 DEF QueueInv, CommandsOK, CommandOK, QueueOK, WaitsBack, HostOK, HostTypeOK
  <2>2. ASSUME NEW i \in 1 .. Len(cmds), cmds[i].status = "running",
               NEW g \in Groups, NEW e \in BlockSum(g)
        PROVE  e[2] < cmds[i].call.inBytes \div ElementSize
    <3> DEFINE c == cmds[i].call
    <3>1. c \in Calls /\ Valid(c) /\ request = RequestOf(c)
      BY <2>2, RunningRequest
    <3>2. e[2] < c.first + c.elements
      BY <2>0, <2>2, <3>1, BlockInRange DEF RequestOf
    <3>3. c.first + c.elements <= c.inBytes \div ElementSize
      BY <3>1, AcceptedRange
    <3>4. c.first \in Int /\ c.elements \in Int /\ c.inBytes \div ElementSize \in Int
      BY <3>1, CallsAssumption, SizesAssumption, SMTT(30) DEF CallType
    <3>5. e[2] \in Int
      BY <2>0, <2>2, BlockSumType DEF Element
    <3> QED
      BY <3>2, <3>3, <3>4, <3>5
  <2>3. ASSUME NEW i \in 1 .. Len(cmds), cmds[i].status = "running",
               cmds[i].call.form = "buffer"
        PROVE  request.out = <<"out", cmds[i].call.outPosition>>
    <3> DEFINE c == cmds[i].call
    <3>1. c \in Calls /\ Valid(c) /\ request = RequestOf(c)
      BY <2>3, RunningRequest
    <3>2. c.outPosition \in Nat /\ c.outPosition < Uint
      BY <2>3, <3>1, CallsAssumption, PositionsAssumption DEF CallType
    <3>3. c.outPosition % Uint = c.outPosition
      BY <3>2
    <3> QED
      BY <2>3, <3>1, <3>3 DEF RequestOf, Destination
  <2> QED
    BY <2>1, <2>2, <2>3 DEF AccessesInBounds
<1> QED
  BY <1>1, QueueInvariant, HostKernelInvariant, PTL
-----------------------------------------------------------------------------
\* The sum that call c asks launch n for.
SumOf(n, c) == Once({<<n, c.first + j>> : j \in 0 .. c.elements - 1})

(* A read copies the slot before any later kernel can overwrite it.        *)
LEMMA ReadCopiesOwnResult ==
    ASSUME QueueInv, ResultCorrect, NEW k \in 1 .. Len(cmds), ExecuteRead(k)
    PROVE  out[Slot] = SumOf(cmds[k - 1].launch, cmds[k].call)
<1>0. Len(cmds) \in Nat
  BY DEF QueueInv, QueueOK, IsQueue
<1>1. ReadOK(cmds, k) /\ Ready(k)
  BY DEF ExecuteRead, QueueInv, CommandsOK
<1>2. k - 1 \in 1 .. Len(cmds)
  BY <1>0, <1>1 DEF ReadOK
<1>3. /\ IsDone(cmds, k - 1) /\ ~running
      /\ \A i \in k .. Len(cmds) : cmds[i].status = "queued"
  BY <1>0, <1>1, <1>2, ReadyIsAlone
<1>4. Newest(cmds, k - 1)
  BY <1>0, <1>1, <1>2, <1>3 DEF Newest, ReadOK, IsDone
<1>5. /\ launch > 0 /\ cmds[k - 1].launch = launch
      /\ request = RequestOf(cmds[k].call)
  BY <1>1, <1>2, <1>4 DEF QueueInv, DeviceOK, ReadOK
<1>6. out[request.out] = Requested
  BY <1>3, <1>5 DEF ResultCorrect
<1>7. /\ request.out = Slot /\ request.first = cmds[k].call.first
      /\ request.elements = cmds[k].call.elements
  BY <1>1, <1>5 DEF RequestOf, Destination, ReadOK
<1> QED
  BY <1>5, <1>6, <1>7 DEF Requested, SumOf

(* What a completed read delivered, and the launch it belongs to, stay.    *)
LEMMA NextOwnResult ==
    ASSUME QueueInv, ResultCorrect, HostGetsOwnResult, [Next]_vars
    PROVE  HostGetsOwnResult'
<1>0. Len(cmds) \in Nat /\ IsQueue(cmds)
  BY DEF QueueInv, QueueOK, IsQueue
<1>1. ASSUME NEW q, q = cmds',
             \A i \in 1 .. Len(q) : q[i].kind = "read" /\ IsDone(q, i)
                 => q[i].value = SumOf(q[i - 1].launch, q[i].call)
      PROVE  HostGetsOwnResult'
  BY <1>1 DEF HostGetsOwnResult, IsComplete, IsDone, SumOf
<1>2. \A i \in 1 .. Len(cmds) : cmds[i].kind = "read" /\ IsDone(cmds, i)
          => cmds[i].value = SumOf(cmds[i - 1].launch, cmds[i].call)
  BY DEF HostGetsOwnResult, IsComplete, IsDone, SumOf
<1>3. ASSUME cmds' = cmds PROVE HostGetsOwnResult'
  BY <1>1, <1>2, <1>3
<1>4. ASSUME NEW x, x.status = "queued", cmds' = Append(cmds, x)
      PROVE  HostGetsOwnResult'
  <2>1. /\ Len(cmds') = Len(cmds) + 1 /\ cmds'[Len(cmds) + 1] = x
        /\ \A i \in 1 .. Len(cmds) : cmds'[i] = cmds[i]
    BY <1>0, <1>4, QueueAppend
  <2>2. ASSUME NEW i \in 1 .. Len(cmds'), cmds'[i].kind = "read", IsDone(cmds', i)
        PROVE  cmds'[i].value = SumOf(cmds'[i - 1].launch, cmds'[i].call)
    <3>1. i \in 1 .. Len(cmds) /\ cmds'[i] = cmds[i] /\ IsDone(cmds, i)
      BY <1>0, <1>4, <2>1, <2>2 DEF IsDone
    <3>2. i - 1 \in 1 .. Len(cmds)
      BY <1>0, <2>2, <3>1 DEF QueueInv, CommandsOK, ReadOK
    <3> QED
      BY <1>2, <2>1, <2>2, <3>1, <3>2
  <2> QED
    BY <1>1, <2>2
<1>5. ASSUME NEW k \in 1 .. Len(cmds), NEW x, Updated(cmds, k, x, cmds'),
             x.kind = cmds[k].kind, x.call = cmds[k].call, ~IsDone(cmds, k),
             x.kind = "read" /\ x.status = "complete"
                 => x.value = SumOf(cmds[k - 1].launch, x.call)
      PROVE  HostGetsOwnResult'
  <2>1. /\ Len(cmds') = Len(cmds) /\ cmds'[k] = x
        /\ \A i \in 1 .. Len(cmds) : i # k => cmds'[i] = cmds[i]
    BY <1>0, <1>5, QueueExcept
  <2>2. ASSUME NEW i \in 1 .. Len(cmds'), cmds'[i].kind = "read", IsDone(cmds', i)
        PROVE  cmds'[i].value = SumOf(cmds'[i - 1].launch, cmds'[i].call)
    <3>1. cmds[i].kind = "read" /\ i \in 1 .. Len(cmds)
      BY <1>5, <2>1, <2>2
    <3>2. ReadOK(cmds, i) /\ i - 1 \in 1 .. Len(cmds)
      BY <1>0, <3>1 DEF QueueInv, CommandsOK, ReadOK
    <3>3. CASE i = k
      <4>1. i - 1 # k
        BY <1>0, <3>3
      <4> QED
        BY <1>5, <2>1, <2>2, <3>2, <3>3, <4>1 DEF IsDone
    <3>4. CASE i # k
      <4>1. cmds'[i] = cmds[i] /\ IsDone(cmds, i)
        BY <2>1, <2>2, <3>1, <3>4 DEF IsDone
      <4>2. IsDone(cmds, i - 1)
        BY <3>1, <3>2, <4>1 DEF QueueInv, QueueOK, Serial, IsDone
      <4>3. cmds'[i - 1] = cmds[i - 1]
        BY <1>5, <2>1, <3>2, <4>2
      <4> QED
        BY <1>2, <3>1, <4>1, <4>3
    <3> QED
      BY <3>3, <3>4
  <2> QED
    BY <1>1, <2>2
<1>6. ASSUME NEW k \in 1 .. Len(cmds), StartReduce(k) PROVE HostGetsOwnResult'
  <2> DEFINE y == [cmds[k] EXCEPT !.status = "running"]
             x == [y EXCEPT !.launch = launch + 1]
  <2>1. CommandOK(cmds[k]) /\ cmds[k].kind = "reduce" /\ ~IsDone(cmds, k)
    BY <1>6 DEF QueueInv, CommandsOK, StartReduce, Ready, IsDone
  <2>2. Updated(cmds, k, x, cmds')
    BY <1>6 DEF StartReduce, Updated
  <2>3. x.kind = "reduce" /\ x.call = cmds[k].call
    BY <2>1 DEF CommandOK
  <2> HIDE DEF x
  <2> QED
    BY <1>5, <2>1, <2>2, <2>3
<1>7. ASSUME NEW k \in 1 .. Len(cmds), FinishReduce(k) PROVE HostGetsOwnResult'
  <2> DEFINE x == [cmds[k] EXCEPT !.status = "complete"]
  <2>1. /\ CommandOK(cmds[k]) /\ cmds[k].kind = "reduce" /\ ~IsDone(cmds, k)
    BY <1>7 DEF QueueInv, CommandsOK, CommandOK, ReadOK, FinishReduce, IsDone
  <2>2. Updated(cmds, k, x, cmds')
    BY <1>7 DEF FinishReduce, Updated
  <2>3. x.kind = "reduce" /\ x.call = cmds[k].call
    BY <2>1 DEF CommandOK
  <2> HIDE DEF x
  <2> QED
    BY <1>5, <2>1, <2>2, <2>3
<1>8. ASSUME NEW k \in 1 .. Len(cmds), ExecuteRead(k) PROVE HostGetsOwnResult'
  <2> DEFINE y == [cmds[k] EXCEPT !.status = "complete"]
             x == [y EXCEPT !.value = out[Slot]]
  <2>1. CommandOK(cmds[k]) /\ cmds[k].kind = "read" /\ ~IsDone(cmds, k)
    BY <1>8 DEF QueueInv, CommandsOK, ExecuteRead, Ready, IsDone
  <2>2. Updated(cmds, k, x, cmds')
    BY <1>8 DEF ExecuteRead, Updated
  <2>3. x.kind = "read" /\ x.call = cmds[k].call /\ x.value = out[Slot]
    BY <2>1 DEF CommandOK
  <2>4. out[Slot] = SumOf(cmds[k - 1].launch, cmds[k].call)
    BY <1>8, ReadCopiesOwnResult
  <2> HIDE DEF x
  <2> QED
    BY <1>5, <2>1, <2>2, <2>3, <2>4
<1>9. ASSUME NEW c \in Calls, EnqueueReduce(c) PROVE HostGetsOwnResult'
  BY <1>4, <1>9 DEF EnqueueReduce, ReduceCommand
<1>10. CASE EnqueueRead
  BY <1>4, <1>10 DEF EnqueueRead, ReadCommand
<1> QED
  BY <1>3, <1>6, <1>7, <1>8, <1>9, <1>10
  DEF Next, HostStep, Work, RejectCall, EnqueueFails, EnqueueReadFails,
      ReadReturns, QueueFinish, ExecuteGroup, vars, hostVars

(* The method that returns the sum to host memory delivers the sum of its  *)
(* own call, although all calls share one slot of sums and one counter.    *)
THEOREM HostResult ==
    ASSUME RequestsFit
    PROVE  Spec => []HostGetsOwnResult
<1>1. HostInit => HostGetsOwnResult
  BY DEF HostInit, HostGetsOwnResult
<1>2. QueueInv /\ ResultCorrect /\ HostGetsOwnResult /\ [Next]_vars => HostGetsOwnResult'
  BY NextOwnResult
<1> QED
  BY <1>1, <1>2, QueueInvariant, HostResultCorrect, PTL DEF Spec

=============================================================================
