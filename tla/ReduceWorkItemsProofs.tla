----------------------- MODULE ReduceWorkItemsProofs -----------------------
(***************************************************************************)
(* The work-items of a group leave the reduce kernel together, and the     *)
(* counter of work-groups keeps counting the groups that are not done, for *)
(* every number of groups, work-group size and set of requests.            *)
(***************************************************************************)
EXTENDS ReduceWorkItems, FiniteSetTheorems, TLAPS

(* The work-group size as the proofs use it.                               *)
LEMMA Sizes == Blocks \in Nat \ {0} /\ Steps \in Nat /\ WGS \in Nat \ {0}
  BY BlocksAssumption, StepsAssumption

LEMMA Leader == 0 \in Items
  BY Sizes DEF Items

USE Sizes, Leader DEF Final, End

(***************************************************************************)
(* The inductive invariant.                                                *)
(***************************************************************************)
\* The barriers keep the work-items of a group within one segment of each
\* other; only those that returned because done is false are ahead.
Together(g) ==
    \A l, m \in Items :
        \/ phase[g][l] <= phase[g][m] + 1
        \/ ~done[g] /\ phase[g][l] = End /\ phase[g][m] >= Final

\* Only a group that found done set runs the second reduceRange.
SecondRange(g) ==
    \A l \in Items : phase[g][l] \in Final + 1 .. End - 1 => done[g]

\* While work-item 0 publishes alone, the others wait at the next barrier or
\* have still to finish the segment it has just left.
LeaderOK(g) ==
    /\ leader[g] \in {"store", "count"} =>
          phase[g][0] = Steps /\ \A m \in Items : phase[g][m] >= Steps
    /\ leader[g] \in {"reset", "write"} =>
          /\ phase[g][0] = End - 1 /\ done[g]
          /\ \A m \in Items : phase[g][m] >= End - 1

GroupInv(g) == Together(g) /\ SecondRange(g) /\ LeaderOK(g)

\* The groups that have not decremented the counter in this launch.
Uncounted == {g \in Groups : phase[g][0] <= Steps}

\* The group that took the counter to 0 and has not put it back yet.
Resets(g) == done[g] /\ phase[g][0] \in Final .. End - 1 /\ leader[g] # "write"

CounterOK ==
    /\ Uncounted # {} => wgc = Cardinality(Uncounted)
    /\ Uncounted = {} => wgc = Blocks \/ (wgc = 0 /\ \E g \in Groups : Resets(g))
    /\ \A g \in Groups : done[g] /\ g \notin Uncounted => Uncounted = {}

Idle == \A g \in Groups, l \in Items : phase[g][l] = End

\* Without the range of the counter, which follows from the rest.
Shapes ==
    /\ running \in BOOLEAN
    /\ pending \subseteq Groups
    /\ DOMAIN sums = Groups /\ \A g \in Groups : DOMAIN sums[g] = Items
    /\ done \in [Groups -> BOOLEAN]
    /\ phase \in [Groups -> [Items -> 0 .. End]]
    /\ leader \in [Groups -> {"segment", "store", "count", "reset", "write"}]

ItemsInv ==
    /\ Shapes
    /\ \A g \in Groups : GroupInv(g)
    /\ CounterOK
    /\ ~running => Idle

(* What a step of one work-item does to phase.                             *)
LEMMA PhaseExcept ==
    ASSUME NEW f \in [Groups -> [Items -> 0 .. End]], NEW g \in Groups,
           NEW l \in Items, NEW n \in 0 .. End, NEW f2,
           f2 = [f EXCEPT ![g][l] = n]
    PROVE  /\ f2 \in [Groups -> [Items -> 0 .. End]]
           /\ f2[g][l] = n
           /\ \A m \in Items : m # l => f2[g][m] = f[g][m]
           /\ \A h \in Groups : h # g => f2[h] = f[h]
<1>1. f[g] \in [Items -> 0 .. End]
  OBVIOUS
<1>2. f2 = [f EXCEPT ![g] = [f[g] EXCEPT ![l] = n]]
  OBVIOUS
<1> DEFINE row == [f[g] EXCEPT ![l] = n]
<1>3. row \in [Items -> 0 .. End] /\ row[l] = n /\ \A m \in Items : m # l => row[m] = f[g][m]
  BY <1>1
<1> HIDE DEF row
<1>4. f2 = [f EXCEPT ![g] = row]
  BY <1>2 DEF row
<1>5. f2 \in [Groups -> [Items -> 0 .. End]] /\ f2[g] = row /\ \A h \in Groups : h # g => f2[h] = f[h]
  BY <1>3, <1>4
<1> QED
  BY <1>3, <1>5

LEMMA GroupsFinite == IsFiniteSet(Groups) /\ Cardinality(Groups) = Blocks
  BY FS_Interval, 0 \in Int, Blocks - 1 \in Int DEF Groups

LEMMA UncountedFinite ==
    /\ IsFiniteSet(Uncounted) /\ Cardinality(Uncounted) \in 0 .. Blocks
    /\ Uncounted = Groups => Cardinality(Uncounted) = Blocks
<1>1. Uncounted \subseteq Groups
  BY DEF Uncounted
<1>2. IsFiniteSet(Uncounted) /\ Cardinality(Uncounted) <= Cardinality(Groups)
  BY <1>1, GroupsFinite, FS_Subset
<1>3. Cardinality(Uncounted) \in Nat
  BY <1>2, FS_CardinalityType
<1> QED
  BY <1>2, <1>3, GroupsFinite

(* A step leaves the invariant of a group it does not touch alone.         *)
LEMMA OtherGroup ==
    ASSUME NEW h \in Groups, GroupInv(h),
           phase'[h] = phase[h], done'[h] = done[h], leader'[h] = leader[h]
    PROVE  GroupInv(h)'
  BY DEF GroupInv, Together, SecondRange, LeaderOK

(* The set of groups not counted depends on work-item 0 alone.             *)
LEMMA SameUncounted ==
    ASSUME \A h \in Groups : phase'[h][0] <= Steps <=> phase[h][0] <= Steps
    PROVE  Uncounted' = Uncounted
  BY DEF Uncounted

(* A work-item that runs a segment is not ahead of any other of its group, *)
(* so that after it none is more than one segment ahead.                   *)
LEMMA AdvanceInv ==
    ASSUME ItemsInv, NEW g \in Groups, NEW l \in Items,
           CanRun(g, l), phase[g][l] = Final => done[g], FinishSegment(g, l),
           DOMAIN sums' = Groups /\ \A h \in Groups : DOMAIN sums'[h] = Items,
           UNCHANGED <<running, pending, wgc, done>>
    PROVE  ItemsInv'
<1>0. Shapes /\ GroupInv(g) /\ CounterOK
  BY DEF ItemsInv
<1>p. PICK p \in 0 .. End - 1 : p = phase[g][l]
  BY <1>0 DEF CanRun, Shapes
<1> DEFINE stays == l = 0 /\ p \in {Steps, End - 1}
<1>1. /\ done[g] \in BOOLEAN
      /\ \A m \in Items : phase[g][m] \in 0 .. End /\ phase[g][m] >= p
      /\ l = 0 => leader[g] = "segment"
  BY <1>0, <1>p DEF CanRun, BarrierPassed, Shapes
<1>2. CASE stays
  <2>1. /\ phase' = phase
        /\ leader' = [leader EXCEPT ![g] = IF p = Steps THEN "store" ELSE "reset"]
    BY <1>p, <1>2 DEF FinishSegment
  <2>2. /\ leader'[g] = IF p = Steps THEN "store" ELSE "reset"
        /\ \A h \in Groups : h # g => leader'[h] = leader[h]
        /\ leader' \in [Groups -> {"segment", "store", "count", "reset", "write"}]
    BY <1>0, <2>1 DEF Shapes
  <2>3. Shapes'
    BY <1>0, <2>1, <2>2 DEF Shapes
  <2>4. GroupInv(g)'
    <3>1. p # Steps => p = End - 1 /\ done[g]
      BY <1>p, <1>0, <1>1, <1>2 DEF GroupInv, SecondRange
    <3>2. LeaderOK(g)'
      BY <1>p, <1>1, <1>2, <2>1, <2>2, <3>1 DEF LeaderOK
    <3> QED
      BY <1>0, <2>1, <3>2 DEF GroupInv, Together, SecondRange
  <2>5. \A h \in Groups : GroupInv(h)'
    <3> SUFFICES ASSUME NEW h \in Groups, h # g PROVE GroupInv(h)'
      BY <2>4
    <3> QED
      BY <2>1, <2>2, OtherGroup DEF ItemsInv
  <2>6. Uncounted' = Uncounted /\ \A h \in Groups : Resets(h) => Resets(h)'
    BY <2>1, <2>2 DEF Uncounted, Resets
  <2>7. CounterOK'
    BY <1>0, <2>6 DEF CounterOK
  <2> QED
    BY <2>1, <2>3, <2>5, <2>7 DEF ItemsInv, Idle
<1>3. CASE ~stays
  <2>1. phase' = [phase EXCEPT ![g][l] = p + 1] /\ leader' = leader
    BY <1>p, <1>3 DEF FinishSegment
  <2>2. /\ phase' \in [Groups -> [Items -> 0 .. End]]
        /\ phase'[g][l] = p + 1
        /\ \A m \in Items : m # l => phase'[g][m] = phase[g][m]
        /\ \A h \in Groups : h # g => phase'[h] = phase[h]
    <3>1. phase \in [Groups -> [Items -> 0 .. End]] /\ p + 1 \in 0 .. End
      BY <1>0, <1>1 DEF Shapes
    <3> QED
      BY <2>1, <3>1, PhaseExcept
  <2>3. Shapes'
    BY <1>0, <2>1, <2>2 DEF Shapes
  <2>4. Together(g)'
    <3> SUFFICES ASSUME NEW j \in Items, NEW m \in Items
                 PROVE  \/ phase'[g][j] <= phase'[g][m] + 1
                        \/ ~done[g] /\ phase'[g][j] = End /\ phase'[g][m] >= Final
      BY DEF Together
    <3>1. \/ phase[g][j] <= phase[g][m] + 1
          \/ ~done[g] /\ phase[g][j] = End /\ phase[g][m] >= Final
      BY <1>0 DEF GroupInv, Together
    <3>2. phase'[g][m] >= phase[g][m] /\ phase[g][m] \in 0 .. End /\ phase[g][j] \in 0 .. End
          /\ phase'[g][m] \in 0 .. End
      BY <1>p, <1>1, <2>2
    <3>3. CASE j # l
      BY <2>2, <3>1, <3>2, <3>3
    <3>4. CASE j = l
      <4>1. phase'[g][j] = p + 1 /\ phase[g][m] >= p /\ p \in Int
        BY <1>1, <2>2, <3>4
      <4> QED
        BY <3>2, <4>1
    <3> QED
      BY <3>3, <3>4
  <2>5. SecondRange(g)'
    <3> SUFFICES ASSUME NEW j \in Items, phase'[g][j] \in Final + 1 .. End - 1
                 PROVE  done[g]
      BY DEF SecondRange
    <3>1. CASE j # l
      BY <1>0, <2>2, <3>1 DEF GroupInv, SecondRange
    <3>2. CASE j = l
      BY <1>p, <1>0, <1>1, <2>2, <3>2 DEF GroupInv, SecondRange
    <3> QED
      BY <3>1, <3>2
  <2>6. LeaderOK(g)'
    <3>1. l = 0 => leader'[g] = "segment"
      BY <1>1, <2>1
    <3>2. l # 0 => phase'[g][0] = phase[g][0]
      BY <1>1, <2>2
    <3>3. \A m \in Items : phase'[g][m] >= phase[g][m] /\ phase'[g][m] \in Int
                           /\ phase[g][m] \in Int
      BY <1>p, <1>1, <2>2
    <3>4. LeaderOK(g) /\ leader'[g] = leader[g]
      BY <1>0, <2>1 DEF GroupInv
    <3> QED
      BY <3>1, <3>2, <3>3, <3>4 DEF LeaderOK
  <2>7. \A h \in Groups : GroupInv(h)'
    <3> SUFFICES ASSUME NEW h \in Groups, h # g PROVE GroupInv(h)'
      BY <2>4, <2>5, <2>6 DEF GroupInv
    <3> QED
      BY <2>1, <2>2, OtherGroup DEF ItemsInv
  <2>8. Uncounted' = Uncounted
    <3>1. ASSUME NEW h \in Groups PROVE phase'[h][0] <= Steps <=> phase[h][0] <= Steps
      <4>1. CASE h = g /\ l = 0
        <5>1. phase'[h][0] = p + 1 /\ phase[h][0] = p /\ p # Steps
          BY <1>p, <1>3, <2>2, <4>1
        <5> QED
          BY <5>1
      <4>2. CASE h # g \/ l # 0
        <5>1. phase'[h][0] = phase[h][0]
          BY <2>2, <4>2
        <5> QED
          BY <5>1
      <4> QED
        BY <4>1, <4>2
    <3> QED
      BY <3>1, SameUncounted
  <2>9. ASSUME NEW h \in Groups, Resets(h) PROVE Resets(h)'
    <3>1. CASE h = g /\ l = 0
      BY <1>p, <1>1, <1>3, <2>1, <2>2, <2>9, <3>1 DEF Resets
    <3>2. CASE h # g \/ l # 0
      BY <1>1, <2>1, <2>2, <2>9, <3>2 DEF Resets
    <3> QED
      BY <3>1, <3>2
  <2>10. CounterOK'
    BY <1>0, <2>8, <2>9 DEF CounterOK
  <2>11. running
    BY <1>p, <1>1 DEF ItemsInv, Idle
  <2> QED
    BY <2>3, <2>7, <2>10, <2>11 DEF ItemsInv
<1> QED
  BY <1>2, <1>3

(* A group that has not counted yet is alone in what it changes.           *)
LEMMA DecrementInv ==
    ASSUME ItemsInv, NEW g \in Groups, DecrementCounter(g)
    PROVE  ItemsInv'
<1>0. Shapes /\ GroupInv(g) /\ CounterOK
  BY DEF ItemsInv
<1>1. /\ phase[g][0] = Steps
      /\ \A m \in Items : phase[g][m] \in Steps .. Final
  <2>1. phase[g][0] = Steps /\ \A m \in Items : phase[g][m] >= Steps
    BY <1>0 DEF DecrementCounter, GroupInv, LeaderOK
  <2>2. \A m \in Items : phase[g][m] <= phase[g][0] + 1
    BY <1>0, <2>1 DEF GroupInv, Together
  <2>3. \A m \in Items : phase[g][m] \in Int
    BY <1>0 DEF Shapes
  <2> QED
    BY <2>1, <2>2, <2>3
<1>2. /\ wgc' = wgc - 1 /\ UNCHANGED <<running, pending, sums>>
      /\ done' = [done EXCEPT ![g] = (wgc = 1)]
      /\ leader' = [leader EXCEPT ![g] = "segment"]
  BY DEF DecrementCounter
<1>3. /\ phase' \in [Groups -> [Items -> 0 .. End]]
      /\ phase'[g][0] = Final
      /\ \A m \in Items : m # 0 => phase'[g][m] = phase[g][m]
      /\ \A h \in Groups : h # g => phase'[h] = phase[h]
  <2>1. phase' = [phase EXCEPT ![g][0] = Final]
    BY <1>1 DEF DecrementCounter
  <2>2. phase \in [Groups -> [Items -> 0 .. End]] /\ Final \in 0 .. End
    BY <1>0 DEF Shapes
  <2> QED
    BY <2>1, <2>2, PhaseExcept
<1>4. /\ done'[g] = (wgc = 1) /\ leader'[g] = "segment"
      /\ \A h \in Groups : h # g => done'[h] = done[h] /\ leader'[h] = leader[h]
  BY <1>0, <1>2 DEF Shapes
<1>5. Shapes'
  <2>1. done' \in [Groups -> BOOLEAN]
    BY <1>0, <1>2 DEF Shapes
  <2>2. leader' \in [Groups -> {"segment", "store", "count", "reset", "write"}]
    BY <1>0, <1>2 DEF Shapes
  <2> QED
    BY <1>0, <1>2, <1>3, <2>1, <2>2 DEF Shapes
<1>6. \A m \in Items : phase'[g][m] \in Steps .. Final
  BY <1>1, <1>3
<1>7. GroupInv(g)'
  <2>1. Together(g)'
    BY <1>6 DEF Together
  <2>2. SecondRange(g)'
    BY <1>6 DEF SecondRange
  <2>3. LeaderOK(g)'
    BY <1>4 DEF LeaderOK
  <2> QED
    BY <2>1, <2>2, <2>3 DEF GroupInv
<1>8. \A h \in Groups : GroupInv(h)'
  <2> SUFFICES ASSUME NEW h \in Groups, h # g PROVE GroupInv(h)'
    BY <1>7
  <2> QED
    BY <1>3, <1>4, OtherGroup DEF ItemsInv
<1>9. g \in Uncounted /\ Uncounted' = Uncounted \ {g}
  <2>1. g \in Uncounted
    BY <1>1 DEF Uncounted
  <2>2. g \notin Uncounted'
    BY <1>3 DEF Uncounted
  <2>3. \A h \in Groups : h # g => (h \in Uncounted' <=> h \in Uncounted)
    BY <1>3 DEF Uncounted
  <2>4. Uncounted \subseteq Groups /\ Uncounted' \subseteq Groups
    BY DEF Uncounted
  <2> QED
    BY <2>1, <2>2, <2>3, <2>4
<1>10. wgc = Cardinality(Uncounted) /\ wgc \in Nat
       /\ Cardinality(Uncounted') = wgc - 1
  <2>1. wgc = Cardinality(Uncounted)
    BY <1>0, <1>9 DEF CounterOK
  <2>2. Cardinality(Uncounted \ {g}) = Cardinality(Uncounted) - 1
    BY <1>9, UncountedFinite, FS_RemoveElement
  <2> QED
    BY <1>9, <2>1, <2>2, UncountedFinite
<1>11. IsFiniteSet(Uncounted') /\ (Uncounted' = {} <=> wgc = 1)
  <2>1. IsFiniteSet(Uncounted')
    BY <1>9, UncountedFinite, FS_RemoveElement
  <2> QED
    BY <1>10, <2>1, FS_EmptySet
<1>12. CounterOK'
  <2>1. Uncounted' # {} => wgc' = Cardinality(Uncounted')
    BY <1>2, <1>10
  <2>2. Uncounted' = {} => wgc' = 0 /\ Resets(g)'
    <3> SUFFICES ASSUME Uncounted' = {} PROVE wgc' = 0 /\ Resets(g)'
      OBVIOUS
    <3>1. wgc = 1
      BY <1>11
    <3>2. done'[g]
      BY <1>4, <3>1
    <3>3. wgc' = 0 /\ phase'[g][0] \in Final .. End - 1 /\ leader'[g] # "write"
      BY <1>2, <1>3, <1>4, <3>1
    <3> QED
      BY <3>2, <3>3 DEF Resets
  <2>3. ASSUME NEW h \in Groups, done'[h], h \notin Uncounted' PROVE Uncounted' = {}
    <3>1. CASE h = g
      BY <1>4, <1>11, <2>3, <3>1
    <3>2. CASE h # g
      BY <1>0, <1>4, <1>9, <2>3, <3>2 DEF CounterOK
    <3> QED
      BY <3>1, <3>2
  <2> QED
    BY <2>1, <2>2, <2>3 DEF CounterOK
<1>13. running
  BY <1>1 DEF ItemsInv, Idle
<1> QED
  BY <1>2, <1>5, <1>8, <1>12, <1>13 DEF ItemsInv

(* The work-items that return do so because done is false, and none of the *)
(* group is before the test.                                               *)
LEMMA ReturnInv ==
    ASSUME ItemsInv, NEW g \in Groups, NEW l \in Items, Return(g, l)
    PROVE  ItemsInv'
<1>0. Shapes /\ GroupInv(g) /\ CounterOK
  BY DEF ItemsInv
<1>1. /\ phase[g][l] = Final /\ ~done[g]
      /\ \A m \in Items : phase[g][m] \in Final .. End
      /\ l = 0 => leader[g] = "segment"
  BY <1>0 DEF Return, CanRun, BarrierPassed, Shapes
<1>2. UNCHANGED <<running, pending, wgc, sums, done, leader>>
  BY DEF Return
<1>3. /\ phase' \in [Groups -> [Items -> 0 .. End]]
      /\ phase'[g][l] = End
      /\ \A m \in Items : m # l => phase'[g][m] = phase[g][m]
      /\ \A h \in Groups : h # g => phase'[h] = phase[h]
  <2>1. phase' = [phase EXCEPT ![g][l] = End]
    BY DEF Return
  <2>2. phase \in [Groups -> [Items -> 0 .. End]] /\ End \in 0 .. End
    BY <1>0 DEF Shapes
  <2> QED
    BY <2>1, <2>2, PhaseExcept
<1>4. Shapes'
  BY <1>0, <1>2, <1>3 DEF Shapes
<1>5. \A m \in Items : phase'[g][m] \in Final .. End /\ phase'[g][m] >= phase[g][m]
  BY <1>1, <1>3
<1>6. GroupInv(g)'
  <2>1. Together(g)'
    <3> SUFFICES ASSUME NEW j \in Items, NEW m \in Items
                 PROVE  \/ phase'[g][j] <= phase'[g][m] + 1
                        \/ phase'[g][j] = End /\ phase'[g][m] >= Final
      BY <1>1, <1>2 DEF Together
    <3>1. CASE j = l
      BY <1>3, <1>5, <3>1
    <3>2. CASE j # l
      <4>1. phase'[g][j] = phase[g][j]
        BY <1>3, <3>2
      <4>2. phase[g][j] <= phase[g][m] + 1 \/ (phase[g][j] = End /\ phase[g][m] >= Final)
        BY <1>0 DEF GroupInv, Together
      <4>3. phase[g][m] \in Int /\ phase[g][j] \in Int
            /\ phase'[g][m] \in Int /\ phase'[g][m] >= phase[g][m]
        BY <1>1, <1>5
      <4> QED
        BY <4>1, <4>2, <4>3
    <3> QED
      BY <3>1, <3>2
  <2>2. SecondRange(g)'
    BY <1>0, <1>2, <1>3 DEF GroupInv, SecondRange
  <2>3. LeaderOK(g)'
    BY <1>0, <1>1, <1>2, <1>3, <1>5 DEF GroupInv, LeaderOK
  <2> QED
    BY <2>1, <2>2, <2>3 DEF GroupInv
<1>7. \A h \in Groups : GroupInv(h)'
  <2> SUFFICES ASSUME NEW h \in Groups, h # g PROVE GroupInv(h)'
    BY <1>6
  <2> QED
    BY <1>2, <1>3, OtherGroup DEF ItemsInv
<1>8. Uncounted' = Uncounted
  <2>1. ASSUME NEW h \in Groups PROVE phase'[h][0] <= Steps <=> phase[h][0] <= Steps
    <3>1. CASE h = g
      BY <1>1, <1>5, <3>1
    <3>2. CASE h # g
      BY <1>3, <3>2
    <3> QED
      BY <3>1, <3>2
  <2> QED
    BY <2>1, SameUncounted
<1>9. \A h \in Groups : Resets(h) => Resets(h)'
  BY <1>1, <1>2, <1>3 DEF Resets
<1>10. CounterOK'
  BY <1>0, <1>2, <1>8, <1>9 DEF CounterOK
<1>11. running
  BY <1>1 DEF ItemsInv, Idle
<1> QED
  BY <1>2, <1>4, <1>7, <1>10, <1>11 DEF ItemsInv

(* A new launch starts all work-items with an idle device and a counter    *)
(* that was put back.                                                      *)
LEMMA LaunchInv ==
    ASSUME ItemsInv, NEW r \in Requests, Launch(r)
    PROVE  ItemsInv'
<1>1. /\ running' = TRUE /\ pending' = pending /\ wgc' = wgc
      /\ sums' = [g \in Groups |-> [l \in Items |-> Uninitialised]]
      /\ done' \in [Groups -> BOOLEAN]
      /\ phase' = [g \in Groups |-> [l \in Items |-> 0]]
      /\ leader' = [g \in Groups |-> "segment"]
      /\ Shapes /\ CounterOK /\ Idle
  BY DEF Launch, ItemsInv
<1>2. \A g \in Groups : leader'[g] = "segment" /\ \A l \in Items : phase'[g][l] = 0
  BY <1>1
<1>3. Shapes'
  <2>1. DOMAIN sums' = Groups /\ \A g \in Groups : DOMAIN sums'[g] = Items
    BY <1>1
  <2>2. phase' \in [Groups -> [Items -> 0 .. End]]
    BY <1>1
  <2>3. leader' \in [Groups -> {"segment", "store", "count", "reset", "write"}]
    BY <1>1
  <2> QED
    BY <1>1, <2>1, <2>2, <2>3 DEF Shapes
<1>4. \A g \in Groups : GroupInv(g)'
  BY <1>2 DEF GroupInv, Together, SecondRange, LeaderOK
<1>5. wgc = Blocks
  <2>1. \A g \in Groups : phase[g][0] = End
    BY <1>1 DEF Idle
  <2>2. Uncounted = {} /\ ~ \E g \in Groups : Resets(g)
    BY <2>1 DEF Uncounted, Resets
  <2> QED
    BY <1>1, <2>2 DEF CounterOK
<1>6. Uncounted' = Groups
  BY <1>2 DEF Uncounted
<1>7. CounterOK'
  <2>1. Cardinality(Uncounted') = Blocks /\ Uncounted' # {}
    <3>1. 0 \in Groups
      BY DEF Groups
    <3> QED
      BY <1>6, <3>1, GroupsFinite
  <2> QED
    BY <1>1, <1>5, <1>6, <2>1 DEF CounterOK
<1> QED
  BY <1>1, <1>3, <1>4, <1>7 DEF ItemsInv

LEMMA StorePartialInv ==
    ASSUME ItemsInv, NEW g \in Groups, StorePartial(g)
    PROVE  ItemsInv'
<1>0. Shapes /\ GroupInv(g) /\ CounterOK
  BY DEF ItemsInv
<1>1. /\ UNCHANGED <<running, wgc, sums, done, phase>> /\ pending' = pending \union {g}
      /\ leader[g] = "store" /\ leader' = [leader EXCEPT ![g] = "count"]
  BY DEF StorePartial
<1>2. /\ leader' \in [Groups -> {"segment", "store", "count", "reset", "write"}]
      /\ leader'[g] = "count" /\ \A h \in Groups : h # g => leader'[h] = leader[h]
  BY <1>0, <1>1 DEF Shapes
<1>3. Shapes'
  BY <1>0, <1>1, <1>2 DEF Shapes
<1>4. GroupInv(g)'
  BY <1>0, <1>1, <1>2 DEF GroupInv, Together, SecondRange, LeaderOK
<1>5. \A h \in Groups : GroupInv(h)'
  <2> SUFFICES ASSUME NEW h \in Groups, h # g PROVE GroupInv(h)'
    BY <1>4
  <2> QED
    BY <1>1, <1>2, OtherGroup DEF ItemsInv
<1>6. Uncounted' = Uncounted /\ \A h \in Groups : Resets(h) => Resets(h)'
  BY <1>1, <1>2 DEF Uncounted, Resets
<1> QED
  BY <1>0, <1>1, <1>3, <1>5, <1>6 DEF ItemsInv, CounterOK, Idle

(* The group that resets the counter has counted all the others.           *)
LEMMA ResetCounterInv ==
    ASSUME ItemsInv, NEW g \in Groups, ResetCounter(g)
    PROVE  ItemsInv'
<1>0. Shapes /\ GroupInv(g) /\ CounterOK
  BY DEF ItemsInv
<1>1. /\ UNCHANGED <<running, pending, sums, done, phase>> /\ wgc' = Blocks
      /\ leader[g] = "reset" /\ leader' = [leader EXCEPT ![g] = "write"]
  BY DEF ResetCounter
<1>2. /\ leader' \in [Groups -> {"segment", "store", "count", "reset", "write"}]
      /\ leader'[g] = "write" /\ \A h \in Groups : h # g => leader'[h] = leader[h]
  BY <1>0, <1>1 DEF Shapes
<1>3. Shapes'
  BY <1>0, <1>1, <1>2 DEF Shapes
<1>4. GroupInv(g)'
  BY <1>0, <1>1, <1>2 DEF GroupInv, Together, SecondRange, LeaderOK
<1>5. \A h \in Groups : GroupInv(h)'
  <2> SUFFICES ASSUME NEW h \in Groups, h # g PROVE GroupInv(h)'
    BY <1>4
  <2> QED
    BY <1>1, <1>2, OtherGroup DEF ItemsInv
<1>6. Uncounted = {} /\ Uncounted' = {}
  <2>1. phase[g][0] = End - 1 /\ done[g]
    BY <1>0, <1>1 DEF GroupInv, LeaderOK
  <2>2. g \notin Uncounted
    BY <2>1 DEF Uncounted
  <2> QED
    BY <1>0, <1>1, <2>1, <2>2 DEF CounterOK, Uncounted
<1>7. CounterOK'
  BY <1>1, <1>6 DEF CounterOK
<1> QED
  BY <1>1, <1>3, <1>5, <1>7 DEF ItemsInv, Idle

LEMMA WriteOutInv ==
    ASSUME ItemsInv, NEW g \in Groups, WriteOut(g)
    PROVE  ItemsInv'
<1>0. Shapes /\ GroupInv(g) /\ CounterOK
  BY DEF ItemsInv
<1>1. /\ UNCHANGED <<running, pending, wgc, sums, done>>
      /\ leader[g] = "write" /\ leader' = [leader EXCEPT ![g] = "segment"]
      /\ phase' = [phase EXCEPT ![g][0] = End]
  BY DEF WriteOut
<1>2. /\ leader' \in [Groups -> {"segment", "store", "count", "reset", "write"}]
      /\ leader'[g] = "segment" /\ \A h \in Groups : h # g => leader'[h] = leader[h]
  BY <1>0, <1>1 DEF Shapes
<1>3. /\ phase' \in [Groups -> [Items -> 0 .. End]]
      /\ phase'[g][0] = End
      /\ \A m \in Items : m # 0 => phase'[g][m] = phase[g][m]
      /\ \A h \in Groups : h # g => phase'[h] = phase[h]
  <2>1. phase \in [Groups -> [Items -> 0 .. End]] /\ End \in 0 .. End
    BY <1>0 DEF Shapes
  <2> QED
    BY <1>1, <2>1, PhaseExcept
<1>4. /\ phase[g][0] = End - 1 /\ done[g]
      /\ \A m \in Items : phase'[g][m] \in End - 1 .. End
  <2>1. /\ phase[g][0] = End - 1 /\ done[g]
        /\ \A m \in Items : phase[g][m] >= End - 1
    BY <1>0, <1>1 DEF GroupInv, LeaderOK
  <2>2. \A m \in Items : phase[g][m] \in 0 .. End
    BY <1>0 DEF Shapes
  <2> QED
    BY <1>3, <2>1, <2>2
<1>5. Shapes'
  BY <1>0, <1>1, <1>2, <1>3 DEF Shapes
<1>6. GroupInv(g)'
  <2>1. Together(g)'
    BY <1>4 DEF Together
  <2>2. SecondRange(g)' /\ LeaderOK(g)'
    BY <1>1, <1>2, <1>4 DEF SecondRange, LeaderOK
  <2> QED
    BY <2>1, <2>2 DEF GroupInv
<1>7. \A h \in Groups : GroupInv(h)'
  <2> SUFFICES ASSUME NEW h \in Groups, h # g PROVE GroupInv(h)'
    BY <1>6
  <2> QED
    BY <1>1, <1>2, <1>3, OtherGroup DEF ItemsInv
<1>8. Uncounted' = Uncounted
  <2>1. ASSUME NEW h \in Groups PROVE phase'[h][0] <= Steps <=> phase[h][0] <= Steps
    <3>1. CASE h = g
      BY <1>3, <1>4, <3>1
    <3>2. CASE h # g
      BY <1>3, <3>2
    <3> QED
      BY <3>1, <3>2
  <2> QED
    BY <2>1, SameUncounted
<1>9. \A h \in Groups : Resets(h) => Resets(h)'
  BY <1>1, <1>2, <1>3 DEF Resets
<1>10. CounterOK'
  BY <1>0, <1>1, <1>8, <1>9 DEF CounterOK
<1>11. running
  BY <1>4 DEF ItemsInv, Idle
<1> QED
  BY <1>1, <1>5, <1>7, <1>10, <1>11 DEF ItemsInv

(* Flush and Complete leave the work-items where they are.                 *)
LEMMA DeviceInv ==
    ASSUME ItemsInv, Complete \/ UNCHANGED itemVars \/ \E g \in Groups : Flush(g)
    PROVE  ItemsInv'
<1>1. /\ UNCHANGED <<wgc, sums, done, phase, leader>>
      /\ running' \in BOOLEAN /\ pending' \subseteq Groups
      /\ ~running' => Idle
  <2>1. CASE Complete
    BY <2>1 DEF Complete, localVars, Idle, ItemsInv, Shapes
  <2>2. CASE UNCHANGED itemVars
    BY <2>2 DEF itemVars, ItemsInv, Shapes
  <2>3. CASE \E g \in Groups : Flush(g)
    BY <2>3 DEF Flush, ItemsInv, Shapes
  <2> QED
    BY <2>1, <2>2, <2>3
<1>2. Shapes'
  BY <1>1 DEF ItemsInv, Shapes
<1>3. \A g \in Groups : GroupInv(g)'
  BY <1>1, OtherGroup DEF ItemsInv
<1>4. Uncounted' = Uncounted /\ \A g \in Groups : Resets(g)' <=> Resets(g)
  BY <1>1 DEF Uncounted, Resets
<1> QED
  BY <1>1, <1>2, <1>3, <1>4 DEF ItemsInv, CounterOK, Idle

LEMMA SetSumShape ==
    ASSUME Shapes, NEW g \in Groups, NEW l \in Items, NEW v, SetSum(g, l, v)
    PROVE  DOMAIN sums' = Groups /\ \A h \in Groups : DOMAIN sums'[h] = Items
  BY DEF SetSum, Shapes

LEMMA ItemStepInv ==
    ASSUME ItemsInv, NEW g \in Groups, NEW l \in Items, ItemStep(g, l)
    PROVE  ItemsInv'
<1>0. Shapes
  BY DEF ItemsInv
<1>1. CASE LoadBlock(g, l)
  BY <1>0, <1>1, AdvanceInv, SetSumShape DEF LoadBlock
<1>2. CASE ReduceStep(g, l)
  <2>1. DOMAIN sums' = Groups /\ \A h \in Groups : DOMAIN sums'[h] = Items
    <3>1. CASE UNCHANGED sums
      BY <1>0, <3>1 DEF Shapes
    <3>2. CASE ~ UNCHANGED sums
      <4>1. PICK v : SetSum(g, l, v)
        BY <1>2, <3>2 DEF ReduceStep
      <4> QED
        BY <1>0, <4>1, SetSumShape
    <3> QED
      BY <3>1, <3>2
  <2> QED
    BY <1>2, <2>1, AdvanceInv DEF ReduceStep
<1>3. CASE Return(g, l)
  BY <1>3, ReturnInv
<1>4. CASE LoadPartials(g, l)
  <2>1. PICK v : SetSum(g, l, v)
    BY <1>4 DEF LoadPartials
  <2>2. DOMAIN sums' = Groups /\ \A h \in Groups : DOMAIN sums'[h] = Items
    BY <1>0, <2>1, SetSumShape
  <2> QED
    BY <1>4, <2>2, AdvanceInv DEF LoadPartials
<1> QED
  BY <1>1, <1>2, <1>3, <1>4 DEF ItemStep

LEMMA InitItems == Init => ItemsInv
<1> SUFFICES ASSUME Init PROVE ItemsInv
  OBVIOUS
<1>1. /\ running = FALSE /\ pending = {} /\ wgc = Blocks
      /\ sums = [g \in Groups |-> [l \in Items |-> Uninitialised]]
      /\ done = [g \in Groups |-> FALSE]
      /\ phase = [g \in Groups |-> [l \in Items |-> End]]
      /\ leader = [g \in Groups |-> "segment"]
  BY DEF Init
<1>2. \A g \in Groups : /\ leader[g] = "segment" /\ ~done[g]
                        /\ \A l \in Items : phase[g][l] = End
  BY <1>1
<1>3. Shapes
  <2>1. DOMAIN sums = Groups /\ \A g \in Groups : DOMAIN sums[g] = Items
    BY <1>1
  <2>2. phase \in [Groups -> [Items -> 0 .. End]]
    BY <1>1
  <2>3. leader \in [Groups -> {"segment", "store", "count", "reset", "write"}]
        /\ done \in [Groups -> BOOLEAN]
    BY <1>1
  <2> QED
    BY <1>1, <2>1, <2>2, <2>3 DEF Shapes
<1>4. \A g \in Groups : GroupInv(g)
  BY <1>2 DEF GroupInv, Together, SecondRange, LeaderOK
<1>5. CounterOK
  BY <1>1, <1>2 DEF CounterOK, Uncounted
<1> QED
  BY <1>2, <1>3, <1>4, <1>5 DEF ItemsInv, Idle

(* Every reachable state of the kernel satisfies the invariant: the        *)
(* barriers of reduce.cl hold the work-items of a group together, and the  *)
(* counter wgc is the number of groups still to count, until the last of   *)
(* them puts it back.                                                      *)
THEOREM WorkItemsInvariant == Spec => []ItemsInv
<1>1. ASSUME ItemsInv, [Next]_itemVars PROVE ItemsInv'
  <2>1. CASE \E r \in Requests : Launch(r)
    BY <1>1, <2>1, LaunchInv
  <2>2. CASE \E g \in Groups, l \in Items : ItemStep(g, l)
    BY <1>1, <2>2, ItemStepInv
  <2>3. CASE \E g \in Groups : LeaderStep(g)
    BY <1>1, <2>3, StorePartialInv, DecrementInv, ResetCounterInv, WriteOutInv, DeviceInv
       DEF LeaderStep
  <2>4. CASE Complete \/ UNCHANGED itemVars
    BY <1>1, <2>4, DeviceInv
  <2> QED
    BY <1>1, <2>1, <2>2, <2>3, <2>4 DEF Next, DeviceStep
<1> QED
  BY <1>1, InitItems, PTL DEF Spec

(* All work-items of a group take the branch at the test of done           *)
(* (reduce.cl:143) the same way and meet the same barriers, and the        *)
(* counter stays within 0 .. REDUCE_BLOCKS.                                *)
THEOREM ItemsExitTogether == Spec => []UniformExit
<1>1. ItemsInv => UniformExit
  <2> SUFFICES ASSUME ItemsInv PROVE UniformExit
    OBVIOUS
  <2>1. TypeOK
    <3>1. wgc \in 0 .. Blocks
      BY UncountedFinite DEF ItemsInv, CounterOK
    <3> QED
      BY <3>1 DEF ItemsInv, Shapes, TypeOK
  <2>2. ASSUME NEW g \in Groups, NEW l \in Items, NEW m \in Items
        PROVE  /\ phase[g][l] \in Final + 1 .. End - 1 => done[g]
               /\ phase[g][l] = End => phase[g][m] >= IF done[g] THEN End - 1 ELSE Final
    <3>1. phase[g][l] \in Final + 1 .. End - 1 => done[g]
      BY DEF ItemsInv, GroupInv, SecondRange
    <3>2. phase[g][m] \in Int /\ done[g] \in BOOLEAN
      BY DEF ItemsInv, Shapes
    <3>3. \/ phase[g][l] <= phase[g][m] + 1
          \/ ~done[g] /\ phase[g][l] = End /\ phase[g][m] >= Final
      BY DEF ItemsInv, GroupInv, Together
    <3> QED
      BY <3>1, <3>2, <3>3
  <2> QED
    BY <2>1, <2>2 DEF UniformExit
<1> QED
  BY <1>1, WorkItemsInvariant, PTL

=============================================================================
