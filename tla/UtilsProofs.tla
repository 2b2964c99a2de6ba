---------------------------- MODULE UtilsProofs ----------------------------
(***************************************************************************)
(* What the rounding helpers compute, for all operands, and how the events *)
(* that commands wait for keep the executions of one object in order.      *)
(***************************************************************************)
EXTENDS Utils, Sequences, TLAPS

(* Division by a positive number, in the form the other lemmas use it.     *)
LEMMA DivBounds ==
    ASSUME NEW x \in Nat, NEW y \in Nat \ {0}
    PROVE  /\ x \div y \in Nat
           /\ (x \div y) * y <= x
           /\ x < (x \div y) * y + y
<1>1. x \div y \in Nat /\ (x \div y) * y <= x /\ x < ((x \div y) + 1) * y
  OBVIOUS
<1>2. ((x \div y) + 1) * y = (x \div y) * y + y
  BY <1>1
<1> QED
  BY <1>1, <1>2

(* roundUp(x, y) is the smallest multiple of y that is at least x          *)
(* (utils.h:164).                                                          *)
LEMMA RoundUpMultiple ==
    ASSUME NEW x \in Nat, NEW y \in Nat \ {0}
    PROVE  \E k \in Nat : /\ roundUp(x, y) = k * y
                          /\ x <= k * y
                          /\ k * y < x + y
<1> DEFINE k == (x + y - 1) \div y
<1>1. k \in Nat /\ k * y <= x + y - 1 /\ x + y - 1 < k * y + y
  BY DivBounds, x + y - 1 \in Nat
<1>2. x <= k * y /\ k * y < x + y
  BY <1>1
<1>3. roundUp(x, y) = k * y
  BY DEF roundUp
<1>4. k \in Nat
  BY <1>1
<1> HIDE DEF k
<1> QED
  BY <1>2, <1>3, <1>4

(* Dividing n elements among b blocks after rounding up to a multiple of   *)
(* w * b (reduce.cpp:293, scan.cpp:468, radixsort.cpp:83-87): the block    *)
(* size is a positive multiple of w and the blocks cover the elements.     *)
LEMMA EvenBlocks ==
    ASSUME NEW n \in Nat \ {0}, NEW w \in Nat \ {0}, NEW b \in Nat \ {0}
    PROVE  /\ roundUp(n, w * b) \div b \in Nat \ {0}
           /\ n <= b * (roundUp(n, w * b) \div b)
           /\ \E k \in Nat : roundUp(n, w * b) \div b = k * w
<1>1. w * b \in Nat \ {0}
  OBVIOUS
<1>2. PICK k \in Nat : roundUp(n, w * b) = k * (w * b) /\ n <= k * (w * b)
  BY <1>1, RoundUpMultiple
<1>3. k # 0
  BY <1>2
<1>4. k * (w * b) = b * (k * w)
  OBVIOUS
<1>5. (b * (k * w)) \div b = k * w
  BY k * w \in Nat
<1>6. k * w \in Nat \ {0}
  BY <1>3
<1>7. roundUp(n, w * b) \div b = k * w
  BY <1>2, <1>4, <1>5
<1> QED
  BY <1>2, <1>4, <1>6, <1>7

(* roundUp stays below every multiple of y that is not below x, and is     *)
(* itself a multiple.                                                      *)
LEMMA RoundUpLeast ==
    ASSUME NEW x \in Nat, NEW y \in Nat \ {0}, NEW m \in Nat, x <= m * y
    PROVE  /\ roundUp(x, y) \in Nat
           /\ x <= roundUp(x, y)
           /\ roundUp(x, y) <= m * y
           /\ roundUp(x, y) % y = 0
<1>1. PICK k \in Nat : roundUp(x, y) = k * y /\ x <= k * y /\ k * y < x + y
  BY RoundUpMultiple
<1>2. k <= m
  <2> SUFFICES ASSUME m + 1 <= k PROVE FALSE
    OBVIOUS
  <2>1. (m + 1) * y <= k * y /\ (m + 1) * y = m * y + y
    OBVIOUS
  <2>2. m * y \in Nat /\ k * y \in Nat
    OBVIOUS
  <2> QED
    BY <1>1, <2>1, <2>2
<1>3. k * y <= m * y /\ k * y \in Nat
  BY <1>2
<1>4. (k * y) % y = 0
  BY <1>1
<1> QED
  BY <1>1, <1>3, <1>4

(* An index below b * s lies in exactly one of b blocks of s elements.     *)
LEMMA BlockOfIndex ==
    ASSUME NEW s \in Nat \ {0}, NEW b \in Nat, NEW i \in Nat, i < b * s
    PROVE  /\ i \div s \in 0 .. b - 1
           /\ (i \div s) * s <= i
           /\ i < (i \div s) * s + s
<1> DEFINE k == i \div s
<1>1. k \in Nat /\ k * s <= i /\ i < k * s + s
  BY DivBounds
<1>2. k < b
  <2> SUFFICES ASSUME b <= k PROVE FALSE
    BY <1>1
  <2>1. b * s <= k * s
    BY <1>1
  <2> QED
    BY <1>1, <2>1
<1> QED
  BY <1>1, <1>2

(* Two blocks that share an index are the same block.                      *)
LEMMA BlocksDisjoint ==
    ASSUME NEW s \in Nat \ {0}, NEW i \in Nat, NEW g \in Nat, NEW h \in Nat,
           g * s <= i, i < g * s + s, h * s <= i, i < h * s + s
    PROVE  g = h
  OBVIOUS

-----------------------------------------------------------------------------
(***************************************************************************)
(* Command queues.  Reduce, Scan and Radixsort keep the commands they      *)
(* enqueue in a sequence of records with the events a command waits for    *)
(* and its status.                                                         *)
(***************************************************************************)
IsQueue(q) == Len(q) \in Nat /\ q \in Seq({q[i] : i \in 1 .. Len(q)})

IsDone(q, i) == q[i].status = "complete"

\* Everything before a command that has started is complete.
Serial(q) ==
    \A j \in 1 .. Len(q) :
        q[j].status # "queued" => \A i \in 1 .. j - 1 : IsDone(q, i)

\* Commands wait for earlier ones only.
WaitsBack(q) == \A j \in 1 .. Len(q) : q[j].waits \subseteq 1 .. j - 1

\* Each unfinished command is, or precedes, one that every later one awaits.
Chained(q) ==
    \A j \in 1 .. Len(q) : \A i \in 1 .. j - 1 :
        IsDone(q, i) \/ \E w \in q[j].waits : i <= w

\* Each unfinished command is, or precedes, command e.
Covers(q, e) == \A i \in 1 .. Len(q) : IsDone(q, i) \/ i <= e

\* r is the queue q with command k replaced by x.
Updated(q, k, x, r) == r = [q EXCEPT ![k] = x]

(* Append and the replacement of one command, without a type for commands. *)
LEMMA QueueAppend ==
    ASSUME NEW q, IsQueue(q), NEW x
    PROVE  LET r == Append(q, x)
           IN  /\ IsQueue(r)
               /\ Len(r) = Len(q) + 1
               /\ r[Len(q) + 1] = x
               /\ \A i \in 1 .. Len(q) : r[i] = q[i]
<1> DEFINE S == {q[i] : i \in 1 .. Len(q)} \union {x}
           r == Append(q, x)
           T == {r[i] : i \in 1 .. Len(r)}
<1>1. q \in Seq(S) /\ x \in S /\ Len(q) \in Nat
  <2>1. q \in Seq({q[i] : i \in 1 .. Len(q)}) /\ Len(q) \in Nat
    BY DEF IsQueue
  <2>2. q \in [1 .. Len(q) -> S]
    BY <2>1
  <2> QED
    BY <2>1, <2>2
<1> HIDE DEF S
<1>2. /\ Len(r) = Len(q) + 1 /\ r[Len(q) + 1] = x
      /\ \A i \in 1 .. Len(q) : r[i] = q[i]
      /\ r \in Seq(S)
  BY <1>1
<1> HIDE DEF r
<1>3. r \in [1 .. Len(r) -> T] /\ Len(r) \in Nat
  BY <1>1, <1>2
<1>4. IsQueue(r)
  BY <1>3 DEF IsQueue
<1> QED
  BY <1>2, <1>4 DEF r

LEMMA QueueTail ==
    ASSUME NEW q, IsQueue(q), q # <<>>
    PROVE  /\ IsQueue(Tail(q)) /\ Len(Tail(q)) = Len(q) - 1
           /\ Head(q) = q[1] /\ 1 \in 1 .. Len(q)
           /\ \A i \in 1 .. Len(Tail(q)) : Tail(q)[i] = q[i + 1] /\ i + 1 \in 1 .. Len(q)
<1> DEFINE S == {q[i] : i \in 1 .. Len(q)}
           r == Tail(q)
           T == {r[i] : i \in 1 .. Len(r)}
<1>1. q \in Seq(S) /\ Len(q) \in Nat
  BY DEF IsQueue
<1> HIDE DEF S
<1>2. Len(q) # 0 /\ Head(q) = q[1]
  BY <1>1
<1>3. /\ r \in Seq(S) /\ Len(r) = Len(q) - 1
      /\ \A i \in 1 .. Len(r) : r[i] = q[i + 1] /\ i + 1 \in 1 .. Len(q)
  BY <1>1, <1>2
<1> HIDE DEF r
<1>4. r \in [1 .. Len(r) -> T] /\ Len(r) \in Nat
  BY <1>1, <1>2, <1>3
<1> HIDE DEF T
<1>5. r \in Seq(T)
  BY <1>4
<1>6. IsQueue(r)
  BY <1>4, <1>5 DEF IsQueue, T
<1> QED
  BY <1>1, <1>2, <1>3, <1>6 DEF r

LEMMA QueueExcept ==
    ASSUME NEW q, IsQueue(q), NEW k \in 1 .. Len(q), NEW x,
           NEW r, Updated(q, k, x, r)
    PROVE  /\ IsQueue(r)
           /\ Len(r) = Len(q)
           /\ r[k] = x
           /\ \A i \in 1 .. Len(q) : i # k => r[i] = q[i]
<1> DEFINE S == {q[i] : i \in 1 .. Len(q)} \union {x}
           T == {r[i] : i \in 1 .. Len(r)}
<1>1. q \in [1 .. Len(q) -> S] /\ x \in S /\ Len(q) \in Nat
  BY DEF IsQueue
<1> HIDE DEF S
<1>2. r \in [1 .. Len(q) -> S] /\ r[k] = x
      /\ \A i \in 1 .. Len(q) : i # k => r[i] = q[i]
  BY <1>1 DEF Updated
<1>3. r \in Seq(S) /\ Len(r) = Len(q)
  BY <1>1, <1>2
<1>4. r \in [1 .. Len(r) -> T] /\ Len(r) \in Nat
  BY <1>1, <1>2, <1>3
<1>5. IsQueue(r)
  <2>1. r \in Seq(T)
    <3> HIDE DEF T
    <3> QED
      BY ONLY <1>4
  <2> QED
    BY <1>4, <2>1 DEF IsQueue
<1> QED
  BY <1>2, <1>3, <1>5

(* When a command's waits are complete, so is everything before it: the    *)
(* queue executes in order, or the commands are chained by their waits.    *)
LEMMA ReadyAfterAll ==
    ASSUME NEW q, IsQueue(q), Serial(q), WaitsBack(q), NEW j \in 1 .. Len(q),
           \A w \in q[j].waits : IsDone(q, w),
           Chained(q) \/ \A i \in 1 .. j - 1 : IsDone(q, i)
    PROVE  \A i \in 1 .. j - 1 : IsDone(q, i)
<1> SUFFICES ASSUME Chained(q), NEW i \in 1 .. j - 1, NEW w \in q[j].waits, i <= w
             PROVE  IsDone(q, i)
  BY DEF Chained
<1>1. w \in 1 .. j - 1 /\ IsDone(q, w) /\ Len(q) \in Nat
  BY DEF WaitsBack, IsQueue
<1>2. w \in 1 .. Len(q) /\ q[w].status # "queued"
  BY <1>1 DEF IsDone
<1> QED
  BY <1>1, <1>2 DEF Serial

(* A new command is queued, and chained if its waits cover the queue.      *)
LEMMA AppendOrdered ==
    ASSUME NEW q, IsQueue(q), Serial(q), WaitsBack(q), NEW x,
           x.status = "queued", x.waits \subseteq 1 .. Len(q)
    PROVE  /\ Serial(Append(q, x))
           /\ WaitsBack(Append(q, x))
           /\ Chained(q) /\ (\A i \in 1 .. Len(q) :
                                 IsDone(q, i) \/ \E w \in x.waits : i <= w)
                  => Chained(Append(q, x))
<1> DEFINE r == Append(q, x)
<1>1. /\ Len(r) = Len(q) + 1 /\ r[Len(q) + 1] = x /\ Len(q) \in Nat
      /\ \A i \in 1 .. Len(q) : r[i] = q[i]
  BY QueueAppend DEF IsQueue
<1> HIDE DEF r
<1>2. \A j \in 1 .. Len(r) : \/ j \in 1 .. Len(q) /\ r[j] = q[j]
                             \/ j = Len(q) + 1 /\ r[j] = x
  BY <1>1
<1>3. \A j \in 1 .. Len(r) : \A i \in 1 .. j - 1 :
          i \in 1 .. Len(q) /\ r[i] = q[i]
  BY <1>1
<1>4. Serial(r)
  BY <1>1, <1>2, <1>3 DEF Serial, IsDone
<1>5. WaitsBack(r)
  BY <1>1, <1>2 DEF WaitsBack
<1>6. ASSUME Chained(q), \A i \in 1 .. Len(q) :
                             IsDone(q, i) \/ \E w \in x.waits : i <= w
      PROVE  Chained(r)
  <2> SUFFICES ASSUME NEW j \in 1 .. Len(r), NEW i \in 1 .. j - 1
               PROVE  IsDone(r, i) \/ \E w \in r[j].waits : i <= w
    BY DEF Chained
  <2>1. i \in 1 .. Len(q) /\ (IsDone(r, i) <=> IsDone(q, i))
    BY <1>3 DEF IsDone
  <2>2. CASE j \in 1 .. Len(q) /\ r[j] = q[j]
    BY <1>6, <2>1, <2>2 DEF Chained
  <2>3. CASE j = Len(q) + 1 /\ r[j] = x
    BY <1>6, <2>1, <2>3
  <2> QED
    BY <1>2, <2>2, <2>3
<1> QED
  BY <1>4, <1>5, <1>6 DEF r

(* A command that makes progress after everything before it is complete    *)
(* keeps the order of the queue.                                           *)
LEMMA ProgressOrdered ==
    ASSUME NEW q, IsQueue(q), Serial(q), WaitsBack(q), NEW k \in 1 .. Len(q),
           NEW x, x.waits = q[k].waits, IsDone(q, k) => x.status = "complete",
           \A i \in 1 .. k - 1 : IsDone(q, i),
           NEW r, Updated(q, k, x, r)
    PROVE  /\ Serial(r)
           /\ WaitsBack(r)
           /\ Chained(q) => Chained(r)
           /\ \A i \in 1 .. Len(q) : IsDone(q, i) => IsDone(r, i)
<1>1. /\ Len(r) = Len(q) /\ r[k] = x /\ Len(q) \in Nat
      /\ \A i \in 1 .. Len(q) : i # k => r[i] = q[i]
  <2>1. Len(q) \in Nat
    BY DEF IsQueue
  <2> QED
    BY <2>1, QueueExcept
<1>2. \A i \in 1 .. Len(q) : IsDone(q, i) => IsDone(r, i)
  BY <1>1 DEF IsDone
<1>3. \A i \in 1 .. Len(q) : r[i].waits = q[i].waits
  BY <1>1
<1>4. Serial(r)
  <2> SUFFICES ASSUME NEW j \in 1 .. Len(q), r[j].status # "queued",
                      NEW i \in 1 .. j - 1
               PROVE  IsDone(r, i)
    BY <1>1 DEF Serial
  <2>1. i \in 1 .. Len(q)
    BY <1>1
  <2>2. IsDone(q, i)
    BY <1>1 DEF Serial
  <2> QED
    BY <1>2, <2>1, <2>2
<1>5. WaitsBack(r)
  BY <1>1, <1>3 DEF WaitsBack
<1>6. Chained(q) => Chained(r)
  <2> SUFFICES ASSUME Chained(q), NEW j \in 1 .. Len(q), NEW i \in 1 .. j - 1
               PROVE  IsDone(r, i) \/ \E w \in r[j].waits : i <= w
    BY <1>1 DEF Chained
  <2>1. i \in 1 .. Len(q)
    BY <1>1
  <2> QED
    BY <1>2, <1>3, <2>1 DEF Chained
<1> QED
  BY <1>2, <1>4, <1>5, <1>6

=============================================================================
