-------------------------- MODULE RadixsortScatter --------------------------
(***************************************************************************)
(* One slice of a work-group of the kernel radixsortScatter                *)
(* (src/kernels/radixsort.cl), which moves the keys and values of a block  *)
(* to their positions, tile by tile.  Slices share no local memory.        *)
(*                                                                         *)
(* WARP_SIZE_MEM work-items run in lock step and see each other's writes.  *)
(* fastsync stands between any two phases: a barrier, unless the slice     *)
(* fits in a warp.  The hist and values members of the union ScatterData   *)
(* share the bytes of mem; a value is two bytes.                           *)
(***************************************************************************)
EXTENDS Utils, Integers, Sequences, RadixsortDigits

CONSTANTS
    Byte,       \* 2^8 in the kernel: the number of values of a uchar
    Uint,       \* 2^32 in the kernel: uint is taken modulo this
    KEY_MAX,    \* ~(KEY_T) 0
    Configs,    \* [radix, slice, scale, warp]: the RADIX, SCATTER_SLICE,
                \* SCATTER_WORK_SCALE and WARP_SIZE_MEM of the kernel
    Inputs      \* [keys, total, len, block, firstBit]

VARIABLES
    config, input,          \* members of Configs and Inputs, fixed
    pc,                     \* phases done by each warp, over all the tiles
    mem,                    \* the union of ScatterData, in bytes
    bias, digits, shuf, wgKeys,             \* the rest of ScatterData
    level0, l1addr, digitCount, offset,     \* private to each work-item
    outKeys, outValues

local == <<bias, digits, shuf, wgKeys>>
private == <<level0, l1addr, digitCount, offset>>
vars == <<config, input, pc, mem, local, private, outKeys, outValues>>

RADIX == config.radix
slice == config.slice
scale == config.scale
Tile  == slice * scale
Items == 0 .. slice - 1
Warps == {lid \div config.warp : lid \in Items}
ItemsOf(w) == {lid \in Items : lid \div config.warp = w}
Digits == 0 .. RADIX - 1
Bytes == 0 .. MaxOf(slice * RADIX + 2 * slice, 2 * Tile) - 1
Garbage == -1

Compiles(c) == c.slice >= c.radix /\ c.slice * c.scale < Byte

-----------------------------------------------------------------------------
(* The statements that Radixsort::initialize generates for UPSWEEP and     *)
(* DOWNSWEEP: each adds up groups of from / to counters, packed in words   *)
(* of some lanes.  Level 1 is at byte 0, level 2 behind it; the counters   *)
(* of size n of level 2 are at its byte n.                                 *)
Log2(n) == CHOOSE k \in 0 .. n : 2 ^ k = n

Narrow(from, to) ==
    LET n == Log2(from \div to)
    IN  [k \in 1 .. (n + 1) \div 2 |->
            LET f == from \div 4 ^ (k - 1)
                lanes == IF 2 * k <= n THEN 4 ELSE 2
            IN  [data |-> slice * RADIX + f, from |-> f, to |-> f \div lanes, lanes |-> lanes]]

Sweeps ==
    <<[data |-> 0, from |-> slice * RADIX, to |-> slice, lanes |-> 4]>>
    \o Narrow(slice, RADIX) \o Narrow(RADIX, 1)

Ones(n) == IF n = 4 THEN 1 + Byte + Byte ^ 2 + Byte ^ 3 ELSE 1 + Byte

Word(a, n) ==
    IF n = 4 THEN mem[a] + mem[a + 1] * Byte + mem[a + 2] * Byte ^ 2 + mem[a + 3] * Byte ^ 3
    ELSE mem[a] + mem[a + 1] * Byte

Lane(v, k) == (v \div Byte ^ k) % Byte

\* sum4 and sum2: multiply and take the high lane.
LaneSum(v, n) == Lane(v * Ones(n), n - 1)

\* The words of the group of statement s that adds up to sum j.
rounds(s) == (s.from \div s.to) \div s.lanes
WordOf(s, j, i) == Word(s.data + (j * rounds(s) + i) * s.lanes, s.lanes)
SumAt(s, j) == slice * RADIX + s.to + j

-----------------------------------------------------------------------------
N == 2 * Len(Sweeps)
\* Phases: load, count, upsweeps, digitCount, downsweeps, permute, values, write.
PhaseCount == N + 6
Phase(w) == pc[w] % PhaseCount
\* start in the tile that w is at.
FirstStart == (input.block * input.len) % Uint
Start(w) == (FirstStart + (pc[w] \div PhaseCount) * Tile) % Uint
Stop == (FirstStart + input.len) % Uint
End == MinOf(Stop, input.total)
Finished(w) == Start(w) >= Stop
\* The index in the input of key k of the tile, if it is below End.
Addr(w, k) == (Start(w) + k) % Uint

Blocks == roundUp(input.total, input.len) \div input.len
BlockHistogram(b) ==
    Histogram(input.keys, b * input.len, MinOf((b + 1) * input.len, input.total),
              input.firstBit, RADIX)
\* The row of the scanned histogram for the block.
Offsets ==
    [d \in Digits |->
        Offset([b \in 0 .. Blocks - 1 |-> BlockHistogram(b)], Blocks, input.block, d)]

Init ==
    /\ config \in {c \in Configs : Compiles(c)}
    /\ input \in Inputs
    /\ pc = [w \in Warps |-> 0]
    /\ mem = [a \in Bytes |-> Byte - 1]
    /\ bias = [d \in Digits |-> 0]
    /\ digits = [k \in 0 .. Tile - 1 |-> 0]
    /\ shuf = digits /\ wgKeys = digits
    /\ level0 = [lid \in Items |-> [i \in 0 .. scale - 1 |-> 0]]
    /\ l1addr = level0
    /\ digitCount = [lid \in Items |-> 0]
    /\ offset = [lid \in Items |-> IF lid < RADIX THEN Offsets[lid] ELSE 0]
    /\ outKeys = [k \in 0 .. input.total - 1 |-> Garbage]
    /\ outValues = outKeys

\* Mutant: no fastsync before the values are loaded.
Synced_NotBeforeValues(w) == Phase(w) = N + 4 \/ \A v \in Warps : pc[v] >= pc[w]

Synced(w) == \A v \in Warps : pc[v] >= pc[w]

\* Mutant: the keys behind the end are zero.
Padding_Zero == 0

Padding == KEY_MAX

Load(w) ==
    LET key == [k \in 0 .. Tile - 1 |->
                   IF Addr(w, k) < End THEN input.keys[Addr(w, k)] ELSE Padding]
        mine(k) == k % slice \in ItemsOf(w)
    IN  /\ Phase(w) = 0
        /\ wgKeys' = [k \in DOMAIN key |-> IF mine(k) THEN key[k] ELSE wgKeys[k]]
        /\ digits' = [k \in DOMAIN key |->
                         IF mine(k) THEN Digit(key[k], input.firstBit, RADIX) ELSE digits[k]]
        /\ mem' = [a \in Bytes |->
                      IF a < slice * RADIX /\ mine(a \div 4) THEN 0 ELSE mem[a]]
        /\ UNCHANGED <<bias, shuf, private, outKeys, outValues>>

Count(w) ==
    LET addr(lid, i) == digits[lid * scale + i] * slice + lid
        same(lid, a, n) == Cardinality({i \in 0 .. n - 1 : addr(lid, i) = a})
    IN  /\ Phase(w) = 1
        /\ l1addr' = [lid \in Items |->
              IF lid \in ItemsOf(w) THEN [i \in 0 .. scale - 1 |-> addr(lid, i)]
              ELSE l1addr[lid]]
        /\ level0' = [lid \in Items |->
              IF lid \in ItemsOf(w)
              THEN [i \in 0 .. scale - 1 |->
                       Lane(mem[addr(lid, i)] + same(lid, addr(lid, i), i), 0)]
              ELSE level0[lid]]
        /\ mem' = [a \in Bytes |->
              IF a < slice * RADIX /\ a % slice \in ItemsOf(w)
              THEN Lane(mem[a] + same(a % slice, a, scale), 0) ELSE mem[a]]
        /\ UNCHANGED <<local, digitCount, offset, outKeys, outValues>>

\* upsweepMulti, upsweep4 and upsweep2; work-items in excess repeat work.
Upsweep(w) ==
    /\ Phase(w) \in 2 .. Len(Sweeps) + 1
    /\ LET s == Sweeps[Phase(w) - 1]
       IN  mem' = [a \in Bytes |->
              IF a - SumAt(s, 0) \in {lid % s.to : lid \in ItemsOf(w)}
              THEN LaneSum(MapThenSumSet(LAMBDA i : WordOf(s, a - SumAt(s, 0), i),
                                         0 .. rounds(s) - 1), s.lanes)
              ELSE mem[a]]
    /\ UNCHANGED <<local, private, outKeys, outValues>>

ReadDigitCount(w) ==
    /\ Phase(w) = Len(Sweeps) + 2
    /\ digitCount' = [lid \in Items |->
          IF lid \in ItemsOf(w) THEN mem[slice * RADIX + RADIX + lid] ELSE digitCount[lid]]
    /\ UNCHANGED <<mem, local, level0, l1addr, offset, outKeys, outValues>>

\* Round i of a group replaces a word by its exclusive scan plus the sum so far.
Carry(s, j) ==
    LET sum[i \in 0 .. rounds(s)] ==
            IF i = 0 THEN IF s.to = 1 THEN 0 ELSE mem[SumAt(s, j)]
            ELSE LaneSum(WordOf(s, j, i - 1) + sum[i - 1], s.lanes)
    IN  sum

\* downsweepMulti, downsweep4 and downsweep2, in reverse order.
Downsweep(w) ==
    /\ Phase(w) \in Len(Sweeps) + 3 .. N + 2
    /\ LET s == Sweeps[N + 3 - Phase(w)]
           sums == IF slice <= config.warp THEN {lid % s.to : lid \in ItemsOf(w)}
                   ELSE {lid \in ItemsOf(w) : lid < s.to}
           group(a) == (a - s.data) \div (s.from \div s.to)
           round(a) == ((a - s.data) % (s.from \div s.to)) \div s.lanes
           new(a) == LET old == WordOf(s, group(a), round(a))
                     IN  (old + Carry(s, group(a))[round(a)]) * Ones(s.lanes) - old
       IN  mem' = [a \in Bytes |->
              IF a >= s.data /\ group(a) \in sums
              THEN Lane(new(a), (a - s.data) % s.lanes) ELSE mem[a]]
    /\ UNCHANGED <<local, private, outKeys, outValues>>

Permute(w) ==
    LET mine == {<<lid, i>> \in Items \X (0 .. scale - 1) : lid \in ItemsOf(w)}
        pos(x) == level0[x[1]][x[2]] + mem[l1addr[x[1]][x[2]]]
    IN  /\ Phase(w) = N + 3
        /\ bias' = [d \in Digits |->
              IF d \in ItemsOf(w) THEN offset[d] - mem[slice * RADIX + RADIX + d] ELSE bias[d]]
        /\ offset' = [lid \in Items |-> IF lid \in ItemsOf(w) /\ lid < RADIX
                                        THEN offset[lid] + digitCount[lid] ELSE offset[lid]]
        /\ shuf' = [p \in DOMAIN shuf |->
              IF \E x \in mine : pos(x) = p
              THEN LET x == CHOOSE x \in mine : pos(x) = p IN x[1] * scale + x[2]
              ELSE shuf[p]]
        /\ UNCHANGED <<mem, digits, wgKeys, level0, l1addr, digitCount, outKeys, outValues>>

\* The values are written over the counters.  Value i of the input, two bytes.
Value(i) == (11 * (i + 1)) % Byte ^ 2

LoadValues(w) ==
    /\ Phase(w) = N + 4
    /\ mem' = [a \in Bytes |->
          LET kidx == a \div 2
          IN  IF kidx < Tile /\ kidx % slice \in ItemsOf(w) /\ Addr(w, kidx) < End
              THEN Lane(Value(Addr(w, kidx)), a % 2) ELSE mem[a]]
    /\ UNCHANGED <<local, private, outKeys, outValues>>

Write(w) ==
    LET mine == {o \in 0 .. Tile - 1 : o % slice \in ItemsOf(w) /\ o < End - Start(w)}
        addr(o) == o + bias[digits[shuf[o]]]
        written(out, V(_)) ==
            [k \in DOMAIN out |-> IF \E o \in mine : addr(o) = k
                                  THEN V(shuf[CHOOSE o \in mine : addr(o) = k]) ELSE out[k]]
    IN  /\ Phase(w) = N + 5
        /\ outKeys' = written(outKeys, LAMBDA k : wgKeys[k])
        /\ outValues' = written(outValues, LAMBDA k : Word(2 * k, 2))
        /\ UNCHANGED <<mem, local, private>>

Step(w) ==
    /\ ~Finished(w)
    /\ Synced(w)
    /\ \/ Load(w) \/ Count(w) \/ Upsweep(w) \/ ReadDigitCount(w) \/ Downsweep(w)
       \/ Permute(w) \/ LoadValues(w) \/ Write(w)
    /\ pc' = [pc EXCEPT ![w] = @ + 1]
    /\ UNCHANGED <<config, input>>

Terminated == (\A w \in Warps : Finished(w)) /\ UNCHANGED vars

Next == (\E w \in Warps : Step(w)) \/ Terminated

Spec == Init /\ [][Next]_vars

-----------------------------------------------------------------------------
(* Types; counters are bytes.                                              *)
TypeOK ==
    /\ pc \in [Warps -> Nat]
    /\ mem \in [Bytes -> 0 .. Byte - 1]
    /\ level0 \in [Items -> [0 .. scale - 1 -> 0 .. Byte - 1]]
    /\ digits \in [0 .. Tile - 1 -> Digits]
    /\ shuf \in [0 .. Tile - 1 -> 0 .. Tile - 1]
    /\ bias \in [Digits -> Int]

(* Once all work-items have computed their part of it, shuf is the stable  *)
(* sort of the tile by digits: the packed byte counters, padding included, *)
(* have not overflowed.                                                    *)
ShuffleSorts ==
    (\A w \in Warps : Phase(w) \in {N + 4, N + 5}) =>
        \A k \in 0 .. Tile - 1 :
            shuf[Cardinality({j \in 0 .. Tile - 1 :
                    digits[j] < digits[k] \/ (digits[j] = digits[k] /\ j < k)})] = k

\* The indices of the block, without wrapping around, and where they go.
Block == input.block * input.len .. MinOf((input.block + 1) * input.len, input.total) - 1
To(i) == Destination(input.keys, input.block * input.len, Offsets, i, input.firstBit, RADIX)

(* At no time has a work-item written a key or a value where it does not   *)
(* belong, also when the values overwrite the counters of a slice that     *)
(* others still use, and in tiles after the first.                         *)
WritesCorrect ==
    \A k \in DOMAIN outKeys : outKeys[k] # Garbage =>
        \E i \in Block : To(i) = k /\ outKeys[k] = input.keys[i] /\ outValues[k] = Value(i)

(* At the end every pair of the block has been written, so that padding    *)
(* never took the place of a key.                                          *)
AllWritten ==
    (\A w \in Warps : Finished(w)) =>
        \A i \in Block : outKeys[To(i)] = input.keys[i] /\ outValues[To(i)] = Value(i)

=============================================================================
