----------------------------- MODULE TuneProofs -----------------------------
(***************************************************************************)
(* tuneOne selects the candidate that tune.h promises, for every sequence  *)
(* of candidates, every number of passes and every outcome of the tests;   *)
(* the stages of the tune functions give it candidates that build, for     *)
(* every device and type.                                                  *)
(***************************************************************************)
EXTENDS Tune, TuneStages, UtilsProofs, TLAPS

\* The candidates whose results are in results.
worked == IF loop = "test" THEN retained2 ELSE retained

\* What is known of a sequence of candidates.
SeqOK(s) == s \in Seq(Given) /\ InOrder(s)

\* i - 1 iterations of the loop are done.
Types ==
    /\ pass \in 1 .. Passes
    /\ loop \in {"test", "filter", "select"}
    /\ SeqOK(retained) /\ SeqOK(retained2)
    /\ results \in Seq(Results) /\ Len(results) = Len(worked)
    /\ i \in 1 .. (IF loop = "test" THEN Len(retained) ELSE Len(results)) + 1
    /\ tests \in [1 .. Passes -> SUBSET (Given \X (Results \union {Failed}))]
    /\ \A p \in 1 .. Passes : \A t, u \in tests[p] : t[1] = u[1] => t = u
    /\ \A p \in pass + 1 .. Passes : tests[p] = {}

\* maxA is the largest A of the results of this pass.
MaxOK ==
    /\ maxA \in -1 .. Infinite
    /\ results = <<>> => maxA = -1
    /\ \A k \in DOMAIN results : results[k][1] <= maxA
    /\ results # <<>> => \E k \in DOMAIN results : results[k][1] = maxA

\* results holds the successes of this pass, with the candidates in worked.
ResultsOK ==
    /\ \A k \in DOMAIN results : <<worked[k], results[k]>> \in Successes(pass)
    /\ \A t \in Successes(pass) :
          \E k \in DOMAIN results : t = <<worked[k], results[k]>>

\* The first elements of s are those in S.
FirstOf(s, n, S) ==
    /\ \A j \in 1 .. n : s[j] \in S
    /\ \A c \in S : \E j \in 1 .. n : s[j] = c

LoopOK ==
    /\ loop = "test" => /\ retained # <<>>
                        /\ FirstOf(retained, i - 1, Entered(pass))
                        /\ \A k \in DOMAIN retained2 :
                              \E j \in 1 .. i - 1 : retained2[k] = retained[j]
    /\ loop # "test" => results # <<>>
    /\ loop = "filter" =>
          /\ pass < Passes
          /\ \A k \in DOMAIN retained2 :
                \E j \in 1 .. i - 1 : retained2[k] = retained[j] /\ Keeps(results[j][1], maxA)
          /\ \A j \in 1 .. i - 1 : Keeps(results[j][1], maxA) =>
                \E k \in DOMAIN retained2 : retained2[k] = retained[j]
    /\ loop = "select" =>
          pass = Passes /\ \A j \in 1 .. i - 1 : ~Reaches(results[j])

\* The candidates of pass p, those that it has still to test included.
Of(p) == IF loop = "test" /\ p = pass THEN {retained[k] : k \in DOMAIN retained}
         ELSE Entered(p)

History ==
    /\ Of(1) = Given
    /\ \A p \in 1 .. pass - 1 : Of(p + 1) = {c \in Entered(p) : Survives(c, p)}

Run == Types /\ MaxOK /\ ResultsOK /\ LoopOK /\ History

IInv ==
    /\ out = Running => Run
    /\ TypeOK /\ Promised /\ FailsOnlyIfAllFail


-----------------------------------------------------------------------------
(* A test that succeeds returns two rates, A <= B.                         *)
LEMMA Rates ==
    ASSUME Arguments, NEW r \in Results
    PROVE  /\ r[1] \in 0 .. Infinite /\ r[2] \in 0 .. Infinite /\ r[1] <= r[2]
           /\ r # Failed /\ Infinite \in Nat
<1>1. r \in (0 .. Infinite) \X (0 .. Infinite) /\ r[1] <= r[2] /\ Infinite \in Nat
  BY DEF Arguments
<1>2. PICK a \in 0 .. Infinite, b \in 0 .. Infinite : r = <<a, b>>
  BY <1>1
<1>3. <<a, b>> # <<"failed">>
  OBVIOUS
<1> QED
  BY <1>1, <1>2, <1>3 DEF Failed

(* No candidate comes before itself.                                       *)
LEMMA BeforeIsStrict ==
    ASSUME Arguments, NEW m \in DOMAIN Candidates, NEW n \in DOMAIN Candidates
    PROVE  Before(Candidates[m], Candidates[n]) <=> m < n
<1>1. DOMAIN Candidates \subseteq Nat
  BY DEF Arguments
<1> QED
  BY <1>1 DEF Before, Arguments

LEMMA NotBeforeItself ==
    ASSUME Arguments, NEW c \in Given
    PROVE  ~Before(c, c)
<1>1. PICK n \in DOMAIN Candidates : c = Candidates[n]
  BY DEF Given
<1>2. n \in Nat
  BY DEF Arguments
<1> QED
  BY <1>1, <1>2, BeforeIsStrict

(* A sequence of candidates repeats none.                                  *)
LEMMA NoRepetition ==
    ASSUME Arguments, NEW s, SeqOK(s), NEW j \in DOMAIN s, NEW k \in DOMAIN s, s[j] = s[k]
    PROVE  j = k
<1>1. s[j] \in Given /\ j \in Nat /\ k \in Nat
  BY DEF SeqOK
<1> QED
  BY <1>1, NotBeforeItself DEF SeqOK, InOrder

(* A candidate that comes after all the others may be appended.            *)
LEMMA AppendInOrder ==
    ASSUME Arguments, NEW s, SeqOK(s), NEW c \in Given, \A k \in DOMAIN s : Before(s[k], c)
    PROVE  SeqOK(Append(s, c))
<1> DEFINE s2 == Append(s, c)
<1>1. s \in Seq(Given)
  BY DEF SeqOK
<1>2. /\ s2 \in Seq(Given) /\ Len(s) \in Nat /\ DOMAIN s = 1 .. Len(s)
      /\ Len(s2) = Len(s) + 1 /\ DOMAIN s2 = 1 .. Len(s) + 1
      /\ s2[Len(s) + 1] = c /\ \A k \in DOMAIN s : s2[k] = s[k]
  BY <1>1
<1> HIDE DEF s2
<1>3. InOrder(s2)
  <2> SUFFICES ASSUME NEW j \in DOMAIN s2, NEW k \in DOMAIN s2, j < k
               PROVE  Before(s2[j], s2[k])
    BY DEF InOrder
  <2>1. j \in DOMAIN s
    BY <1>2
  <2>2. k \in DOMAIN s \/ k = Len(s) + 1
    BY <1>2
  <2> QED
    BY <1>2, <2>1, <2>2 DEF SeqOK, InOrder
<1>4. SeqOK(s2)
  BY <1>2, <1>3 DEF SeqOK
<1> QED
  BY <1>4 DEF s2

LEMMA EmptySeqOK == SeqOK(<<>>)
<1>1. <<>> \in Seq(Given) /\ DOMAIN <<>> = {}
  OBVIOUS
<1> QED
  BY <1>1 DEF SeqOK, InOrder

LEMMA InitIInv == Arguments /\ Init => IInv
<1> SUFFICES ASSUME Arguments, Init PROVE IInv
  OBVIOUS
<1>1. /\ Candidates \in Seq(Given) /\ DOMAIN Candidates = 1 .. Len(Candidates)
      /\ Len(Candidates) \in Nat \ {0} /\ Passes \in Nat \ {0} /\ Infinite \in Nat
  BY DEF Arguments
<1>2. InOrder(Candidates)
  BY <1>1 DEF InOrder, Before
<1>3. Types
  BY <1>1, <1>2, EmptySeqOK DEF Types, Init, worked, SeqOK
<1>4. MaxOK
  BY <1>1 DEF MaxOK, Init
<1>5. Successes(pass) = {} /\ Entered(pass) = {}
  BY <1>1 DEF Successes, Entered, Init
<1>6. ResultsOK
  BY <1>5 DEF ResultsOK, Init
<1>7. LoopOK
  BY <1>1, <1>5 DEF LoopOK, FirstOf, Init
<1>8. History
  BY <1>1 DEF History, Of, Given, Init
<1>9. TypeOK
  BY <1>1, <1>2, EmptySeqOK DEF TypeOK, Init, SeqOK
<1>10. out[1] = "running"
  BY DEF Init, Running
<1> QED
  BY <1>3, <1>4, <1>6, <1>7, <1>8, <1>9, <1>10 DEF IInv, Run, Promised, FailsOnlyIfAllFail


-----------------------------------------------------------------------------
(* The loop that tests.                                                    *)

\* What a test with outcome o adds to tests.
LEMMA TestsStep ==
    ASSUME Arguments, Run, loop = "test", i <= Len(retained),
           NEW o \in Results \union {Failed}, Tested(o)
    PROVE  /\ retained[i] \in Given /\ i \in DOMAIN retained
           /\ tests' \in [1 .. Passes -> SUBSET (Given \X (Results \union {Failed}))]
           /\ tests'[pass] = tests[pass] \union {<<retained[i], o>>}
           /\ \A p \in 1 .. Passes : p # pass => tests'[p] = tests[p]
           /\ \A p \in 1 .. Passes : \A t, u \in tests'[p] : t[1] = u[1] => t = u
<1>1. /\ retained \in Seq(Given) /\ i \in DOMAIN retained /\ pass \in 1 .. Passes
      /\ tests \in [1 .. Passes -> SUBSET (Given \X (Results \union {Failed}))]
  BY DEF Run, Types, SeqOK
<1>2. retained[i] \in Given
  BY <1>1
<1>3. PICK c \in Given : c = retained[i]
  BY <1>2
<1>4. c \notin Entered(pass)
  <2> SUFFICES ASSUME c \in Entered(pass) PROVE FALSE
    OBVIOUS
  <2>1. PICK j \in 1 .. i - 1 : retained[j] = c
    BY DEF Run, LoopOK, FirstOf
  <2>2. j \in DOMAIN retained
    BY <1>1, <2>1
  <2> QED
    BY <1>1, <1>3, <2>1, <2>2, NoRepetition DEF Run, Types
<1>5. tests' = [tests EXCEPT ![pass] = tests[pass] \union {<<c, o>>}]
  BY <1>3 DEF Tested
<1>6. /\ tests' \in [1 .. Passes -> SUBSET (Given \X (Results \union {Failed}))]
      /\ tests'[pass] = tests[pass] \union {<<c, o>>}
      /\ \A p \in 1 .. Passes : p # pass => tests'[p] = tests[p]
  BY <1>1, <1>5
<1>7. ASSUME NEW p \in 1 .. Passes, NEW t \in tests'[p], NEW u \in tests'[p], t[1] = u[1]
      PROVE  t = u
  <2>1. CASE p # pass
    BY <1>6, <1>7, <2>1 DEF Run, Types
  <2>2. CASE p = pass
    <3>1. \A x \in tests[pass] : x[1] # c
      BY <1>4 DEF Entered
    <3>2. t \in tests[pass] \/ t = <<c, o>>
      BY <1>6, <2>2
    <3>3. u \in tests[pass] \/ u = <<c, o>>
      BY <1>6, <2>2
    <3>4. CASE t = <<c, o>> \/ u = <<c, o>>
      BY <1>7, <3>1, <3>2, <3>3, <3>4
    <3> QED
      BY <1>1, <1>7, <3>2, <3>3, <3>4 DEF Run, Types
  <2> QED
    BY <2>1, <2>2
<1> QED
  BY <1>1, <1>2, <1>3, <1>6, <1>7

LEMMA HistoryUnchanged ==
    ASSUME History, UNCHANGED <<pass, loop, retained, tests>>
    PROVE  History'
<1>1. \A p : Entered(p)' = Entered(p) /\ Successes(p)' = Successes(p)
  BY DEF Entered, Successes
<1>2. \A p : Of(p)' = Of(p)
  BY <1>1 DEF Of
<1>3. \A p, c : Survives(c, p)' <=> Survives(c, p)
  BY <1>1 DEF Survives
<1> QED
  BY <1>1, <1>2, <1>3 DEF History

(* Testing one candidate keeps the parts of the invariant that do not      *)
(* depend on the outcome.                                                  *)
LEMMA TestKeeps ==
    ASSUME Arguments, Run, loop = "test", i <= Len(retained),
           NEW o \in Results \union {Failed}, Tested(o),
           UNCHANGED <<pass, loop, retained>>, i' = i + 1
    PROVE  /\ FirstOf(retained, i, Entered(pass)')
           /\ History'
           /\ \A p \in pass' + 1 .. Passes : tests'[p] = {}
           /\ i' \in 1 .. Len(retained) + 1
<1>1. /\ i \in DOMAIN retained /\ DOMAIN retained = 1 .. Len(retained) /\ Len(retained) \in Nat
      /\ pass \in 1 .. Passes /\ Passes \in Nat
  BY DEF Run, Types, SeqOK, Arguments
<1>2. /\ tests'[pass] = tests[pass] \union {<<retained[i], o>>}
      /\ \A p \in 1 .. Passes : p # pass => tests'[p] = tests[p]
  BY TestsStep
<1>3. Entered(pass)' = Entered(pass) \union {retained[i]}
  <2>1. Entered(pass)' = {t[1] : t \in tests'[pass]}
    BY DEF Entered
  <2>2. <<retained[i], o>>[1] = retained[i]
    OBVIOUS
  <2> QED
    BY <1>2, <2>1, <2>2, Zenon DEF Entered
<1>4. FirstOf(retained, i - 1, Entered(pass))
  BY DEF Run, LoopOK
<1>5. FirstOf(retained, i, Entered(pass)')
  BY <1>1, <1>3, <1>4 DEF FirstOf
<1>6. ASSUME NEW p \in 1 .. pass - 1
      PROVE  /\ Entered(p)' = Entered(p) /\ Of(p)' = Of(p)
             /\ \A c : Survives(c, p)' <=> Survives(c, p)
  <2>1. tests'[p] = tests[p] /\ p # pass
    BY <1>1, <1>2
  <2>2. Entered(p)' = Entered(p) /\ Successes(p)' = Successes(p)
    BY <2>1 DEF Entered, Successes
  <2> QED
    BY <2>1, <2>2 DEF Survives, Of
<1>7. Of(pass)' = Of(pass)
  BY DEF Of
<1>8. History'
  BY <1>1, <1>6, <1>7 DEF History, Run
<1>9. \A p \in pass' + 1 .. Passes : tests'[p] = {}
  <2>1. pass' = pass /\ \A p \in pass + 1 .. Passes : tests[p] = {}
    BY DEF Run, Types
  <2> QED
    BY <1>1, <1>2, <2>1
<1> QED
  BY <1>1, <1>5, <1>8, <1>9

(* The properties say nothing more of a call that still runs.              *)
LEMMA StillRunning ==
    ASSUME Run', out' = Running
    PROVE  IInv'
<1>1. out'[1] = "running"
  BY DEF Running
<1>2. TypeOK'
  BY DEF TypeOK, Run, Types, SeqOK, worked
<1> QED
  BY <1>1, <1>2 DEF IInv, Promised, FailsOnlyIfAllFail

LEMMA FailedTestIInv ==
    ASSUME Arguments, Run, out = Running, loop = "test", i <= Len(retained), Tested(Failed),
           UNCHANGED <<retained2, results, maxA, enabled, pass, loop, retained, out>>, i' = i + 1
    PROVE  IInv'
<1>1. /\ FirstOf(retained, i, Entered(pass)') /\ History'
      /\ \A p \in pass' + 1 .. Passes : tests'[p] = {}
      /\ i' \in 1 .. Len(retained) + 1
  BY TestKeeps
<1>2. /\ tests' \in [1 .. Passes -> SUBSET (Given \X (Results \union {Failed}))]
      /\ tests'[pass] = tests[pass] \union {<<retained[i], Failed>>}
      /\ \A p \in 1 .. Passes : \A t, u \in tests'[p] : t[1] = u[1] => t = u
  BY TestsStep
<1>3. i \in Nat /\ i' - 1 = i
  BY DEF Run, Types
<1>4. Types'
  BY <1>1, <1>2 DEF Run, Types, worked, SeqOK, InOrder
<1>5. MaxOK'
  BY DEF Run, MaxOK
<1>6. Successes(pass)' = Successes(pass)
  <2>1. Successes(pass)' = {t \in tests'[pass] : t[2] # Failed}
    BY DEF Successes
  <2>2. <<retained[i], Failed>>[2] = Failed
    OBVIOUS
  <2> QED
    BY <1>2, <2>1, <2>2 DEF Successes
<1>7. ResultsOK'
  BY <1>6 DEF Run, ResultsOK, worked
<1>8. LoopOK'
  BY <1>1, <1>3 DEF Run, LoopOK
<1> QED
  BY <1>1, <1>4, <1>5, <1>7, <1>8, StillRunning DEF Run

LEMMA GoodTestIInv ==
    ASSUME Arguments, Run, out = Running, loop = "test", i <= Len(retained),
           NEW r \in Results, Tested(r),
           retained2' = Append(retained2, retained[i]), results' = Append(results, r),
           maxA' = (IF r[1] > maxA THEN r[1] ELSE maxA),
           UNCHANGED <<enabled, pass, loop, retained, out>>, i' = i + 1
    PROVE  IInv'
<1>1. /\ FirstOf(retained, i, Entered(pass)') /\ History'
      /\ \A p \in pass' + 1 .. Passes : tests'[p] = {}
      /\ i' \in 1 .. Len(retained) + 1
  BY TestKeeps
<1>2. /\ retained[i] \in Given /\ i \in DOMAIN retained
      /\ tests' \in [1 .. Passes -> SUBSET (Given \X (Results \union {Failed}))]
      /\ tests'[pass] = tests[pass] \union {<<retained[i], r>>}
      /\ \A p \in 1 .. Passes : \A t, u \in tests'[p] : t[1] = u[1] => t = u
  BY TestsStep
<1>3. i \in Nat /\ i' - 1 = i /\ loop' = "test"
  BY DEF Run, Types
<1>4. PICK c \in Given : c = retained[i]
  BY <1>2
<1>5. \A k \in DOMAIN retained2 : Before(retained2[k], c)
  <2> SUFFICES ASSUME NEW k \in DOMAIN retained2 PROVE Before(retained2[k], c)
    OBVIOUS
  <2>1. PICK j \in 1 .. i - 1 : retained2[k] = retained[j]
    BY DEF Run, LoopOK
  <2>2. j \in DOMAIN retained /\ j < i /\ InOrder(retained)
    BY <1>2, <1>3, <2>1 DEF Run, Types, SeqOK
  <2> QED
    BY <1>2, <1>4, <2>1, <2>2 DEF InOrder
<1>a. SeqOK(retained2) /\ retained2' = Append(retained2, c)
  BY <1>4 DEF Run, Types
<1>6. /\ SeqOK(retained2') /\ Len(retained2) \in Nat /\ DOMAIN retained2 = 1 .. Len(retained2)
      /\ Len(retained2') = Len(retained2) + 1 /\ DOMAIN retained2' = 1 .. Len(retained2) + 1
      /\ retained2'[Len(retained2) + 1] = c
      /\ \A k \in DOMAIN retained2 : retained2'[k] = retained2[k]
  <2>1. SeqOK(Append(retained2, c))
    BY <1>a, <1>5, AppendInOrder
  <2>2. retained2 \in Seq(Given)
    BY <1>a DEF SeqOK
  <2> QED
    BY <1>a, <2>1, <2>2
<1>7. /\ results \in Seq(Results) /\ Len(results) = Len(retained2)
      /\ DOMAIN results = 1 .. Len(retained2)
  BY DEF Run, Types, worked
<1>8. /\ results' \in Seq(Results) /\ Len(results') = Len(retained2')
      /\ DOMAIN results' = 1 .. Len(retained2) + 1
      /\ results'[Len(retained2) + 1] = r
      /\ \A k \in DOMAIN results : results'[k] = results[k]
  BY <1>6, <1>7
<1>9. Types'
  BY <1>1, <1>2, <1>3, <1>6, <1>8 DEF Run, Types, worked, SeqOK, InOrder
<1>10. MaxOK'
  <2>1. r[1] \in 0 .. Infinite /\ Infinite \in Nat /\ maxA \in -1 .. Infinite
    BY Rates DEF Run, MaxOK
  <2>2. results' # <<>> /\ maxA' \in -1 .. Infinite
    BY <1>6, <1>8, <2>1
  <2>3. \A k \in DOMAIN results : results[k][1] \in Int
    BY <1>7, Rates
  <2>4. ASSUME NEW k \in DOMAIN results' PROVE results'[k][1] <= maxA'
    <3>1. k \in DOMAIN results \/ k = Len(retained2) + 1
      BY <1>6, <1>7, <1>8
    <3> QED
      BY <1>8, <2>1, <2>3, <3>1 DEF Run, MaxOK
  <2>5. \E k \in DOMAIN results' : results'[k][1] = maxA'
    <3>1. CASE r[1] > maxA
      BY <1>6, <1>8, <3>1
    <3>2. CASE ~(r[1] > maxA)
      <4>1. results # <<>>
        BY <2>1, <3>2 DEF Run, MaxOK
      <4>2. PICK k \in DOMAIN results : results[k][1] = maxA
        BY <4>1 DEF Run, MaxOK
      <4>3. k \in DOMAIN results' /\ results'[k] = results[k]
        BY <1>6, <1>7, <1>8, <4>2
      <4> QED
        BY <3>2, <4>2, <4>3
    <3> QED
      BY <3>1, <3>2
  <2> QED
    BY <2>2, <2>4, <2>5 DEF MaxOK
<1>11. Successes(pass)' = Successes(pass) \union {<<c, r>>}
  <2>1. Successes(pass)' = {t \in tests'[pass] : t[2] # Failed}
    BY DEF Successes
  <2>2. <<c, r>>[2] # Failed
    BY Rates
  <2> QED
    BY <1>2, <1>4, <2>1, <2>2 DEF Successes
<1>12. ResultsOK'
  <2>1. worked' = retained2' /\ worked = retained2
    BY <1>3 DEF worked
  <2>2. ASSUME NEW k \in DOMAIN results' PROVE <<retained2'[k], results'[k]>> \in Successes(pass)'
    <3>1. CASE k \in DOMAIN results
      <4>1. <<retained2[k], results[k]>> \in Successes(pass)
        BY <2>1, <3>1 DEF Run, ResultsOK
      <4>2. retained2'[k] = retained2[k] /\ results'[k] = results[k]
        BY <1>6, <1>7, <1>8, <3>1
      <4> QED
        BY <1>11, <4>1, <4>2
    <3>2. CASE k = Len(retained2) + 1
      <4>1. <<retained2'[k], results'[k]>> = <<c, r>>
        BY <1>6, <1>8, <3>2
      <4> QED
        BY <1>11, <4>1
    <3>3. k \in DOMAIN results \/ k = Len(retained2) + 1
      BY <1>6, <1>7, <1>8
    <3> QED
      BY <3>1, <3>2, <3>3
  <2>3. ASSUME NEW t \in Successes(pass)'
        PROVE  \E k \in DOMAIN results' : t = <<retained2'[k], results'[k]>>
    <3>1. CASE t = <<c, r>>
      BY <1>6, <1>8, <3>1
    <3>2. CASE t \in Successes(pass)
      <4>1. PICK k \in DOMAIN results : t = <<retained2[k], results[k]>>
        BY <2>1, <3>2 DEF Run, ResultsOK
      <4>2. k \in DOMAIN results' /\ k \in DOMAIN retained2
        BY <1>6, <1>7, <1>8
      <4> QED
        BY <1>6, <1>8, <4>1, <4>2
    <3> QED
      BY <1>11, <3>1, <3>2
  <2> QED
    BY <2>1, <2>2, <2>3 DEF ResultsOK
<1>13. LoopOK'
  <2>1. ASSUME NEW k \in DOMAIN retained2' PROVE \E j \in 1 .. i : retained2'[k] = retained[j]
    <3>1. CASE k \in DOMAIN retained2
      <4>1. PICK j \in 1 .. i - 1 : retained2[k] = retained[j]
        BY <3>1 DEF Run, LoopOK
      <4> QED
        BY <1>3, <1>6, <3>1, <4>1
    <3>2. CASE k = Len(retained2) + 1
      BY <1>2, <1>3, <1>4, <1>6, <3>2
    <3> QED
      BY <1>6, <3>1, <3>2
  <2> QED
    BY <1>1, <1>3, <2>1, SMTT(30) DEF Run, LoopOK
<1> QED
  BY <1>1, <1>9, <1>10, <1>12, <1>13, StillRunning DEF Run

LEMMA EndTestsIInv ==
    ASSUME Arguments, Run, out = Running, EndTests
    PROVE  IInv'
<1>1. /\ loop = "test" /\ i > Len(retained) /\ retained' = retained2 /\ retained2' = <<>>
      /\ i' = 1 /\ loop' = (IF pass < Passes THEN "filter" ELSE "select")
      /\ UNCHANGED <<enabled, pass, results, maxA, tests>>
  BY DEF EndTests, In
<1>2. /\ retained \in Seq(Given) /\ retained # <<>> /\ i = Len(retained) + 1
      /\ DOMAIN retained = 1 .. Len(retained) /\ Len(retained) \in Nat
      /\ retained2 \in Seq(Given) /\ Len(results) = Len(retained2) /\ results \in Seq(Results)
      /\ pass \in 1 .. Passes /\ Passes \in Nat
  BY <1>1 DEF Run, Types, LoopOK, SeqOK, worked, Arguments
<1>3. FirstOf(retained, Len(retained), Entered(pass)) /\ i - 1 = Len(retained)
  BY <1>1, <1>2 DEF Run, LoopOK
<1>4. Entered(pass) = {retained[k] : k \in DOMAIN retained}
  BY <1>2, <1>3 DEF FirstOf
<1>5. CASE retained2 = <<>>
  <2>1. out' = <<"TuneError">> /\ results = <<>>
    BY <1>1, <1>2, <1>5 DEF EndTests
  <2>2. TypeOK'
    BY <1>1, <1>2, <1>5, <2>1, EmptySeqOK DEF TypeOK, SeqOK
  <2>3. Successes(pass) = {}
    BY <2>1 DEF Run, ResultsOK
  <2>4. tests[pass] # {}
    <3>1. retained[1] \in Entered(pass)
      BY <1>2, <1>4
    <3> QED
      BY <3>1 DEF Entered
  <2>5. FailsOnlyIfAllFail' /\ Promised'
    BY <1>1, <2>1, <2>3, <2>4 DEF FailsOnlyIfAllFail, Promised, Successes
  <2>6. out' # Running
    BY <2>1 DEF Running
  <2> QED
    BY <2>2, <2>5, <2>6 DEF IInv
<1>6. CASE retained2 # <<>>
  <2>1. out' = Running /\ results # <<>>
    BY <1>1, <1>2, <1>6 DEF EndTests
  <2>2. loop' # "test" /\ loop' \in {"filter", "select"} /\ worked' = worked /\ worked = retained2
    BY <1>1 DEF worked
  <2>3. Types'
    BY <1>1, <1>2, <2>2, EmptySeqOK DEF Run, Types, SeqOK
  <2>4. MaxOK'
    BY <1>1 DEF Run, MaxOK
  <2>5. ResultsOK'
    BY <1>1, <2>2 DEF Run, ResultsOK, Successes
  <2>6. LoopOK'
    BY <1>1, <1>2, <2>1, <2>2 DEF LoopOK
  <2>7. \A p \in 1 .. Passes : /\ Entered(p)' = Entered(p)
                               /\ \A c : Survives(c, p)' <=> Survives(c, p)
    BY <1>1 DEF Entered, Survives, Successes
  <2>8. \A p \in 1 .. pass : Of(p)' = Of(p)
    BY <1>1, <1>2, <1>4, <2>2, <2>7 DEF Of
  <2>9. History'
    <3>1. Of(1)' = Given
      BY <1>2, <2>8 DEF Run, History
    <3>2. ASSUME NEW p \in 1 .. pass - 1
          PROVE  Of(p + 1)' = {c \in Entered(p)' : Survives(c, p)'}
      <4>1. Of(p + 1) = {c \in Entered(p) : Survives(c, p)}
        BY DEF Run, History
      <4>2. p \in 1 .. Passes /\ p + 1 \in 1 .. pass
        BY <1>2
      <4> QED
        BY <2>7, <2>8, <4>1, <4>2
    <3> QED
      BY <1>1, <3>1, <3>2 DEF History
  <2> QED
    BY <2>1, <2>3, <2>4, <2>5, <2>6, <2>9, StillRunning DEF Run
<1> QED
  BY <1>5, <1>6

-----------------------------------------------------------------------------
(* The loop that leaves out slow candidates.                               *)

(* Comparing with the largest A is comparing with all of them.             *)
LEMMA KeepsIsSurvives ==
    ASSUME Arguments, Run, loop # "test", NEW k \in DOMAIN results
    PROVE  Survives(retained[k], pass) <=> Keeps(results[k][1], maxA)
<1>1. /\ results \in Seq(Results) /\ worked = retained /\ pass \in 1 .. Passes
      /\ maxA \in Int /\ Infinite \in Nat
  BY DEF Run, Types, worked, MaxOK, Arguments
<1>2. \A j \in DOMAIN results : results[j][1] \in 0 .. Infinite /\ results[j][1] <= maxA
  BY <1>1, Rates DEF Run, MaxOK
<1>3. <<retained[k], results[k]>> \in Successes(pass)
  BY <1>1 DEF Run, ResultsOK
<1>4. \A u \in Successes(pass) : \E j \in DOMAIN results : u[2] = results[j]
  BY <1>1 DEF Run, ResultsOK
<1>5. maxA <= Infinite
  BY DEF Run, MaxOK
<1>6. ASSUME Keeps(results[k][1], maxA) PROVE Survives(retained[k], pass)
  <2>1. ASSUME NEW u \in Successes(pass) PROVE Keeps(results[k][1], u[2][1])
    <3>1. PICK j \in DOMAIN results : u[2] = results[j]
      BY <1>4
    <3> QED
      BY <1>1, <1>2, <1>5, <1>6, <3>1 DEF Keeps
  <2>2. PICK t \in Successes(pass) : t[1] = retained[k] /\ t[2] = results[k]
    BY <1>3
  <2> QED
    BY <2>1, <2>2 DEF Survives
<1>7. ASSUME Survives(retained[k], pass) PROVE Keeps(results[k][1], maxA)
  <2>1. PICK t \in Successes(pass) :
           t[1] = retained[k] /\ \A u \in Successes(pass) : Keeps(t[2][1], u[2][1])
    BY <1>7 DEF Survives
  <2>2. t \in tests[pass] /\ <<retained[k], results[k]>> \in tests[pass]
    BY <1>3 DEF Successes
  <2>3. t[2] = results[k]
    BY <1>1, <2>1, <2>2 DEF Run, Types
  <2>4. PICK j \in DOMAIN results : results[j][1] = maxA
    BY DEF Run, MaxOK, LoopOK
  <2>5. <<retained[j], results[j]>> \in Successes(pass)
    BY <1>1 DEF Run, ResultsOK
  <2> QED
    BY <2>1, <2>3, <2>4, <2>5
<1> QED
  BY <1>6, <1>7

LEMMA FilterIInv ==
    ASSUME Arguments, Run, out = Running, Filter
    PROVE  IInv'
<1>1. /\ loop = "filter" /\ i <= Len(results) /\ i' = i + 1
      /\ UNCHANGED <<enabled, pass, loop, retained, results, maxA, out, tests>>
      /\ retained2' = (IF Keeps(results[i][1], maxA) THEN Append(retained2, retained[i])
                       ELSE retained2)
  BY DEF Filter, In
<1>2. /\ retained \in Seq(Given) /\ i \in DOMAIN retained /\ i \in Nat
      /\ DOMAIN retained = 1 .. Len(results) /\ Len(results) \in Nat
      /\ i' - 1 = i /\ i' \in 1 .. Len(results) + 1
  BY <1>1 DEF Run, Types, SeqOK, worked
<1>3. PICK c \in Given : c = retained[i]
  BY <1>2
<1>4. \A k \in DOMAIN retained2 : Before(retained2[k], c)
  <2> SUFFICES ASSUME NEW k \in DOMAIN retained2 PROVE Before(retained2[k], c)
    OBVIOUS
  <2>1. PICK j \in 1 .. i - 1 : retained2[k] = retained[j]
    BY <1>1 DEF Run, LoopOK
  <2>2. j \in DOMAIN retained /\ j < i /\ InOrder(retained)
    BY <1>2, <2>1 DEF Run, Types, SeqOK
  <2> QED
    BY <1>2, <1>3, <2>1, <2>2 DEF InOrder
<1>5. SeqOK(retained2)
  BY DEF Run, Types
<1>6. SeqOK(Append(retained2, c))
  BY <1>4, <1>5, AppendInOrder
<1>7. Types'
  BY <1>1, <1>2, <1>3, <1>5, <1>6 DEF Run, Types, worked
<1>8. MaxOK' /\ ResultsOK'
  BY <1>1 DEF Run, MaxOK, ResultsOK, Successes, worked
<1>9. History'
  BY <1>1, HistoryUnchanged DEF Run
<1>10. /\ pass < Passes /\ results # <<>>
       /\ \A k \in DOMAIN retained2 :
             \E j \in 1 .. i - 1 : retained2[k] = retained[j] /\ Keeps(results[j][1], maxA)
       /\ \A j \in 1 .. i - 1 : Keeps(results[j][1], maxA) =>
             \E k \in DOMAIN retained2 : retained2[k] = retained[j]
  BY <1>1 DEF Run, LoopOK
<1>11. CASE ~Keeps(results[i][1], maxA)
  <2>1. /\ \A k \in DOMAIN retained2 :
              \E j \in 1 .. i : retained2[k] = retained[j] /\ Keeps(results[j][1], maxA)
        /\ \A j \in 1 .. i : Keeps(results[j][1], maxA) =>
              \E k \in DOMAIN retained2 : retained2[k] = retained[j]
    <3>1. \A j \in 1 .. i : j = i \/ j \in 1 .. i - 1
      BY <1>2
    <3>2. \A j \in 1 .. i - 1 : j \in 1 .. i
      BY <1>2
    <3> QED
      BY <1>10, <1>11, <3>1, <3>2
  <2>2. LoopOK'
    BY <1>1, <1>2, <1>10, <1>11, <2>1 DEF LoopOK
  <2> QED
    BY <1>1, <1>7, <1>8, <1>9, <2>2, StillRunning DEF Run
<1>12. CASE Keeps(results[i][1], maxA)
  <2>1. retained2' = Append(retained2, c) /\ retained2 \in Seq(Given)
    BY <1>1, <1>3, <1>5, <1>12 DEF SeqOK
  <2>2. /\ DOMAIN retained2' = 1 .. Len(retained2) + 1 /\ Len(retained2) \in Nat
        /\ DOMAIN retained2 = 1 .. Len(retained2)
        /\ retained2'[Len(retained2) + 1] = c
        /\ \A k \in DOMAIN retained2 : retained2'[k] = retained2[k]
    BY <2>1
  <2>3. ASSUME NEW k \in DOMAIN retained2'
        PROVE  \E j \in 1 .. i : retained2'[k] = retained[j] /\ Keeps(results[j][1], maxA)
    <3>1. CASE k \in DOMAIN retained2
      <4>1. PICK j \in 1 .. i - 1 : retained2[k] = retained[j] /\ Keeps(results[j][1], maxA)
        BY <1>10, <3>1
      <4> QED
        BY <1>2, <2>2, <3>1, <4>1
    <3>2. CASE k = Len(retained2) + 1
      BY <1>2, <1>3, <1>12, <2>2, <3>2
    <3> QED
      BY <2>2, <3>1, <3>2
  <2>4. ASSUME NEW j \in 1 .. i, Keeps(results[j][1], maxA)
        PROVE  \E k \in DOMAIN retained2' : retained2'[k] = retained[j]
    <3>1. CASE j = i
      BY <1>3, <2>2, <3>1
    <3>2. CASE j \in 1 .. i - 1
      <4>1. PICK k \in DOMAIN retained2 : retained2[k] = retained[j]
        BY <1>10, <2>4, <3>2
      <4> QED
        BY <2>2, <4>1
    <3> QED
      BY <1>2, <3>1, <3>2
  <2>5. LoopOK'
    BY <1>1, <1>2, <1>10, <2>3, <2>4 DEF LoopOK
  <2> QED
    BY <1>1, <1>7, <1>8, <1>9, <2>5, StillRunning DEF Run
<1> QED
  BY <1>11, <1>12

LEMMA EndFilterIInv ==
    ASSUME Arguments, Run, out = Running, EndFilter
    PROVE  IInv'
<1>1. /\ loop = "filter" /\ i > Len(results) /\ retained' = retained2 /\ retained2' = <<>>
      /\ pass' = pass + 1 /\ i' = 1 /\ loop' = "test" /\ results' = <<>> /\ maxA' = -1
      /\ UNCHANGED <<enabled, out, tests>>
  BY DEF EndFilter, In, NoMaxA
<1>2. /\ retained \in Seq(Given) /\ results \in Seq(Results) /\ retained2 \in Seq(Given)
      /\ DOMAIN retained = DOMAIN results /\ i = Len(results) + 1
      /\ DOMAIN results = 1 .. i - 1 /\ i \in Nat
      /\ pass \in 1 .. Passes /\ pass < Passes /\ Passes \in Nat /\ results # <<>>
      /\ worked = retained /\ Infinite \in Nat
  BY <1>1 DEF Run, Types, SeqOK, worked, LoopOK, Arguments
<1>3. /\ \A k \in DOMAIN retained2 :
            \E j \in DOMAIN results : retained2[k] = retained[j] /\ Keeps(results[j][1], maxA)
      /\ \A j \in DOMAIN results : Keeps(results[j][1], maxA) =>
            \E k \in DOMAIN retained2 : retained2[k] = retained[j]
  BY <1>1, <1>2 DEF Run, LoopOK
<1>4. retained2 # <<>>
  <2>1. PICK j \in DOMAIN results : results[j][1] = maxA
    BY <1>2 DEF Run, MaxOK
  <2>2. results[j][1] \in 0 .. Infinite
    BY <1>2, Rates
  <2>3. Keeps(results[j][1], maxA)
    BY <1>2, <2>1, <2>2 DEF Keeps
  <2>4. PICK k \in DOMAIN retained2 : retained2[k] = retained[j]
    BY <1>3, <2>3
  <2> QED
    BY <2>4
<1>5. tests[pass + 1] = {} /\ pass + 1 \in 1 .. Passes
  BY <1>2 DEF Run, Types
<1>6. Entered(pass)' = {} /\ Successes(pass)' = {}
  BY <1>1, <1>5 DEF Entered, Successes
<1>7. Types'
  BY <1>1, <1>2, <1>5, EmptySeqOK DEF Run, Types, worked, SeqOK
<1>8. MaxOK' /\ ResultsOK'
  BY <1>1, <1>2, <1>6 DEF MaxOK, ResultsOK
<1>9. LoopOK'
  BY <1>1, <1>4, <1>6 DEF LoopOK, FirstOf
<1>10. {retained2[k] : k \in DOMAIN retained2} = {c \in Entered(pass) : Survives(c, pass)}
  <2>1. ASSUME NEW k \in DOMAIN retained2
        PROVE  retained2[k] \in Entered(pass) /\ Survives(retained2[k], pass)
    <3>1. PICK j \in DOMAIN results : retained2[k] = retained[j] /\ Keeps(results[j][1], maxA)
      BY <1>3
    <3>2. Survives(retained[j], pass)
      BY <1>1, <3>1, KeepsIsSurvives
    <3>3. PICK t \in tests[pass] : t[1] = retained[j]
      BY <3>2 DEF Survives, Successes
    <3> QED
      BY <3>1, <3>2, <3>3 DEF Entered
  <2>2. ASSUME NEW c \in Entered(pass), Survives(c, pass)
        PROVE  \E k \in DOMAIN retained2 : retained2[k] = c
    <3>1. PICK t \in Successes(pass) : t[1] = c
      BY <2>2 DEF Survives
    <3>2. PICK j \in DOMAIN results : t = <<retained[j], results[j]>>
      BY <1>2 DEF Run, ResultsOK
    <3>3. retained[j] = c
      BY <3>1, <3>2
    <3>4. Keeps(results[j][1], maxA)
      BY <1>1, <2>2, <3>3, KeepsIsSurvives
    <3> QED
      BY <1>3, <3>3, <3>4
  <2> QED
    BY <2>1, <2>2
<1>11. ASSUME NEW p \in 1 .. pass
       PROVE  /\ Entered(p)' = Entered(p) /\ Of(p)' = Of(p)
              /\ \A c : Survives(c, p)' <=> Survives(c, p)
  BY <1>1, <1>2 DEF Entered, Survives, Successes, Of
<1>12. History'
  <2>1. Of(1)' = Given
    BY <1>2, <1>11 DEF Run, History
  <2>2. ASSUME NEW p \in 1 .. pass
        PROVE  Of(p + 1)' = {c \in Entered(p)' : Survives(c, p)'}
    <3>1. CASE p = pass
      <4>1. Of(p + 1)' = {retained2[k] : k \in DOMAIN retained2}
        BY <1>1, <3>1 DEF Of
      <4> QED
        BY <1>10, <1>11, <3>1, <4>1
    <3>2. CASE p # pass
      <4>1. p \in 1 .. pass - 1 /\ p + 1 \in 1 .. pass
        BY <1>2, <3>2
      <4>2. Of(p + 1) = {c \in Entered(p) : Survives(c, p)}
        BY <4>1 DEF Run, History
      <4> QED
        BY <1>11, <4>1, <4>2
    <3> QED
      BY <3>1, <3>2
  <2>3. pass' - 1 = pass
    BY <1>1, <1>2
  <2> QED
    BY <2>1, <2>2, <2>3 DEF History
<1> QED
  BY <1>1, <1>7, <1>8, <1>9, <1>12, StillRunning DEF Run

-----------------------------------------------------------------------------
(* The loop that selects.                                                  *)

(* Reaching the largest A is reaching all of them.                         *)
LEMMA ReachesIsGood ==
    ASSUME Arguments, Run, loop = "select", NEW k \in DOMAIN results
    PROVE  Good(retained[k]) <=> Reaches(results[k])
<1>1. /\ results \in Seq(Results) /\ worked = retained /\ pass \in 1 .. Passes
      /\ maxA \in Int /\ Infinite \in Nat /\ pass = Passes /\ results # <<>>
  BY DEF Run, Types, worked, MaxOK, Arguments, LoopOK
<1>2. \A j \in DOMAIN results : /\ results[j][1] \in 0 .. Infinite /\ results[j][1] <= maxA
                                /\ results[j][2] \in 0 .. Infinite
  BY <1>1, Rates DEF Run, MaxOK
<1>3. <<retained[k], results[k]>> \in Successes(pass)
  BY <1>1 DEF Run, ResultsOK
<1>4. \A u \in Successes(pass) : \E j \in DOMAIN results : u[2] = results[j]
  BY <1>1 DEF Run, ResultsOK
<1>5. ASSUME Reaches(results[k]) PROVE Good(retained[k])
  <2>1. ASSUME NEW u \in Successes(pass) PROVE results[k][2] >= u[2][1]
    <3>1. PICK j \in DOMAIN results : u[2] = results[j]
      BY <1>4
    <3> QED
      BY <1>1, <1>2, <1>5, <3>1 DEF Reaches
  <2>2. PICK t \in Successes(pass) : t[1] = retained[k] /\ t[2] = results[k]
    BY <1>3
  <2> QED
    BY <1>1, <2>1, <2>2 DEF Good
<1>6. ASSUME Good(retained[k]) PROVE Reaches(results[k])
  <2>1. PICK t \in Successes(pass) :
           t[1] = retained[k] /\ \A u \in Successes(pass) : t[2][2] >= u[2][1]
    BY <1>1, <1>6 DEF Good
  <2>2. t \in tests[pass] /\ <<retained[k], results[k]>> \in tests[pass]
    BY <1>3 DEF Successes
  <2>3. t[2] = results[k]
    BY <1>1, <2>1, <2>2 DEF Run, Types
  <2>4. PICK j \in DOMAIN results : results[j][1] = maxA
    BY <1>1 DEF Run, MaxOK
  <2>5. <<retained[j], results[j]>> \in Successes(pass)
    BY <1>1 DEF Run, ResultsOK
  <2> QED
    BY <2>1, <2>3, <2>4, <2>5 DEF Reaches
<1> QED
  BY <1>5, <1>6

LEMMA SelectIInv ==
    ASSUME Arguments, Run, out = Running, Select
    PROVE  IInv'
<1>1. /\ loop = "select"
      /\ UNCHANGED <<enabled, pass, loop, retained, retained2, results, maxA, tests>>
  BY DEF Select, In
<1>2. /\ retained \in Seq(Given) /\ results \in Seq(Results) /\ InOrder(retained)
      /\ DOMAIN retained = DOMAIN results /\ DOMAIN results = 1 .. Len(results)
      /\ i \in 1 .. Len(results) + 1 /\ Len(results) \in Nat
      /\ pass = Passes /\ Passes \in Nat \ {0} /\ results # <<>> /\ worked = retained
      /\ \A j \in 1 .. i - 1 : ~Reaches(results[j])
  BY <1>1 DEF Run, Types, SeqOK, worked, LoopOK, Arguments
<1>3. CASE i <= Len(results) /\ Reaches(results[i]) /\ out' = <<"return", retained[i]>>
  <2>1. PICK n \in DOMAIN Candidates : Candidates[n] = retained[i]
    BY <1>2, <1>3 DEF Given
  <2>2. Good(retained[i])
    BY <1>1, <1>2, <1>3, ReachesIsGood
  <2>3. ASSUME NEW m \in 1 .. n - 1, Good(Candidates[m]) PROVE FALSE
    <3>1. m \in DOMAIN Candidates /\ n \in Nat /\ m \in Nat /\ m < n
      BY DEF Arguments
    <3>2. PICK t \in Successes(Passes) : t[1] = Candidates[m]
      BY <2>3 DEF Good
    <3>3. PICK k \in DOMAIN results : t = <<retained[k], results[k]>>
      BY <1>2 DEF Run, ResultsOK
    <3>4. retained[k] = Candidates[m]
      BY <3>2, <3>3
    <3>5. Reaches(results[k])
      BY <1>1, <2>3, <3>4, ReachesIsGood
    <3>6. k >= i
      BY <1>2, <3>5
    <3>7. Before(retained[i], retained[k]) \/ k = i
      BY <1>2, <1>3, <3>6 DEF InOrder
    <3>8. n < m \/ n = m
      BY <2>1, <3>1, <3>4, <3>7, BeforeIsStrict DEF Arguments
    <3> QED
      BY <3>1, <3>8
  <2>4. \A p \in 1 .. Passes : Of(p) = Entered(p)
    BY <1>1 DEF Of
  <2>5. /\ Entered(1) = Given
        /\ \A p \in 1 .. Passes - 1 : Entered(p + 1) = {c \in Entered(p) : Survives(c, p)}
    <3>1. Of(1) = Given /\ \A p \in 1 .. Passes - 1 : Of(p + 1) = {c \in Entered(p) : Survives(c, p)}
      BY <1>2 DEF Run, History
    <3>2. 1 \in 1 .. Passes /\ \A p \in 1 .. Passes - 1 : p + 1 \in 1 .. Passes
      BY <1>2
    <3> QED
      BY <2>4, <3>1, <3>2
  <2>6. out'[1] = "return" /\ out'[2] = retained[i] /\ out' # Running
    BY <1>3 DEF Running
  <2>7. /\ \A p : Entered(p)' = Entered(p)
        /\ \A p, c : Survives(c, p)' <=> Survives(c, p)
        /\ \A c : Good(c)' <=> Good(c)
    BY <1>1 DEF Entered, Survives, Good, Successes
  <2>8. Promised'
    BY <2>1, <2>2, <2>3, <2>5, <2>6, <2>7 DEF Promised
  <2>9. retained[i] \in Given
    BY <1>2, <1>3
  <2>10. TypeOK'
    BY <1>1, <1>2, <1>3, <2>9 DEF TypeOK, Run, Types, SeqOK
  <2> QED
    BY <2>6, <2>8, <2>10 DEF IInv, FailsOnlyIfAllFail
<1>4. CASE i <= Len(results) /\ ~Reaches(results[i]) /\ i' = i + 1 /\ out' = out
  <2>1. Types'
    BY <1>1, <1>2, <1>4 DEF Run, Types, worked
  <2>2. MaxOK' /\ ResultsOK'
    BY <1>1 DEF Run, MaxOK, ResultsOK, Successes, worked
  <2>3. \A j \in 1 .. i' - 1 : ~Reaches(results[j])
    <3>1. \A j \in 1 .. i' - 1 : j = i \/ j \in 1 .. i - 1
      BY <1>2, <1>4
    <3> QED
      BY <1>2, <1>4, <3>1
  <2>4. LoopOK'
    BY <1>1, <1>2, <2>3 DEF LoopOK, Reaches
  <2>5. History'
    BY <1>1, HistoryUnchanged DEF Run
  <2> QED
    BY <1>4, <2>1, <2>2, <2>4, <2>5, StillRunning DEF Run
<1>5. ~(i > Len(results))
  <2> SUFFICES ASSUME i > Len(results) PROVE FALSE
    OBVIOUS
  <2>1. PICK j \in DOMAIN results : results[j][1] = maxA
    BY <1>2 DEF Run, MaxOK
  <2>2. results[j][1] <= results[j][2] /\ results[j][1] \in Int /\ results[j][2] \in Int
    BY <1>2, Rates
  <2>3. j \in 1 .. i - 1
    BY <1>2, <2>1
  <2> QED
    BY <1>2, <2>1, <2>2, <2>3 DEF Reaches
<1> QED
  BY <1>3, <1>4, <1>5 DEF Select

-----------------------------------------------------------------------------
LEMMA NextIInv == Arguments /\ IInv /\ [Next]_vars => IInv'
<1> SUFFICES ASSUME Arguments, IInv, [Next]_vars PROVE IInv'
  OBVIOUS
<1>1. CASE UNCHANGED vars
  <2>1. UNCHANGED <<enabled, pass, i, loop, retained, retained2, results, maxA, out, tests>>
    BY <1>1 DEF vars
  <2>2. /\ \A p : Entered(p)' = Entered(p) /\ Successes(p)' = Successes(p) /\ Of(p)' = Of(p)
        /\ \A p, c : Survives(c, p)' <=> Survives(c, p)
        /\ \A c : Good(c)' <=> Good(c)
        /\ worked' = worked
    BY <2>1 DEF Entered, Survives, Good, Successes, Of, worked
  <2>3. Types => Types'
    BY <2>1, <2>2 DEF Types
  <2>4. (MaxOK => MaxOK') /\ (ResultsOK => ResultsOK') /\ (LoopOK => LoopOK')
    BY <2>1, <2>2 DEF MaxOK, ResultsOK, LoopOK, Reaches
  <2>5. History => History'
    BY <2>1, <2>2 DEF History
  <2>6. TypeOK' /\ Promised' /\ FailsOnlyIfAllFail'
    BY <2>1, <2>2 DEF IInv, TypeOK, Promised, FailsOnlyIfAllFail
  <2> QED
    BY <2>1, <2>3, <2>4, <2>5, <2>6 DEF IInv, Run
<1>2. CASE assertEnabled
  <2>1. out = Running /\ out' = <<"CacheError">>
    BY <1>2 DEF assertEnabled
  <2>2. TypeOK'
    BY <1>2, <2>1 DEF assertEnabled, IInv, TypeOK
  <2> QED
    BY <2>1, <2>2 DEF IInv, Running, Promised, FailsOnlyIfAllFail
<1>3. ASSUME Next, out = Running, Run PROVE assertEnabled \/ Throw \/ IInv'
  <2>1. CASE Test
    <3>1. /\ loop = "test" /\ i <= Len(retained) /\ i' = i + 1
          /\ UNCHANGED <<enabled, pass, loop, retained, out>>
      BY <2>1 DEF Test, In
    <3>2. CASE Tested(Failed) /\ UNCHANGED <<retained2, results, maxA>>
      BY <1>3, <3>1, <3>2, FailedTestIInv
    <3>3. ASSUME NEW r \in Results, Tested(r),
                 retained2' = Append(retained2, retained[i]), results' = Append(results, r),
                 maxA' = (IF r[1] > maxA THEN r[1] ELSE maxA)
          PROVE  IInv'
      BY <1>3, <3>1, <3>3, GoodTestIInv
    <3> QED
      BY <2>1, <3>2, <3>3 DEF Test
  <2>2. CASE EndTests
    BY <1>3, <2>2, EndTestsIInv
  <2>3. CASE Filter
    BY <1>3, <2>3, FilterIInv
  <2>4. CASE EndFilter
    BY <1>3, <2>4, EndFilterIInv
  <2>5. CASE Select
    BY <1>3, <2>5, SelectIInv
  <2> QED
    BY <1>3, <2>1, <2>2, <2>3, <2>4, <2>5 DEF Next
<1>4. Next => out = Running
  BY DEF Next, assertEnabled, Test, Throw, EndTests, Filter, EndFilter, Select, In
<1>5. CASE Throw
  <2>1. out = Running /\ out' = <<"exception">>
    BY <1>5 DEF Throw, In
  <2>2. TypeOK'
    BY <1>5, <2>1 DEF Throw, IInv, TypeOK
  <2> QED
    BY <2>1, <2>2 DEF IInv, Running, Promised, FailsOnlyIfAllFail
<1> QED
  BY <1>1, <1>2, <1>3, <1>4, <1>5 DEF IInv

(* The loops of tuneOne keep the invariant, for all arguments that the     *)
(* callers may pass.                                                       *)
THEOREM TuneInvariant ==
    ASSUME Arguments
    PROVE  Spec => []IInv
<1>1. Init => IInv
  BY InitIInv
<1>2. IInv /\ [Next]_vars => IInv'
  BY NextIInv
<1> QED
  BY <1>1, <1>2, PTL DEF Spec

(* What is returned is the first candidate whose B reached the largest A   *)
(* in the last phase; in every phase exactly those were tested that had    *)
(* worked and been fast enough in the one before; none is repeated or      *)
(* reordered.                                                              *)
THEOREM TuneReturnsFirstGood ==
    ASSUME Arguments
    PROVE  Spec => []ReturnsFirstGood
<1>1. IInv => ReturnsFirstGood
  BY DEF IInv, ReturnsFirstGood
<1> QED
  BY <1>1, TuneInvariant, PTL

(* abort() is never reached, and TuneError is thrown only when everything  *)
(* that a phase tested has failed.                                         *)
THEOREM TuneFailsOnlyIfAllFail ==
    ASSUME Arguments
    PROVE  Spec => []FailsOnlyIfAllFail
<1>1. IInv => FailsOnlyIfAllFail
  BY DEF IInv
<1> QED
  BY <1>1, TuneInvariant, PTL

-----------------------------------------------------------------------------
(***************************************************************************)
(* The stages of the tune functions, for every device and element type     *)
(* that clogs supports.                                                    *)
(***************************************************************************)
\* What the earlier stages have selected.
ReduceParameters == [reduceWorkGroupSize : Nat \ {0}, reduceBlocks : Nat \ {0}]

ScanParameters ==
    [reduceWorkGroupSize : Nat \ {0}, scanWorkGroupSize : Nat \ {0},
     scanWorkScale : Nat \ {0}, scanBlocks : Nat \ {0}]

RadixsortParameters ==
    {p \in [reduceWorkGroupSize : Nat, scanBlocks : Nat,
            scatterWorkGroupSize : Nat, scatterWorkScale : Nat \ {0}] :
        \E q \in Powers : p.scatterWorkGroupSize = slice * q}

ReduceCand == cand \in ReduceParameters /\ ReduceBuilds(cand)
ScanCand == cand \in ScanParameters /\ ScanBuilds(cand)
RadixsortCand == cand \in RadixsortParameters /\ RadixsortBuilds(cand)

Target ==
    /\ algorithm \in {"reduce", "scan", "radixsort"}
    /\ device \in Devices /\ size \in Sizes[algorithm]

StagesInv ==
    /\ Target
    /\ stage \in Nat
    /\ status = "running" => stage < Stages
    /\ algorithm = "reduce" /\ stage > 0 => ReduceCand
    /\ algorithm = "scan" /\ stage > 0 => ScanCand
    /\ algorithm = "radixsort" /\ stage > 0 => RadixsortCand

-----------------------------------------------------------------------------
(* Arithmetic.                                                             *)

LEMMA PowerFacts ==
    ASSUME NEW q \in Powers
    PROVE  /\ q \in Nat \ {0}
           /\ q <= 4 => q \in {1, 2, 4}
           /\ q >= 4 => q % 4 = 0
  BY DEF Powers

LEMMA DoublingFacts ==
    ASSUME NEW first \in Nat \ {0}, NEW limit \in Int
    PROVE  /\ \A x \in Doubling(first, limit) :
                 x \in 1 .. limit /\ \E q \in Powers : x = first * q
           /\ first <= limit => first \in Doubling(first, limit)
<1>1. 1 \in Powers /\ first * 1 = first
  BY DEF Powers
<1> QED
  BY <1>1 DEF Doubling

LEMMA RoundDownFacts ==
    ASSUME NEW x \in Nat, NEW y \in Nat \ {0}
    PROVE  /\ roundDown(x, y) \in Nat /\ roundDown(x, y) <= x /\ x < roundDown(x, y) + y
           /\ \E n \in Nat : roundDown(x, y) = n * y
<1>1. x \div y \in Nat /\ (x \div y) * y <= x /\ x < (x \div y) * y + y
  BY DivBounds
<1>2. (x \div y) * y \in Nat
  BY <1>1
<1> QED
  BY <1>1, <1>2 DEF roundDown

LEMMA MultipleMod ==
    ASSUME NEW n \in Nat, NEW y \in Nat \ {0}
    PROVE  (n * y) % y = 0
  OBVIOUS

-----------------------------------------------------------------------------
(* The device and the type.                                                *)
LEMMA DeviceFacts ==
    ASSUME Supported, Target
    PROVE  /\ device.maxWorkGroupSize \in Nat \ {0}
           /\ device.localMem \in Nat /\ 16 * 1024 <= device.localMem
           /\ device.computeUnits \in Nat \ {0}
           /\ slice \in {16, 32, 64}
           /\ size.key \in 1 .. 128 /\ size.value \in 0 .. 128
           /\ algorithm = "radixsort" => size.key <= 8
<1>1. /\ device.maxWorkGroupSize \in Nat \ {0} /\ device.localMem \in Nat
      /\ device.warpSize \in {1, 2, 4, 8, 16, 32, 64} /\ device.computeUnits \in Nat \ {0}
  BY SMT DEF Supported, Target
<1>2. 16 * 1024 <= device.localMem
  BY SMT DEF Supported, Target
<1>3. size \in [key : 1 .. 128, value : 0 .. 128]
  BY SMT DEF Supported, Target
<1>4. algorithm = "radixsort" => size.key <= 8
  BY SMT DEF Supported, Target
<1>5. slice \in {16, 32, 64}
  BY <1>1, SMT DEF slice, radix, MaxOf
<1> QED
  BY <1>1, <1>2, <1>3, <1>4, <1>5, SMT

LEMMA ElementFacts ==
    ASSUME NEW l \in Nat, NEW k \in 1 .. 128, 16 * 1024 <= l
    PROVE  l \div k \in Nat /\ l \div k >= 128 /\ (l \div k) * k <= l
<1>1. l \div k \in Nat /\ (l \div k) * k <= l /\ l < (l \div k) * k + k
  BY DivBounds, SMT
<1>2. PICK d \in Nat : d = l \div k
  BY <1>1
<1>3. d >= 128
  <2> SUFFICES ASSUME d <= 127 PROVE FALSE
    BY <1>2, SMT
  <2>1. d * k <= 127 * 128
    BY SMT
  <2> QED
    BY <1>1, <1>2, <2>1, SMT
<1> QED
  BY <1>1, <1>2, <1>3, SMT

-----------------------------------------------------------------------------
(* The stages of Reduce::tune.                                             *)
LEMMA ReduceStage ==
    ASSUME Supported, Target, stage \in Nat, stage > 0 => ReduceCand
    PROVE  /\ ReduceSets \subseteq ReduceParameters
           /\ \E p \in ReduceSets : ReduceBuilds(p)
<1> PICK W \in Nat \ {0} : W = device.maxWorkGroupSize
  BY DeviceFacts
<1> PICK L \in Nat : L = device.localMem /\ 16 * 1024 <= L
  BY DeviceFacts, SMT
<1> PICK U \in Nat \ {0} : U = device.computeUnits
  BY DeviceFacts
<1> PICK k \in 1 .. 128 : k = size.key
  BY DeviceFacts
<1> PICK e \in Nat : e = L \div k /\ e >= 128 /\ e * k <= L
  BY ElementFacts, SMT
<1>1. CASE stage = 0
  <2> PICK m \in Nat \ {0} : m = MinOf(W, e)
    BY SMT DEF MinOf
  <2>1. /\ \A w \in Doubling(1, m) : w \in 1 .. m
        /\ 1 \in Doubling(1, m)
    BY DoublingFacts, SMT
  <2>2. ReduceSets = {[reduceWorkGroupSize |-> w, reduceBlocks |-> 16 * U] :
                                w \in Doubling(1, m)}
    BY <1>1 DEF ReduceSets, maxWorkGroupSize, localMemElements
  <2>3. ReduceSets \subseteq ReduceParameters
    BY <2>1, <2>2, SMT DEF ReduceParameters
  <2>4. [reduceWorkGroupSize |-> 1, reduceBlocks |-> 16 * U] \in ReduceSets
    BY <2>1, <2>2
  <2>5. ReduceBuilds([reduceWorkGroupSize |-> 1, reduceBlocks |-> 16 * U])
    BY SMT DEF ReduceBuilds, maxWorkGroupSize
  <2> QED
    BY <2>3, <2>4, <2>5
<1>2. CASE stage # 0
  <2>1. ReduceCand
    BY <1>2, SMT
  <2>2. ReduceSets = {[cand EXCEPT !.reduceBlocks = 4 * n * U] : n \in 1 .. 16}
    BY <1>2 DEF ReduceSets
  <2>3. ReduceSets \subseteq ReduceParameters
    BY <2>1, <2>2, SMT DEF ReduceCand, ReduceParameters
  <2>4. [cand EXCEPT !.reduceBlocks = 4 * 1 * U] \in ReduceSets
    BY <2>2, SMT
  <2>5. ReduceBuilds([cand EXCEPT !.reduceBlocks = 4 * 1 * U])
    BY <2>1, SMT DEF ReduceCand, ReduceParameters, ReduceBuilds
  <2> QED
    BY <2>3, <2>4, <2>5
<1> QED
  BY <1>1, <1>2

-----------------------------------------------------------------------------
(* The stages of Scan::tune.                                               *)
LEMMA ScanBlocksFacts ==
    ASSUME Supported, Target
    PROVE  /\ localMemElements \in Nat /\ localMemElements >= 128
           /\ scanMaxBlocks \in Nat /\ scanMaxBlocks >= 2
           /\ scanMaxBlocks <= 2 * device.maxWorkGroupSize
           /\ scanMaxBlocks <= localMemElements
           /\ scanStartBlocks \in Nat /\ scanStartBlocks >= 2
           /\ scanStartBlocks <= scanMaxBlocks
           /\ scanStartBlocks % 2 = 0
<1> PICK W \in Nat \ {0} : W = device.maxWorkGroupSize
  BY DeviceFacts
<1> PICK L \in Nat : L = device.localMem /\ 16 * 1024 <= L
  BY DeviceFacts, SMT
<1> PICK k \in 1 .. 128 : k = size.key
  BY DeviceFacts
<1> PICK e \in Nat : e = L \div k /\ e >= 128
  BY ElementFacts, SMT
<1>1. localMemElements = e
  BY DEF localMemElements
<1> PICK m \in Nat : m = MinOf(2 * W, e) /\ m >= 2 /\ m <= 2 * W /\ m <= e
  BY SMT DEF MinOf
<1> PICK b \in Nat : b = m - (m % 2) /\ b >= 2 /\ b <= m
  BY SMT
<1>2. scanMaxBlocks = b
  BY <1>1 DEF scanMaxBlocks, Even, maxWorkGroupSize
<1> PICK h \in Nat : h = MaxOf(2, b \div 2) /\ h >= 2 /\ h <= b
  BY SMT DEF MaxOf
<1>3. h - (h % 2) \in Nat /\ h - (h % 2) >= 2 /\ h - (h % 2) <= b /\ (h - (h % 2)) % 2 = 0
  BY SMT
<1>4. scanStartBlocks = h - (h % 2)
  BY <1>2 DEF scanStartBlocks, Even
<1> QED
  BY <1>1, <1>2, <1>3, <1>4, SMT

LEMMA ScanUpdates ==
    ASSUME NEW c \in ScanParameters, NEW x \in Nat \ {0}, NEW y \in Nat \ {0}
    PROVE  /\ [c EXCEPT !.scanWorkGroupSize = x, !.scanWorkScale = y] \in ScanParameters
           /\ [c EXCEPT !.scanBlocks = x] \in ScanParameters
<1>1. [c EXCEPT !.scanWorkGroupSize = x] \in ScanParameters
  BY SMT DEF ScanParameters
<1>2. \A d \in ScanParameters : [d EXCEPT !.scanWorkScale = y] \in ScanParameters
  BY SMT DEF ScanParameters
<1>3. [c EXCEPT !.scanWorkGroupSize = x, !.scanWorkScale = y]
        = [[c EXCEPT !.scanWorkGroupSize = x] EXCEPT !.scanWorkScale = y]
  OBVIOUS
<1>4. [c EXCEPT !.scanBlocks = x] \in ScanParameters
  BY SMT DEF ScanParameters
<1> QED
  BY <1>1, <1>2, <1>3, <1>4

LEMMA ScanStage ==
    ASSUME Supported, Target, stage \in 0 .. 2, stage > 0 => ScanCand
    PROVE  /\ ScanSets \subseteq ScanParameters
           /\ \E p \in ScanSets : ScanBuilds(p)
<1> PICK W \in Nat \ {0} : W = device.maxWorkGroupSize
  BY DeviceFacts
<1> PICK e \in Nat : e = localMemElements /\ e >= 128
  BY ScanBlocksFacts, SMT
<1> PICK b \in Nat : b = scanMaxBlocks /\ b >= 2 /\ b <= 2 * W /\ b <= e
  BY ScanBlocksFacts, SMT
<1> PICK t \in Nat : t = scanStartBlocks /\ t >= 2 /\ t <= b /\ t % 2 = 0
  BY ScanBlocksFacts, SMT
<1>1. /\ \A w \in Doubling(1, W) : w \in 1 .. W
      /\ 1 \in Doubling(1, W)
  BY DoublingFacts, SMT
<1>2. CASE stage = 0
  <2>1. ScanSets = {[reduceWorkGroupSize |-> w, scanWorkGroupSize |-> 1, scanWorkScale |-> 1,
                            scanBlocks |-> t] : w \in Doubling(1, W)}
    BY <1>2 DEF ScanSets, maxWorkGroupSize
  <2>2. ScanSets \subseteq ScanParameters
    BY <1>1, <2>1, SMT DEF ScanParameters
  <2> PICK p \in ScanParameters : p = [reduceWorkGroupSize |-> 1, scanWorkGroupSize |-> 1,
                                       scanWorkScale |-> 1, scanBlocks |-> t]
    <3>1. [reduceWorkGroupSize |-> 1, scanWorkGroupSize |-> 1,
           scanWorkScale |-> 1, scanBlocks |-> t] \in ScanParameters
      BY SMT DEF ScanParameters
    <3> QED
      BY <3>1
  <2>3. p \in ScanSets
    BY <1>1, <2>1
  <2>4. /\ p.reduceWorkGroupSize = 1 /\ p.scanWorkGroupSize = 1 /\ p.scanWorkScale = 1
        /\ p.scanBlocks = t
    BY SMT
  <2>5. ScanBuilds(p)
    BY <2>4, SMT DEF ScanBuilds, maxWorkGroupSize, MaxOf
  <2> QED
    BY <2>2, <2>3, <2>5
<1>3. CASE stage = 1
  <2>0. ScanCand
    BY <1>3, SMT
  <2> DEFINE ForSize(w) == {[cand EXCEPT !.scanWorkGroupSize = w, !.scanWorkScale = s] :
                               s \in Doubling(1, MinOf(e \div w, 16))}
  <2>1. ScanSets = UNION {ForSize(w) : w \in Doubling(1, W)}
    BY <1>3 DEF ScanSets, maxWorkGroupSize
  <2>2. ScanSets \subseteq ScanParameters
    <3> HIDE DEF ForSize
    <3> SUFFICES ASSUME NEW w \in Doubling(1, W)
                 PROVE  ForSize(w) \subseteq ScanParameters
      BY <2>1, Zenon
    <3> USE DEF ForSize
    <3> SUFFICES ASSUME NEW s \in Doubling(1, MinOf(e \div w, 16))
                 PROVE  [cand EXCEPT !.scanWorkGroupSize = w, !.scanWorkScale = s] \in ScanParameters
      OBVIOUS
    <3>1. w \in Nat \ {0}
      BY <1>1, SMT
    <3>2. MinOf(e \div w, 16) \in Int
      BY <3>1, SMT DEF MinOf
    <3>3. s \in Nat \ {0}
      BY <3>2, DoublingFacts, SMT
    <3> QED
      BY <2>0, <3>1, <3>3, ScanUpdates DEF ScanCand
  <2> PICK p \in ScanParameters :
         p = [cand EXCEPT !.scanWorkGroupSize = 1, !.scanWorkScale = 1]
    <3>1. 1 \in Nat \ {0}
      BY SMT
    <3> QED
      BY <2>0, <3>1, ScanUpdates DEF ScanCand
  <2>3. p \in ScanSets
    <3>1. MinOf(e \div 1, 16) = 16
      BY SMT DEF MinOf
    <3>2. 1 \in Doubling(1, 16)
      BY SMT DEF Doubling, Powers
    <3>3. p \in ForSize(1)
      BY <3>1, <3>2
    <3> HIDE DEF ForSize
    <3> QED
      BY <1>1, <2>1, <3>3, Zenon
  <2>4. /\ p.reduceWorkGroupSize = cand.reduceWorkGroupSize /\ p.scanWorkGroupSize = 1
        /\ p.scanWorkScale = 1 /\ p.scanBlocks = cand.scanBlocks
    BY <2>0, SMT DEF ScanCand, ScanParameters
  <2>5. ScanBuilds(p)
    BY <2>0, <2>4, SMT DEF ScanCand, ScanBuilds, maxWorkGroupSize, MaxOf
  <2> QED
    BY <2>2, <2>3, <2>5
<1>4. CASE stage = 2
  <2>0. ScanCand
    BY <1>4, SMT
  <2>1. ScanSets = {[cand EXCEPT !.scanBlocks = n] : n \in Doubling(2, b)}
    BY <1>4 DEF ScanSets
  <2>2. /\ \A n \in Doubling(2, b) : n \in 1 .. b
        /\ 2 \in Doubling(2, b)
    BY DoublingFacts, SMT
  <2>3. ScanSets \subseteq ScanParameters
    BY <2>0, <2>1, <2>2, SMT DEF ScanCand, ScanParameters
  <2> PICK p \in ScanParameters : p = [cand EXCEPT !.scanBlocks = 2]
    <3>1. 2 \in Nat \ {0}
      BY SMT
    <3> QED
      BY <2>0, <3>1, ScanUpdates DEF ScanCand
  <2>4. p \in ScanSets
    BY <2>1, <2>2
  <2>5. /\ p.reduceWorkGroupSize = cand.reduceWorkGroupSize
        /\ p.scanWorkGroupSize = cand.scanWorkGroupSize
        /\ p.scanWorkScale = cand.scanWorkScale /\ p.scanBlocks = 2
    BY <2>0, SMT DEF ScanCand, ScanParameters
  <2>6. ScanBuilds(p)
    BY <2>0, <2>5, SMT DEF ScanCand, ScanBuilds, maxWorkGroupSize, MaxOf
  <2> QED
    BY <2>3, <2>4, <2>6
<1> QED
  BY <1>2, <1>3, <1>4, SMT

-----------------------------------------------------------------------------
(* The stages of Radixsort::tune.                                          *)
LEMMA RadixsortBlocksFacts ==
    ASSUME NEW L \in Nat, 16 * 1024 <= L, L = device.localMem
    PROVE  /\ maxBlocks \in Nat /\ maxBlocks >= 248
           /\ 64 * maxBlocks + 512 <= L /\ L < 64 * maxBlocks + 576
           /\ startBlocks \in Nat /\ startBlocks >= 120
           /\ startBlocks <= maxBlocks
           /\ \E n \in Nat : startBlocks = n * 4
<1> PICK m \in Nat : m = ((L \div 4) - 128) \div 16 /\ m >= 248 /\ 64 * m + 512 <= L /\ L < 64 * m + 576
  BY SMT
<1>1. radix = 16 /\ scanWorkGroupSize = 64 /\ 2 * scanWorkGroupSize = 128
      /\ scanWorkGroupSize \div radix = 4
  BY SMT DEF radix, scanWorkGroupSize
<1>2. maxBlocks = m
  BY <1>1 DEF maxBlocks
<1> PICK h \in Nat : h = m \div 2 /\ h >= 124 /\ h <= m
  BY SMT
<1>3. startBlocks = roundDown(h, 4)
  BY <1>1, <1>2 DEF startBlocks
<1>4. 4 \in Nat \ {0}
  BY SMT
<1>5. /\ roundDown(h, 4) \in Nat /\ roundDown(h, 4) <= h
      /\ h < roundDown(h, 4) + 4 /\ \E n \in Nat : roundDown(h, 4) = n * 4
  BY <1>4, RoundDownFacts
<1> QED
  BY <1>2, <1>3, <1>5, SMT

LEMMA SliceFacts ==
    ASSUME NEW s \in {16, 32, 64}, NEW q \in Powers
    PROVE  /\ s * q \in Nat \ {0} /\ (s * q) \div s = q /\ (s * q) % s = 0
           /\ \E t \in {1, 2, 4} : s = 16 * t /\ (s * q) \div 16 = t * q
<1>1. q \in Nat \ {0}
  BY PowerFacts
<1>2. CASE s = 16
  BY <1>1, <1>2, SMT
<1>3. CASE s = 32
  BY <1>1, <1>3, SMT
<1>4. CASE s = 64
  BY <1>1, <1>4, SMT
<1> QED
  BY <1>2, <1>3, <1>4

LEMMA MaxPower ==
    ASSUME NEW q \in Powers
    PROVE  /\ MaxOf(4, q) \in Nat \ {0} /\ MaxOf(4, q) >= q /\ MaxOf(4, q) >= 4
           /\ q >= 4 => MaxOf(4, q) = q
           /\ \E n \in Nat : MaxOf(4, q) = n * 4
           /\ \E n \in Nat : MaxOf(4, q) = n * q
  BY SMTT(30) DEF MaxOf, Powers

LEMMA BlockCountsFacts ==
    ASSUME NEW L \in Nat, 16 * 1024 <= L, L = device.localMem, slice \in {16, 32, 64},
           device.computeUnits \in Nat \ {0},
           NEW q \in Powers, cand.scatterWorkGroupSize = slice * q
    PROVE  /\ \A b \in BlockCounts : b \in Nat /\ \E n \in Nat : b = n * q
           /\ q * (21 * slice + 64) <= L =>
                 /\ MaxOf(4, q) \in BlockCounts
                 /\ MaxOf(4, q) <= maxBlocks
<1>0. q \in Nat \ {0}
  BY PowerFacts
<1> PICK m \in Nat : m = maxBlocks /\ m >= 248 /\ L < 64 * m + 576
  BY RadixsortBlocksFacts, SMT
<1> PICK s \in {16, 32, 64} : s = slice
  OBVIOUS
<1> PICK t \in {1, 2, 4} : s = 16 * t /\ (s * q) \div 16 = t * q
  BY SliceFacts
<1>1. (s * q) \div s = q
  BY SliceFacts
<1>2. slicesPerWorkGroup(cand) = q
  BY <1>1 DEF slicesPerWorkGroup
<1> PICK r \in Nat : r = roundDown(m, q) /\ r <= m /\ m < r + q
  BY <1>0, RoundDownFacts, ZenonT(30)
<1>3. t * q \in Nat \ {0}
  BY <1>0, SMT
<1> PICK y \in Nat \ {0} : y = t * q
  BY <1>3
<1> PICK limit \in Nat : limit = roundDown(r, y) /\ limit <= r /\ r < limit + y
  BY RoundDownFacts, ZenonT(30)
<1> PICK a \in Nat \ {0} : a = MaxOf(4, q) /\ a >= q /\ a >= 4 /\ (q >= 4 => a = q)
  BY MaxPower, SMT
<1> DEFINE Units == {b \in {roundDown(n, q) : n \in Doubling(device.computeUnits, limit)} :
                        b >= 4}
<1>4. BlockCounts = Doubling(a, limit) \cup Units \cup {limit}
  <2>1. scanWorkGroupSize \div radix = 4 /\ radix = 16
    BY SMT DEF scanWorkGroupSize, radix
  <2>2. cand.scatterWorkGroupSize \div radix = t * q
    BY <2>1
  <2> QED
    BY <1>2, <2>1, <2>2 DEF BlockCounts
<1>5. \A b \in Doubling(a, limit) : b \in Nat /\ \E n \in Nat : b = n * q
  <2> SUFFICES ASSUME NEW b \in Doubling(a, limit)
               PROVE  b \in Nat /\ \E n \in Nat : b = n * q
    OBVIOUS
  <2>1. limit \in Int
    OBVIOUS
  <2>4. \A x \in Doubling(a, limit) :
           x \in 1 .. limit /\ \E p \in Powers : x = a * p
    BY <2>1, DoublingFacts
  <2> PICK x \in Powers : b = a * x
    BY <2>4
  <2> PICK n \in Nat : a = n * q
    BY MaxPower
  <2>2. x \in Nat
    BY PowerFacts
  <2>3. b = (n * x) * q /\ n * x \in Nat /\ b \in Nat
    BY <1>0, <2>2, SMT
  <2> QED
    BY <2>3
<1>6. \A b \in Units : b \in Nat /\ \E n \in Nat : b = n * q
  <2> SUFFICES ASSUME NEW u \in Doubling(device.computeUnits, limit)
               PROVE  /\ roundDown(u, q) \in Nat
                      /\ \E n \in Nat : roundDown(u, q) = n * q
    OBVIOUS
  <2>1. limit \in Int
    OBVIOUS
  <2>2. u \in 1 .. limit
    BY <2>1, DoublingFacts, ZenonT(30)
  <2>3. u \in Nat
    BY <2>2, SMT
  <2>4. roundDown(u, q) \in Nat
    BY <1>0, <2>3, RoundDownFacts
  <2>5. \E n \in Nat : roundDown(u, q) = n * q
    BY <1>0, <2>3, RoundDownFacts, ZenonT(30)
  <2> QED
    BY <2>4, <2>5
<1>7. \E n \in Nat : limit = n * q
  <2> PICK n \in Nat : roundDown(r, y) = n * y
    BY RoundDownFacts, ZenonT(30)
  <2>1. limit = (n * t) * q /\ n * t \in Nat
    BY <1>0, SMT
  <2> QED
    BY <2>1
<1>8. ASSUME q * (21 * s + 64) <= L
      PROVE  a <= limit
  <2>1. limit > m - q - t * q
    BY <1>0, <1>3, SMT
  <2>2. q * (21 * s + 64) <= 64 * m + 575
    BY <1>0, <1>8, SMT
  <2>3. limit > 0
    <3>1. CASE t = 1
      BY <1>0, <2>1, <2>2, <3>1, SMT
    <3>2. CASE t = 2
      BY <1>0, <2>1, <2>2, <3>2, SMT
    <3>3. CASE t = 4
      BY <1>0, <2>1, <2>2, <3>3, SMT
    <3> QED
      BY <3>1, <3>2, <3>3
  <2>4. limit >= q
    BY <1>0, <1>7, <2>3, SMT
  <2>5. CASE q >= 4
    BY <2>4, <2>5, SMT
  <2>6. CASE q < 4
    <3>1. q \in {1, 2, 4}
      BY <2>6, PowerFacts, SMT
    <3> QED
      BY <2>1, <2>6, <3>1, MaxPower, SMT DEF MaxOf
  <2> QED
    BY <2>5, <2>6, <1>0, SMT
<1>9. ASSUME a <= limit
      PROVE  a \in Doubling(a, limit) /\ a <= m
  BY <1>9, DoublingFacts, SMT
<1> HIDE DEF Units
<1> QED
  BY <1>4, <1>5, <1>6, <1>7, <1>8, <1>9

LEMMA RoundUpBounds ==
    ASSUME NEW x \in Nat, NEW y \in Nat \ {0}
    PROVE  roundUp(x, y) \in Nat /\ x <= roundUp(x, y) /\ roundUp(x, y) < x + y
<1>1. PICK k \in Nat : roundUp(x, y) = k * y /\ x <= k * y /\ k * y < x + y
  BY RoundUpMultiple
<1>2. k * y \in Nat
  OBVIOUS
<1> QED
  BY <1>1, <1>2

\* The parts of ScatterData; what aligns them takes less than 3 * 128 bytes.
ScatterParts(p) ==
    LET tile == slice * p.scatterWorkScale
    IN  MaxOf(slice * 16 + 2 * slice, tile * size.value) + 4 * 16 + (2 + size.key) * tile

LEMMA ScatterDataBounds ==
    ASSUME NEW p, slice \in Nat, slice * p.scatterWorkScale \in Nat,
           size.key \in 1 .. 128, size.value \in 0 .. 128
    PROVE  /\ ScatterParts(p) \in Nat /\ ScatterData(p) \in Nat
           /\ ScatterParts(p) <= ScatterData(p) /\ ScatterData(p) < ScatterParts(p) + 384
<1> PICK w \in Nat : w = slice
  OBVIOUS
<1> PICK t \in Nat : t = slice * p.scatterWorkScale
  OBVIOUS
<1> PICK k \in 1 .. 128 : k = size.key
  OBVIOUS
<1> PICK v \in 0 .. 128 : v = size.value
  OBVIOUS
<1>1. PICK h \in Nat : h = MaxOf(w * 16 + 2 * w, t * v)
  <2>1. t * v \in Nat
    OBVIOUS
  <2> QED
    BY <2>1, SMT DEF MaxOf
<1>2. PICK a \in 1 .. 128 : a = MaxOf(4, v)
  BY SMT DEF MaxOf
<1>3. PICK b \in 1 .. 128 : b = MaxOf(4, MaxOf(k, v))
  BY SMT DEF MaxOf
<1>0. a \in Nat \ {0} /\ b \in Nat \ {0} /\ k \in Nat \ {0}
  OBVIOUS
<1>4. PICK x \in Nat : x = roundUp(h, a) /\ h <= x /\ x < h + a
  <2>1. roundUp(h, a) \in Nat /\ h <= roundUp(h, a) /\ roundUp(h, a) < h + a
    BY <1>0, RoundUpBounds
  <2> QED
    BY <2>1
<1>5. PICK y \in Nat : y = roundUp(x + 4 * 16 + 2 * t, k)
                       /\ x + 64 + 2 * t <= y /\ y < x + 64 + 2 * t + k
  <2>1. PICK q \in Nat : q = x + 4 * 16 + 2 * t /\ q = x + 64 + 2 * t
    OBVIOUS
  <2>2. roundUp(q, k) \in Nat /\ q <= roundUp(q, k) /\ roundUp(q, k) < q + k
    BY <1>0, RoundUpBounds
  <2> QED
    BY <2>1, <2>2
<1>6. PICK m \in Nat : m = k * t
  OBVIOUS
<1>7. PICK z \in Nat : z = roundUp(y + k * t, b) /\ y + m <= z /\ z < y + m + b
  <2>1. PICK q \in Nat : q = y + k * t /\ q = y + m
    BY <1>6
  <2>2. roundUp(q, b) \in Nat /\ q <= roundUp(q, b) /\ roundUp(q, b) < q + b
    BY <1>0, RoundUpBounds
  <2> QED
    BY <2>1, <2>2
<1>8. ScatterData(p) = z
  BY <1>1, <1>2, <1>3, <1>4, <1>5, <1>7 DEF ScatterData, radix
<1>9. (2 + k) * t = 2 * t + m
  BY <1>6
<1>10. h + 64 + (2 * t + m) <= z /\ z < h + 64 + (2 * t + m) + 384
  BY <1>2, <1>3, <1>4, <1>5, <1>6, <1>7, SMT
<1>11. ScatterParts(p) = h + 64 + (2 + k) * t
  <2>1. ScatterParts(p) = MaxOf(w * 16 + 2 * w, t * v) + 4 * 16 + (2 + k) * t
    BY DEF ScatterParts
  <2>2. 4 * 16 = 64
    OBVIOUS
  <2> QED
    BY <1>1, <2>1, <2>2
<1> QED
  BY <1>6, <1>8, <1>9, <1>10, <1>11

\* The memory and the limits of a candidate whose work-group is one slice.
LEMMA SliceBuilds ==
    ASSUME Supported, Target, algorithm = "radixsort", device.maxWorkGroupSize >= 64,
           NEW w \in {16, 32, 64}, w = slice,
           NEW p \in [reduceWorkGroupSize : Nat, scanBlocks : Nat,
                      scatterWorkGroupSize : Nat, scatterWorkScale : Nat \ {0}],
           p.scatterWorkGroupSize = w, p.scatterWorkScale = 1, p.scanBlocks = startBlocks,
           p.reduceWorkGroupSize \in Powers, p.reduceWorkGroupSize >= 16,
           p.reduceWorkGroupSize <= device.maxWorkGroupSize,
           64 * p.reduceWorkGroupSize <= device.localMem
    PROVE  RadixsortBuilds(p)
<1> PICK L \in Nat : L = device.localMem /\ 16 * 1024 <= L
  BY DeviceFacts, SMT
<1> PICK k \in 1 .. 8 : k = size.key
  BY DeviceFacts, SMT
<1> PICK v \in 0 .. 128 : v = size.value
  BY DeviceFacts, SMT
<1> PICK r \in Nat : /\ r = p.reduceWorkGroupSize /\ r \in Powers /\ r >= 16
                     /\ r <= device.maxWorkGroupSize /\ 64 * r <= L
  BY SMT
<1> PICK b \in Nat : b = p.scanBlocks /\ b >= 120 /\ 64 * b + 512 <= L /\ b % 4 = 0
  BY RadixsortBlocksFacts, SMT
<1>1. radix = 16 /\ scanWorkGroupSize = 64
  BY SMT DEF radix, scanWorkGroupSize
<1>2. (b * 16) % 64 = 0
  BY SMT
<1>3. w % w = 0 /\ w \div w = 1 /\ w * 1 < 256 /\ w \in Powers
  BY SMT DEF Powers
<1>4. slicesPerWorkGroup(p) = 1
  BY <1>3 DEF slicesPerWorkGroup
<1>5. 1 * ScatterData(p) <= L
  <2>1. w * 1 = w
    BY SMT
  <2>2. ScatterParts(p) = MaxOf(w * 16 + 2 * w, w * v) + 4 * 16 + (2 + k) * w
    BY <2>1 DEF ScatterParts
  <2>5. ScatterData(p) \in Nat /\ ScatterData(p) < ScatterParts(p) + 384
    <3>1. /\ slice \in Nat /\ slice * p.scatterWorkScale \in Nat
          /\ size.key \in 1 .. 128 /\ size.value \in 0 .. 128
      BY <2>1, SMT
    <3> QED
      BY <3>1, ScatterDataBounds
  <2>3. MaxOf(w * 16 + 2 * w, w * v) \in Nat /\ MaxOf(w * 16 + 2 * w, w * v) <= 128 * 64
    BY SMT DEF MaxOf
  <2>4. (2 + k) * w <= 640 /\ (2 + k) * w \in Nat
    BY SMT
  <2> QED
    BY <2>2, <2>3, <2>4, <2>5, SMT
<1>6. 4 * 16 * r <= L /\ 4 * (b * 16 + 2 * 64) <= L
  BY SMT
<1>7. IsPower2(p.reduceWorkGroupSize) /\ IsPower2(p.scatterWorkGroupSize)
  BY <1>3 DEF IsPower2
<1>8. p.scanBlocks > 0 /\ p.reduceWorkGroupSize >= 16 /\ r <= device.maxWorkGroupSize
      /\ w <= device.maxWorkGroupSize /\ 64 <= device.maxWorkGroupSize
  BY DeviceFacts, SMT
<1>9. (p.scanBlocks * radix) % scanWorkGroupSize = 0
  BY <1>1, <1>2
<1>10. \A n \in {p.reduceWorkGroupSize, scanWorkGroupSize, p.scatterWorkGroupSize} :
          n <= maxWorkGroupSize
  BY <1>1, <1>8 DEF maxWorkGroupSize
<1>11. \A n \in {4 * radix * p.reduceWorkGroupSize,
                  4 * (p.scanBlocks * radix + 2 * scanWorkGroupSize),
                  slicesPerWorkGroup(p) * ScatterData(p)} : n <= device.localMem
  BY <1>1, <1>4, <1>5, <1>6
<1>12. slice * p.scatterWorkScale < 256 /\ p.scatterWorkGroupSize % slice = 0
  BY <1>3
<1> QED
  BY <1>1, <1>7, <1>8, <1>9, <1>10, <1>11, <1>12 DEF RadixsortBuilds

\* RadixsortBuilds(c) leaves room for the blocks that BlockCounts starts from.
LEMMA BuildsLeavesRoom ==
    ASSUME Supported, Target, NEW q \in Powers,
           NEW c \in [reduceWorkGroupSize : Nat, scanBlocks : Nat,
                      scatterWorkGroupSize : Nat, scatterWorkScale : Nat \ {0}],
           c.scatterWorkGroupSize = slice * q, RadixsortBuilds(c)
    PROVE  q * (21 * slice + 64) <= device.localMem
<1> PICK L \in Nat : L = device.localMem /\ 16 * 1024 <= L
  BY DeviceFacts, SMT
<1> PICK w \in {16, 32, 64} : w = slice
  BY DeviceFacts
<1> PICK k \in 1 .. 128 : k = size.key
  BY DeviceFacts
<1> PICK v \in 0 .. 128 : v = size.value
  BY DeviceFacts
<1> PICK s \in Nat \ {0} : s = c.scatterWorkScale
  BY SMT
<1>0. q \in Nat \ {0}
  BY PowerFacts
<1>1. slicesPerWorkGroup(c) = q
  BY SliceFacts DEF slicesPerWorkGroup
<1>2. q * ScatterData(c) <= L
  BY <1>1 DEF RadixsortBuilds
<1>3. ScatterData(c) \in Nat /\ ScatterData(c) >= 21 * w + 64
  <2>1. PICK t \in Nat : t = w * s /\ t >= w
    BY SMT
  <2>2. ScatterParts(c) = MaxOf(w * 16 + 2 * w, t * v) + 4 * 16 + (2 + k) * t
    BY <2>1 DEF ScatterParts
  <2>6. ScatterData(c) \in Nat /\ ScatterParts(c) <= ScatterData(c)
    <3>1. /\ slice \in Nat /\ slice * c.scatterWorkScale \in Nat
          /\ size.key \in 1 .. 128 /\ size.value \in 0 .. 128
      BY <2>1
    <3> QED
      BY <3>1, ScatterDataBounds
  <2>3. t * v \in Nat /\ (2 + k) * t \in Nat
    <3>1. \A x \in Nat, y \in Nat : x * y \in Nat
      BY SMT
    <3>2. v \in Nat /\ 2 + k \in Nat
      BY SMT
    <3> QED
      BY <3>1, <3>2
  <2>4. MaxOf(w * 16 + 2 * w, t * v) \in Nat /\ MaxOf(w * 16 + 2 * w, t * v) >= 18 * w
    BY <2>3, SMT DEF MaxOf
  <2>5. (2 + k) * t >= 3 * t
    BY SMT
  <2> QED
    BY <2>1, <2>2, <2>3, <2>4, <2>5, <2>6, SMT
<1>4. PICK d \in Nat : d = ScatterData(c) /\ d >= 21 * w + 64
  BY <1>3
<1>5. q * (21 * w + 64) <= q * d
  BY <1>0, <1>4, SMT
<1>6. q * (21 * w + 64) \in Nat /\ q * d \in Nat
  BY <1>0, SMT
<1> QED
  BY <1>2, <1>4, <1>5, <1>6, SMT

RadixsortFields ==
    [reduceWorkGroupSize : Nat, scanBlocks : Nat,
     scatterWorkGroupSize : Nat, scatterWorkScale : Nat \ {0}]

LEMMA RadixsortUpdate ==
    ASSUME NEW c \in RadixsortFields, NEW b \in Nat
    PROVE  /\ [c EXCEPT !.scanBlocks = b] \in RadixsortFields
           /\ [c EXCEPT !.scanBlocks = b].reduceWorkGroupSize = c.reduceWorkGroupSize
           /\ [c EXCEPT !.scanBlocks = b].scatterWorkGroupSize = c.scatterWorkGroupSize
           /\ [c EXCEPT !.scanBlocks = b].scatterWorkScale = c.scatterWorkScale
           /\ [c EXCEPT !.scanBlocks = b].scanBlocks = b
  BY SMT DEF RadixsortFields

LEMMA RadixsortUpdates ==
    ASSUME NEW c \in RadixsortFields, NEW b \in Nat, NEW w \in Nat, NEW s \in Nat \ {0}
    PROVE  \E d \in RadixsortFields :
              /\ d = [c EXCEPT !.scanBlocks = b, !.scatterWorkGroupSize = w, !.scatterWorkScale = s]
              /\ d.reduceWorkGroupSize = c.reduceWorkGroupSize /\ d.scanBlocks = b
              /\ d.scatterWorkGroupSize = w /\ d.scatterWorkScale = s
<1>0. PICK d : d = [c EXCEPT !.scanBlocks = b, !.scatterWorkGroupSize = w, !.scatterWorkScale = s]
  OBVIOUS
<1>1. PICK e : e = [c EXCEPT !.scanBlocks = b]
  OBVIOUS
<1>2. PICK f : f = [e EXCEPT !.scatterWorkGroupSize = w]
  OBVIOUS
<1>3. d = [f EXCEPT !.scatterWorkScale = s]
  BY <1>0, <1>1, <1>2
<1>4. e \in RadixsortFields /\ e.reduceWorkGroupSize = c.reduceWorkGroupSize /\ e.scanBlocks = b
  BY <1>1, RadixsortUpdate
<1>5. /\ f \in RadixsortFields /\ f.reduceWorkGroupSize = e.reduceWorkGroupSize
      /\ f.scanBlocks = e.scanBlocks /\ f.scatterWorkGroupSize = w
  BY <1>2, <1>4, SMT DEF RadixsortFields
<1>6. d \in RadixsortFields
  BY <1>3, <1>5, SMT DEF RadixsortFields
<1>7. /\ d.reduceWorkGroupSize = f.reduceWorkGroupSize
      /\ d.scanBlocks = f.scanBlocks /\ d.scatterWorkGroupSize = f.scatterWorkGroupSize
      /\ d.scatterWorkScale = s
  BY <1>3, <1>5 DEF RadixsortFields
<1> QED
  BY <1>0, <1>4, <1>5, <1>6, <1>7

\* What every candidate of Radixsort has.
Aligned(p) == \E q \in Powers, n \in Nat :
                 p.scatterWorkGroupSize = slice * q /\ p.scanBlocks = n * q

LEMMA AlignedBlocks ==
    ASSUME slice \in {16, 32, 64}, NEW p \in RadixsortFields, Aligned(p)
    PROVE  p \in RadixsortParameters /\ p.scanBlocks % slicesPerWorkGroup(p) = 0
<1> PICK q \in Powers, n \in Nat :
       p.scatterWorkGroupSize = slice * q /\ p.scanBlocks = n * q
  BY DEF Aligned
<1>1. slicesPerWorkGroup(p) = q
  BY SliceFacts DEF slicesPerWorkGroup
<1>2. (n * q) % q = 0
  BY PowerFacts, MultipleMod
<1> QED
  BY <1>1, <1>2 DEF RadixsortParameters, RadixsortFields

LEMMA RadixsortFirst ==
    ASSUME Supported, Target, algorithm = "radixsort", stage = 0
    PROVE  /\ RadixsortSets \subseteq RadixsortFields
           /\ \A p \in RadixsortSets : Aligned(p)
           /\ device.maxWorkGroupSize >= 64 =>
                 \E p \in RadixsortSets : RadixsortBuilds(p)
<1> PICK W \in Nat \ {0} : W = device.maxWorkGroupSize
  BY DeviceFacts
<1> PICK L \in Nat : L = device.localMem /\ 16 * 1024 <= L
  BY DeviceFacts, SMT
<1> PICK w \in {16, 32, 64} : w = slice
  BY DeviceFacts
<1> PICK b \in Nat : b = startBlocks
  BY RadixsortBlocksFacts
<1> DEFINE First(r) == [reduceWorkGroupSize |-> r, scanBlocks |-> b,
                        scatterWorkGroupSize |-> w, scatterWorkScale |-> 1]
<1>1. RadixsortSets = {First(r) : r \in Doubling(16, W)}
  BY DEF RadixsortSets, maxWorkGroupSize, radix
<1>2. 16 \in Nat \ {0} /\ W \in Int
  BY SMT
<1>3. \A r \in Doubling(16, W) : r \in Nat
  BY <1>2, DoublingFacts, SMT
<1>4. \A r \in Nat : First(r) \in RadixsortFields
  BY SMT DEF RadixsortFields
<1>5. \A r \in Nat : Aligned(First(r))
  <2> TAKE r \in Nat
  <2>1. 1 \in Powers /\ w = w * 1 /\ b = b * 1
    BY SMT DEF Powers
  <2>2. First(r).scatterWorkGroupSize = w /\ First(r).scanBlocks = b
    BY SMT
  <2> QED
    BY <2>1, <2>2, ZenonT(30) DEF Aligned
<1>6. ASSUME W >= 64
      PROVE  First(16) \in RadixsortSets /\ RadixsortBuilds(First(16))
  <2>1. 16 <= W
    BY <1>6, SMT
  <2>2. 16 \in Doubling(16, W)
    BY <1>2, <2>1, DoublingFacts
  <2>3. First(16) \in RadixsortSets
    BY <1>1, <2>2
  <2>4. First(16) \in RadixsortFields
    BY <1>4, SMT
  <2>5. /\ First(16).reduceWorkGroupSize = 16 /\ First(16).scanBlocks = b
        /\ First(16).scatterWorkGroupSize = w /\ First(16).scatterWorkScale = 1
    BY SMT
  <2>6. 16 \in Powers /\ 16 >= 16 /\ 64 * 16 <= L
    BY SMT DEF Powers
  <2> HIDE DEF First
  <2>7. RadixsortBuilds(First(16))
    BY <1>6, <2>1, <2>4, <2>5, <2>6, SliceBuilds DEF RadixsortFields
  <2> QED
    BY <2>3, <2>7
<1> HIDE DEF First
<1> QED
  BY <1>1, <1>3, <1>4, <1>5, <1>6

LEMMA ScatterBlocksFacts ==
    ASSUME NEW w \in {16, 32, 64}, w = slice, NEW b \in Nat, b = startBlocks,
           NEW q \in Powers, NEW x, x = w * q
    PROVE  /\ x \in Nat /\ ScatterBlocks(x) \in Nat
           /\ \E r \in Powers, n \in Nat : x = w * r /\ ScatterBlocks(x) = n * r
<1>1. q \in Nat \ {0}
  BY PowerFacts
<1>2. w * q \in Nat \ {0} /\ (w * q) \div w = q
  BY SliceFacts
<1>3. ScatterBlocks(x) = roundDown(b, q)
  BY <1>2 DEF ScatterBlocks
<1>4. roundDown(b, q) \in Nat
  BY <1>1, RoundDownFacts
<1>5. PICK n \in Nat : roundDown(b, q) = n * q
  BY <1>1, RoundDownFacts
<1> QED
  BY <1>2, <1>3, <1>4, <1>5

LEMMA RadixsortSecond ==
    ASSUME Supported, Target, algorithm = "radixsort", stage = 1, RadixsortCand
    PROVE  /\ RadixsortSets \subseteq RadixsortFields
           /\ \A p \in RadixsortSets : Aligned(p)
           /\ device.maxWorkGroupSize >= 64 =>
                 \E p \in RadixsortSets : RadixsortBuilds(p)
<1>0. cand \in RadixsortFields
  BY DEF RadixsortCand, RadixsortParameters, RadixsortFields
<1> DEFINE Replaced(t, x, s) ==
       \E d \in RadixsortFields :
          /\ d = [cand EXCEPT !.scanBlocks = t, !.scatterWorkGroupSize = x, !.scatterWorkScale = s]
          /\ d.reduceWorkGroupSize = cand.reduceWorkGroupSize /\ d.scanBlocks = t
          /\ d.scatterWorkGroupSize = x /\ d.scatterWorkScale = s
<1>9. \A t \in Nat, x \in Nat, s \in Nat \ {0} : Replaced(t, x, s)
  BY <1>0, RadixsortUpdates, Zenon
<1> HIDE DEF Replaced
<1> PICK W \in Nat \ {0} : W = device.maxWorkGroupSize
  BY DeviceFacts
<1> PICK w \in {16, 32, 64} : w = slice
  BY DeviceFacts
<1> PICK b \in Nat : b = startBlocks
  <2> PICK L \in Nat : L = device.localMem /\ 16 * 1024 <= L
    BY DeviceFacts, SMT
  <2> QED
    BY RadixsortBlocksFacts
<1> PICK c \in Nat : c = cand.reduceWorkGroupSize
  BY <1>0, SMT DEF RadixsortFields
<1> DEFINE Second(x, s) == [cand EXCEPT !.scanBlocks = ScatterBlocks(x),
                                        !.scatterWorkGroupSize = x, !.scatterWorkScale = s]
           WorkGroupSizes == Doubling(w, W)
           Scales == 1 .. 255 \div w
<1>1. \A x \in WorkGroupSizes : \E q \in Powers : x = w * q
  <2>1. w \in Nat \ {0} /\ W \in Int
    BY SMT
  <2> QED
    BY <2>1, DoublingFacts
<1>2. \A x \in WorkGroupSizes :
         /\ x \in Nat /\ ScatterBlocks(x) \in Nat
         /\ \E q \in Powers, n \in Nat : x = w * q /\ ScatterBlocks(x) = n * q
  <2> TAKE x \in WorkGroupSizes
  <2> PICK q \in Powers : x = w * q
    BY <1>1
  <2> QED
    BY ScatterBlocksFacts
<1>3. \A s \in Scales : s \in Nat \ {0}
  BY SMT
<1> HIDE DEF WorkGroupSizes, Scales
<1>4. ASSUME NEW x \in WorkGroupSizes, NEW s \in Scales
      PROVE  /\ Second(x, s) \in RadixsortFields
             /\ Second(x, s).reduceWorkGroupSize = c
             /\ Second(x, s).scanBlocks = ScatterBlocks(x)
             /\ Second(x, s).scatterWorkGroupSize = x /\ Second(x, s).scatterWorkScale = s
  <2>1. x \in Nat /\ ScatterBlocks(x) \in Nat /\ s \in Nat \ {0}
    BY <1>2, <1>3
  <2>2. PICK t \in Nat : t = ScatterBlocks(x)
    BY <2>1
  <2>3. PICK d \in RadixsortFields :
           /\ d = [cand EXCEPT !.scanBlocks = t, !.scatterWorkGroupSize = x, !.scatterWorkScale = s]
           /\ d.reduceWorkGroupSize = cand.reduceWorkGroupSize /\ d.scanBlocks = t
           /\ d.scatterWorkGroupSize = x /\ d.scatterWorkScale = s
    <3>1. Replaced(t, x, s)
      BY <1>9, <2>1
    <3> HIDE DEF Second
    <3> QED
      BY <3>1 DEF Replaced
  <2>4. d = Second(x, s)
    BY <2>2, <2>3, Zenon
  <2> HIDE DEF Second
  <2> QED
    BY <2>2, <2>3, <2>4, Zenon
<1>5. RadixsortSets = {Second(x, s) : x \in WorkGroupSizes, s \in Scales}
  BY DEF RadixsortSets, maxWorkGroupSize, WorkGroupSizes, Scales
<1> HIDE DEF Second
<1>6. ASSUME NEW x \in WorkGroupSizes, NEW s \in Scales
      PROVE  Aligned(Second(x, s))
  BY <1>2, <1>4 DEF Aligned
<1>7. ASSUME W >= 64
      PROVE  Second(w, 1) \in RadixsortSets /\ RadixsortBuilds(Second(w, 1))
  <2> PICK L \in Nat : L = device.localMem
    BY DeviceFacts
  <2>1. w \in WorkGroupSizes /\ 1 \in Scales
    <3>1. w \in Nat \ {0} /\ W \in Int /\ w <= W
      BY <1>7, SMT
    <3>2. w \in WorkGroupSizes
      BY <3>1, DoublingFacts DEF WorkGroupSizes
    <3>3. 1 \in Scales
      BY SMT DEF Scales
    <3> QED
      BY <3>2, <3>3
  <2>2. Second(w, 1) \in RadixsortSets /\ Second(w, 1) \in RadixsortFields
    BY <1>4, <1>5, <2>1
  <2>3. ScatterBlocks(w) = b
    <3>1. w \div w = 1 /\ (b \div 1) * 1 = b
      BY SMT
    <3> QED
      BY <3>1 DEF ScatterBlocks, roundDown
  <2>4. /\ Second(w, 1).reduceWorkGroupSize = c /\ Second(w, 1).scanBlocks = b
        /\ Second(w, 1).scatterWorkGroupSize = w /\ Second(w, 1).scatterWorkScale = 1
    BY <1>4, <2>1, <2>3
  <2>5. c \in Powers /\ c >= 16 /\ c <= W /\ 64 * c <= L
    <3>1. c \in Powers /\ c >= 16 /\ c <= W /\ 4 * radix * c <= L
      BY DEF RadixsortCand, RadixsortBuilds, IsPower2, radix,
             maxWorkGroupSize
    <3> QED
      BY <3>1, SMT DEF radix
  <2>6. RadixsortBuilds(Second(w, 1))
    BY <1>7, <2>2, <2>4, <2>5, SliceBuilds DEF RadixsortFields
  <2> QED
    BY <2>2, <2>6
<1>8. ASSUME NEW p \in RadixsortSets
      PROVE  p \in RadixsortFields /\ Aligned(p)
  <2> PICK x \in WorkGroupSizes, s \in Scales : p = Second(x, s)
    BY <1>5
  <2> QED
    BY <1>4, <1>6
<1> QED
  BY <1>7, <1>8

LEMMA RadixsortThird ==
    ASSUME Supported, Target, algorithm = "radixsort", stage = 2, RadixsortCand
    PROVE  /\ RadixsortSets \subseteq RadixsortFields
           /\ \A p \in RadixsortSets : Aligned(p)
           /\ \E p \in RadixsortSets : RadixsortBuilds(p)
<1> PICK L \in Nat : L = device.localMem /\ 16 * 1024 <= L
  BY DeviceFacts, SMT
<1>0. cand \in RadixsortFields /\ RadixsortBuilds(cand)
  BY DEF RadixsortCand, RadixsortParameters, RadixsortFields
<1> PICK q \in Powers : cand.scatterWorkGroupSize = slice * q
  BY DEF RadixsortCand, RadixsortParameters
<1>1. slice \in {16, 32, 64} /\ device.computeUnits \in Nat \ {0}
  BY DeviceFacts
<1>2. q * (21 * slice + 64) <= L
  BY <1>0, BuildsLeavesRoom DEF RadixsortFields
<1>3. \A b \in BlockCounts : b \in Nat /\ \E n \in Nat : b = n * q
  BY <1>1, BlockCountsFacts
<1>4. MaxOf(4, q) \in BlockCounts /\ MaxOf(4, q) <= maxBlocks
  BY <1>1, <1>2, BlockCountsFacts
<1> DEFINE Third(b) == [cand EXCEPT !.scanBlocks = b]
<1>5. RadixsortSets = {Third(b) : b \in BlockCounts}
  BY DEF RadixsortSets
<1>6. \A b \in Nat :
         /\ Third(b) \in RadixsortFields
         /\ Third(b).reduceWorkGroupSize = cand.reduceWorkGroupSize
         /\ Third(b).scatterWorkGroupSize = cand.scatterWorkGroupSize
         /\ Third(b).scatterWorkScale = cand.scatterWorkScale
         /\ Third(b).scanBlocks = b
  BY <1>0, RadixsortUpdate
<1> HIDE DEF Third
<1>7. \A b \in BlockCounts : Aligned(Third(b))
  BY <1>3, <1>6 DEF Aligned
<1>8. ASSUME NEW b \in Nat, b <= maxBlocks, b > 0, NEW n \in Nat, b = n * 4
      PROVE  RadixsortBuilds(Third(b))
  <2>1. radix = 16 /\ scanWorkGroupSize = 64
    BY SMT DEF radix, scanWorkGroupSize
  <2>2. (b * 16) % 64 = 0
    BY <1>8, SMT
  <2>3. 4 * (b * 16 + 2 * 64) <= L
    BY <1>8, RadixsortBlocksFacts, SMT
  <2>4. slicesPerWorkGroup(Third(b)) = slicesPerWorkGroup(cand)
    BY <1>6 DEF slicesPerWorkGroup
  <2>5. ScatterData(Third(b)) = ScatterData(cand)
    BY <1>6 DEF ScatterData
  <2> QED
    BY <1>0, <1>6, <1>8, <2>1, <2>2, <2>3, <2>4, <2>5 DEF RadixsortBuilds
<1>9. PICK a \in Nat : a = MaxOf(4, q) /\ a > 0 /\ a <= maxBlocks
  BY <1>4, MaxPower, SMT
<1>10. PICK n \in Nat : a = n * 4
  BY <1>9, MaxPower
<1>11. Third(a) \in RadixsortSets /\ RadixsortBuilds(Third(a))
  BY <1>4, <1>5, <1>8, <1>9, <1>10
<1> QED
  BY <1>3, <1>5, <1>6, <1>7, <1>11

-----------------------------------------------------------------------------
(* What a state of the invariant offers to tuneOne.                        *)
LEMMA RadixsortStage ==
    ASSUME Supported, Target, algorithm = "radixsort", stage \in 0 .. 2,
           stage > 0 => RadixsortCand
    PROVE  /\ RadixsortSets \subseteq RadixsortParameters
           /\ \A p \in RadixsortSets : p.scanBlocks % slicesPerWorkGroup(p) = 0
           /\ device.maxWorkGroupSize >= 64 =>
                 \E p \in RadixsortSets : RadixsortBuilds(p)
<1>1. stage = 0 \/ (stage = 1 /\ RadixsortCand) \/ (stage = 2 /\ RadixsortCand)
  BY SMT
<1>2. /\ RadixsortSets \subseteq RadixsortFields
      /\ \A p \in RadixsortSets : Aligned(p)
      /\ device.maxWorkGroupSize >= 64 =>
            \E p \in RadixsortSets : RadixsortBuilds(p)
  BY <1>1, RadixsortFirst, RadixsortSecond, RadixsortThird
<1>3. slice \in {16, 32, 64}
  BY DeviceFacts
<1> QED
  BY <1>2, <1>3, AlignedBlocks

LEMMA StageRange ==
    ASSUME StagesInv, status = "running"
    PROVE  stage \in 0 .. 2
  BY DEF StagesInv, Stages

\* What a candidate needs depends on the device and the type only.
LEMMA BuildsUnchanged ==
    ASSUME UNCHANGED <<device, size>>
    PROVE  /\ RadixsortParameters' = RadixsortParameters
           /\ ReduceParameters' = ReduceParameters /\ ScanParameters' = ScanParameters
           /\ \A p : /\ ReduceBuilds(p)' <=> ReduceBuilds(p)
                     /\ ScanBuilds(p)' <=> ScanBuilds(p)
                     /\ RadixsortBuilds(p)' <=> RadixsortBuilds(p)
<1>1. slice' = slice
  BY DEF slice
<1>2. RadixsortParameters' = RadixsortParameters
  BY <1>1 DEF RadixsortParameters
<1>3. ReduceParameters' = ReduceParameters /\ ScanParameters' = ScanParameters
  BY DEF ReduceParameters, ScanParameters
<1>4. /\ maxWorkGroupSize' = maxWorkGroupSize
      /\ localMemElements' = localMemElements
  BY DEF maxWorkGroupSize, localMemElements
<1>5. ASSUME NEW p
      PROVE  /\ ReduceBuilds(p)' <=> ReduceBuilds(p)
             /\ ScanBuilds(p)' <=> ScanBuilds(p)
             /\ RadixsortBuilds(p)' <=> RadixsortBuilds(p)
  <2>1. ReduceBuilds(p)' <=> ReduceBuilds(p)
    BY <1>4 DEF ReduceBuilds
  <2>2. ScanBuilds(p)' <=> ScanBuilds(p)
    BY <1>4 DEF ScanBuilds
  <2>3. /\ slicesPerWorkGroup(p)' = slicesPerWorkGroup(p)
        /\ ScatterData(p)' = ScatterData(p)
    BY <1>1 DEF slicesPerWorkGroup, ScatterData
  <2>4. RadixsortBuilds(p)' <=> RadixsortBuilds(p)
    BY <1>1, <1>4, <2>3 DEF RadixsortBuilds
  <2> QED
    BY <2>1, <2>2, <2>4
<1> QED
  BY <1>2, <1>3, <1>5

LEMMA StagesInitially ==
    ASSUME StagesInit
    PROVE  StagesInv
  BY DEF StagesInit, StagesInv, Target, Stages

\* tuneOne keeps what the earlier stages have selected.
LEMMA StagesStep ==
    ASSUME Supported, StagesInv, [StagesNext]_stagesVars
    PROVE  StagesInv'
<1>0. UNCHANGED <<algorithm, device, size>>
  BY DEF StagesNext, stagesVars, Break, tuneOne
<1>1. Target'
  BY <1>0 DEF StagesInv, Target
<1>2. Stages' = Stages /\ Stages \in {2, 3}
  BY <1>0 DEF Stages
<1>3. CASE UNCHANGED <<stage, cand>>
  <2>1. /\ ReduceCand' <=> ReduceCand
        /\ ScanCand' <=> ScanCand
        /\ RadixsortCand' <=> RadixsortCand
    BY <1>0, <1>3, BuildsUnchanged DEF ReduceCand, ScanCand, RadixsortCand
  <2>2. status' = "running" => status = "running"
    BY <1>3 DEF StagesNext, stagesVars, Break, tuneOne
  <2> QED
    BY <1>0, <1>1, <1>2, <1>3, <2>1, <2>2 DEF StagesInv
<1>4. CASE \E p \in Sets : Builds(p) /\ cand' = p
      /\ tuneOne /\ stage' = stage + 1
      /\ status' = IF stage' = Stages THEN "returned" ELSE status
  <2> PICK p \in Sets : Builds(p) /\ cand' = p
    BY <1>4
  <2>1. status = "running" /\ stage < Stages
    BY <1>4 DEF tuneOne
  <2>2. stage \in 0 .. 2 /\ Target /\ stage \in Nat
    BY <2>1, StageRange DEF StagesInv
  <2>3. stage' \in Nat /\ (status' = "running" => stage' < Stages)
    BY <1>2, <1>4, <2>1, <2>2
  <2>4. CASE algorithm = "reduce"
    <3>1. p \in ReduceSets /\ ReduceBuilds(p)
      BY <2>4 DEF Sets, Builds
    <3>2. p \in ReduceParameters
      BY <2>2, <2>4, <3>1, ReduceStage DEF StagesInv
    <3>3. ReduceCand'
      BY <1>0, <3>1, <3>2, BuildsUnchanged DEF ReduceCand
    <3> QED
      BY <1>0, <1>1, <1>2, <2>3, <2>4, <3>3 DEF StagesInv
  <2>5. CASE algorithm = "scan"
    <3>1. p \in ScanSets /\ ScanBuilds(p)
      BY <2>5 DEF Sets, Builds
    <3>2. p \in ScanParameters
      BY <2>2, <2>5, <3>1, ScanStage DEF StagesInv
    <3>3. ScanCand'
      BY <1>0, <3>1, <3>2, BuildsUnchanged DEF ScanCand
    <3> QED
      BY <1>0, <1>1, <1>2, <2>3, <2>5, <3>3 DEF StagesInv
  <2>6. CASE algorithm = "radixsort"
    <3>1. p \in RadixsortSets /\ RadixsortBuilds(p)
      BY <2>6 DEF Sets, Builds
    <3>2. p \in RadixsortParameters
      BY <2>2, <2>6, <3>1, RadixsortStage DEF StagesInv
    <3>3. RadixsortCand'
      BY <1>0, <3>1, <3>2, BuildsUnchanged DEF RadixsortCand
    <3> QED
      BY <1>0, <1>1, <1>2, <2>3, <2>6, <3>3 DEF StagesInv
  <2> QED
    BY <2>2, <2>4, <2>5, <2>6 DEF Target
<1> QED
  BY <1>3, <1>4 DEF StagesNext, stagesVars, Break, tuneOne

(***************************************************************************)
(* What the stages select: every parameter is positive and the candidate   *)
(* builds for the device, with a scatter work-group of whole slices.       *)
(***************************************************************************)
THEOREM StagesInvariant ==
    ASSUME Supported
    PROVE  StagesSpec => []StagesInv
<1>1. StagesInit => StagesInv
  BY StagesInitially
<1>2. StagesInv /\ [StagesNext]_stagesVars => StagesInv'
  BY StagesStep
<1> QED
  BY <1>1, <1>2, PTL DEF StagesSpec

(***************************************************************************)
(* Every candidate of Radixsort that builds has a scanBlocks that is a     *)
(* multiple of its slices per work-group, as getBlocks asserts, on every   *)
(* device and for every type.                                              *)
(***************************************************************************)
THEOREM StagesBlocksAligned ==
    ASSUME Supported
    PROVE  StagesSpec => []BlocksAligned
<1>1. ASSUME StagesInv PROVE BlocksAligned
  <2> SUFFICES ASSUME status = "running", algorithm = "radixsort"
               PROVE  \A p \in Sets : p.scanBlocks % slicesPerWorkGroup(p) = 0
    BY DEF BlocksAligned
  <2>1. stage \in 0 .. 2
    BY <1>1, StageRange
  <2>2. Sets = RadixsortSets
    BY DEF Sets
  <2> QED
    BY <1>1, <2>1, <2>2, RadixsortStage DEF StagesInv
<1> QED
  BY <1>1, StagesInvariant, PTL

(***************************************************************************)
(* No candidate of Reduce and Scan has zero blocks, so that the callbacks  *)
(* never divide by zero.                                                   *)
(***************************************************************************)
THEOREM StagesNoDivisionByZero ==
    ASSUME Supported
    PROVE  StagesSpec => []NoDivisionByZero
<1>1. ASSUME StagesInv PROVE NoDivisionByZero
  <2>0. status = "running" => stage \in 0 .. 2 /\ stage \in Nat /\ Target
    BY <1>1, StageRange DEF StagesInv
  <2>1. \A x \in Nat \ {0}, y \in Nat \ {0} : x * y \in Nat \ {0} /\ x * y > 0
    BY SMT
  <2>2. ASSUME status = "running", algorithm = "reduce", NEW p \in ReduceSets
        PROVE  p.reduceBlocks * p.reduceWorkGroupSize > 0
    <3>1. p \in ReduceParameters
      BY <1>1, <2>0, <2>2, ReduceStage DEF StagesInv
    <3> QED
      BY <2>1, <3>1 DEF ReduceParameters
  <2>3. ASSUME status = "running", algorithm = "scan", NEW p \in ScanSets
        PROVE  p.scanBlocks * p.scanWorkGroupSize * p.scanWorkScale > 0
    <3>1. p \in ScanParameters
      BY <1>1, <2>0, <2>3, ScanStage DEF StagesInv
    <3>2. /\ p.scanBlocks \in Nat \ {0} /\ p.scanWorkGroupSize \in Nat \ {0}
          /\ p.scanWorkScale \in Nat \ {0}
      BY <3>1 DEF ScanParameters
    <3>3. p.scanBlocks * p.scanWorkGroupSize \in Nat \ {0}
      BY <2>1, <3>2
    <3> QED
      BY <2>1, <3>2, <3>3
  <2> QED
    BY <2>2, <2>3 DEF NoDivisionByZero
<1> QED
  BY <1>1, StagesInvariant, PTL

(***************************************************************************)
(* Every stage offers a candidate that can be built, whatever the stages   *)
(* before it have selected: tune fails only when the device does, and the  *)
(* callbacks divide by no zero before they find that status.                  *)
(***************************************************************************)
THEOREM StagesCanTune ==
    ASSUME Supported
    PROVE  StagesSpec => []CanTune
<1>1. ASSUME StagesInv PROVE CanBuild
  <2> SUFFICES ASSUME status = "running",
                      algorithm = "radixsort" => maxWorkGroupSize >= scanWorkGroupSize
               PROVE  \E p \in Sets : Builds(p)
    BY DEF CanBuild
  <2>1. stage \in 0 .. 2 /\ stage \in Nat /\ Target
    BY <1>1, StageRange DEF StagesInv
  <2>2. CASE algorithm = "reduce"
    <3>1. PICK p \in ReduceSets : ReduceBuilds(p)
      BY <1>1, <2>1, <2>2, ReduceStage DEF StagesInv
    <3> QED
      BY <2>2, <3>1 DEF Sets, Builds
  <2>3. CASE algorithm = "scan"
    <3>1. PICK p \in ScanSets : ScanBuilds(p)
      BY <1>1, <2>1, <2>3, ScanStage DEF StagesInv
    <3> QED
      BY <2>3, <3>1 DEF Sets, Builds
  <2>4. CASE algorithm = "radixsort"
    <3>1. device.maxWorkGroupSize >= 64
      BY <2>4, SMT DEF maxWorkGroupSize, scanWorkGroupSize, radix
    <3>2. PICK p \in RadixsortSets : RadixsortBuilds(p)
      BY <1>1, <2>1, <2>4, <3>1, RadixsortStage DEF StagesInv
    <3> QED
      BY <2>4, <3>2 DEF Sets, Builds
  <2> QED
    BY <2>1, <2>2, <2>3, <2>4 DEF Target
<1> QED
  BY <1>1, StagesInvariant, StagesNoDivisionByZero, PTL DEF CanTune

=============================================================================
