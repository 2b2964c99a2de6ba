-------------------------------- MODULE Tune --------------------------------
(***************************************************************************)
(* tuneOne (src/tune.cpp): every candidate is tested on problems of        *)
(* growing size, slow ones are left out of the later passes, and one is    *)
(* selected from the results of the last pass.  Each iteration of its      *)
(* loops over i is a step.                                                 *)
(*                                                                         *)
(* A test returns a pair of rates, A and B with A <= B, returns NaN or     *)
(* throws.  Infinite stands for the rate of a test that took no time.      *)
(***************************************************************************)
EXTENDS Integers, Sequences

CONSTANTS
    Candidates,     \* the parameterSets, a sequence without repetition
    Passes,         \* the number of problemSizes
    Results,        \* the pairs of rates A <= B that a test may return
    Infinite        \* the rate larger than any other

Given == {Candidates[n] : n \in DOMAIN Candidates}

\* What the callers pass, and what the callback may return.
Arguments ==
    /\ Candidates \in Seq(Given) /\ Candidates # <<>>
    /\ \A m, n \in DOMAIN Candidates : Candidates[m] = Candidates[n] => m = n
    /\ Passes \in Nat \ {0}
    /\ Infinite \in Nat
    /\ \A r \in Results : r \in (0 .. Infinite) \X (0 .. Infinite) /\ r[1] <= r[2]

VARIABLES
    enabled,        \* the TunePolicy
    pass, i,        \* the loop variables
    loop,           \* the loop over i that runs
    retained, retained2, results, maxA,
    out,            \* what the call has come to
    tests           \* for the properties: <<candidate, result>>, for each pass

vars == <<enabled, pass, i, loop, retained, retained2, results, maxA, out, tests>>

Failed == <<"failed">>      \* NaN or an exception that is caught
Running == <<"running">>

Init ==
    /\ enabled \in BOOLEAN
    /\ pass = 1 /\ i = 1 /\ loop = "test"
    /\ retained = Candidates /\ retained2 = <<>>
    /\ results = <<>> /\ maxA = -1
    /\ out = Running
    /\ tests = [p \in 1 .. Passes |-> {}]

assertEnabled ==
    /\ out = Running /\ ~enabled
    /\ out' = <<"CacheError">>
    /\ UNCHANGED <<enabled, pass, i, loop, retained, retained2, results, maxA, tests>>

\* The loop l can run, or goes on behind its last iteration.
In(l) == out = Running /\ enabled /\ loop = l

Tested(r) == tests' = [tests EXCEPT ![pass] = @ \union {<<retained[i], r>>}]

Test ==
    /\ In("test") /\ i <= Len(retained)
    /\ \/ Tested(Failed) /\ UNCHANGED <<retained2, results, maxA>>
       \/ \E r \in Results :
             /\ Tested(r)
             /\ retained2' = Append(retained2, retained[i])
             /\ results' = Append(results, r)
             /\ maxA' = IF r[1] > maxA THEN r[1] ELSE maxA
    /\ i' = i + 1
    /\ UNCHANGED <<enabled, pass, loop, retained, out>>

\* An exception other than InternalError and cl::Error is not caught.
Throw ==
    /\ In("test") /\ i <= Len(retained)
    /\ out' = <<"exception">>
    /\ UNCHANGED <<enabled, pass, i, loop, retained, retained2, results, maxA, tests>>

EndTests ==
    /\ In("test") /\ i > Len(retained)
    /\ retained' = retained2 /\ retained2' = <<>>
    /\ i' = 1
    /\ loop' = IF pass < Passes THEN "filter" ELSE "select"
    /\ out' = IF retained' = <<>> THEN <<"TuneError">> ELSE out
    /\ UNCHANGED <<enabled, pass, results, maxA, tests>>

\* a >= ratio * max, for a ratio of one half.
Keeps(a, max) == IF max = Infinite THEN a = Infinite ELSE 2 * a >= max

Filter ==
    /\ In("filter") /\ i <= Len(results)
    /\ retained2' = IF Keeps(results[i][1], maxA) THEN Append(retained2, retained[i])
                    ELSE retained2
    /\ i' = i + 1
    /\ UNCHANGED <<enabled, pass, loop, retained, results, maxA, out, tests>>

\* Mutant: the largest A of the pass before is kept.
NoMaxA_Stale == maxA

NoMaxA == -1

EndFilter ==
    /\ In("filter") /\ i > Len(results)
    /\ retained' = retained2 /\ retained2' = <<>>
    /\ pass' = pass + 1 /\ i' = 1 /\ loop' = "test"
    /\ results' = <<>> /\ maxA' = NoMaxA
    /\ UNCHANGED <<enabled, out, tests>>

\* Mutant: the best A is selected, not the first B that reaches it.
Reaches_Best(r) == r[1] = maxA

Reaches(r) == r[2] >= maxA

\* abort() follows the loop over pass.
Select ==
    /\ In("select")
    /\ \/ /\ i <= Len(results) /\ Reaches(results[i])
          /\ out' = <<"return", retained[i]>> /\ UNCHANGED i
       \/ /\ i <= Len(results) /\ ~Reaches(results[i])
          /\ i' = i + 1 /\ UNCHANGED out
       \/ i > Len(results) /\ out' = <<"abort">> /\ UNCHANGED i
    /\ UNCHANGED <<enabled, pass, loop, retained, retained2, results, maxA, tests>>

Next == assertEnabled \/ Test \/ Throw \/ EndTests \/ Filter \/ EndFilter \/ Select

Spec == Init /\ [][Next]_vars

-----------------------------------------------------------------------------
\* Candidates in s appear in the order in which tuneOne was given them.
Before(c, d) ==
    \E m, n \in DOMAIN Candidates : m < n /\ Candidates[m] = c /\ Candidates[n] = d
InOrder(s) == \A j, k \in DOMAIN s : j < k => Before(s[j], s[k])

(* Types; candidates are never repeated nor reordered.                     *)
TypeOK ==
    /\ pass \in 1 .. Passes
    /\ out \in {Running, <<"CacheError">>, <<"TuneError">>, <<"exception">>, <<"abort">>}
               \cup {<<"return", c>> : c \in Given}
    /\ Len(results) = IF loop = "test" THEN Len(retained2) ELSE Len(retained)
    /\ InOrder(retained) /\ InOrder(retained2)

Successes(p) == {t \in tests[p] : t[2] # Failed}
Entered(p) == {t[1] : t \in tests[p]}

\* A candidate's rate in pass p, A, was at least ratio * Amax.
Survives(c, p) ==
    \E t \in Successes(p) : t[1] = c /\ \A u \in Successes(p) : Keeps(t[2][1], u[2][1])

\* In the last pass a candidate had B >= Amax.
Good(c) ==
    \E t \in Successes(Passes) : t[1] = c /\ \A u \in Successes(Passes) : t[2][2] >= u[2][1]

\* All candidates are tested in the first phase, and in each later one exactly
\* those that worked and were no slower than half of the best in the one
\* before; of those of the last phase the first with B >= Amax is returned.
Promised ==
    out[1] = "return" =>
        /\ Entered(1) = Given
        /\ \A p \in 1 .. Passes - 1 : Entered(p + 1) = {c \in Entered(p) : Survives(c, p)}
        /\ \E n \in DOMAIN Candidates :
              /\ Candidates[n] = out[2] /\ Good(out[2])
              /\ \A m \in 1 .. n - 1 : ~Good(Candidates[m])

(* tuneOne returns what tune.h promises, and never repeats nor reorders    *)
(* candidates.                                                             *)
ReturnsFirstGood == TypeOK /\ Promised

(* abort() is not reached, and there is no TuneError unless all that was   *)
(* tested in a phase failed: leaving out slow candidates never leaves none.*)
FailsOnlyIfAllFail ==
    /\ out[1] # "abort"
    /\ out[1] = "TuneError" => tests[pass] # {} /\ Successes(pass) = {}

=============================================================================
