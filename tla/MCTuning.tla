------------------------------ MODULE MCTuning ------------------------------
(***************************************************************************)
(* One call of tuneOne, or one of the three tune functions that make       *)
(* candidates for it, for TLC.  The one that is not called rests in an     *)
(* initial state.                                                          *)
(***************************************************************************)
EXTENDS Tune, TuneStages

VARIABLE call       \* "tuneOne" or "tune"

MCCandidates == <<"a", "b", "c">>

\* Rates below, at and above half of each other, B = A and B > A, infinite.
MCResults == {<<1, 1>>, <<1, 2>>, <<2, 2>>, <<3, 4>>, <<9, 9>>}

\* CPUs have no warps; the minimum of local memory is 32 KiB (16 in OpenCL 1.0).
MCDevices ==
    [maxWorkGroupSize : {16, 128, 1024, 8192}, localMem : {16384, 32768},
     warpSize : {1}, computeUnits : {1, 5, 12}]
    \cup [maxWorkGroupSize : {512, 1024}, localMem : {16384, 49152},
          warpSize : {32}, computeUnits : {2, 13}]
    \cup [maxWorkGroupSize : {256}, localMem : {32768}, warpSize : {64}, computeUnits : {20, 32}]
    \cup [maxWorkGroupSize : {1}, localMem : {32768}, warpSize : {1}, computeUnits : {4}]

MCSizes ==
    [reduce |-> [key : {1, 8, 128}, value : {0}], scan |-> [key : {1, 12, 128}, value : {0}],
     radixsort |-> {[key |-> 4, value |-> 0], [key |-> 1, value |-> 128], [key |-> 8, value |-> 16]}]

\* What TuneProofs assumes of them.
ASSUME CallsSupported == Arguments /\ Supported

MCInit ==
    /\ Init /\ StagesInit
    /\ call \in {"tuneOne", "tune"}
    /\ call = "tuneOne" => /\ algorithm = "reduce" /\ size = [key |-> 8, value |-> 0]
                           /\ device = CHOOSE d \in Devices : TRUE
    /\ call = "tune" => enabled

MCNext ==
    /\ \/ call = "tuneOne" /\ Next /\ UNCHANGED stagesVars
       \/ call = "tune" /\ StagesNext /\ UNCHANGED vars
    /\ UNCHANGED call

MCSpec == MCInit /\ [][MCNext]_<<call, vars, stagesVars>>

=============================================================================
