---------------------------- MODULE MCRadixsort ----------------------------
(***************************************************************************)
(* Small instances of Radixsort for TLC.                                   *)
(***************************************************************************)
EXTENDS Radixsort, TLC

Keys == <<"keys", 0>>
Values == <<"values", 0>>

\* Five keys of one byte and five values of two; smaller temporary buffers,
\* ones that are large enough, and a buffer that is read-only.
MCBufferBytes ==
    (Keys :> 6) @@ (Values :> 11)
    @@ (<<"keys", -1>> :> 5) @@ (<<"values", -1>> :> 8)
    @@ (<<"keys", -2>> :> 5)
MCReadWrite == DOMAIN MCBufferBytes \ {<<"keys", -2>>}
MCTemporaries == {<<<<"keys", -1>>, <<"values", -1>>>>, <<NoBuffer, NoBuffer>>}

KeysOf(s) == [i \in 0 .. Len(s) - 1 |-> s[i + 1]]
MCKeyData == {KeysOf(<<14, 37, 9, 5, 37, 20>>)}

\* Three passes, two passes and one.
Plain == [keys |-> Keys, values |-> Values, elements |-> 5, maxBits |-> 0]

MCCalls ==
    {Plain,
     [Plain EXCEPT !.maxBits = 4],
     [Plain EXCEPT !.maxBits = 1, !.elements = 4],
     \* Calls that validation must refuse.
     [Plain EXCEPT !.elements = 6],
     [Plain EXCEPT !.keys = <<"keys", -2>>],
     [Plain EXCEPT !.maxBits = 7]}

Base == [radixBits |-> 2, warpSizeSchedule |-> 1, reduceWorkGroupSize |-> 4,
         scanWorkGroupSize |-> 4, scatterWorkGroupSize |-> 4, scatterWorkScale |-> 1,
         scanBlocks |-> 2]

MCConfigs ==
    {[params |-> Base, valueSize |-> 2, inOrder |-> FALSE],
     [params |-> Base, valueSize |-> 0, inOrder |-> TRUE],
     \* Two slices per work-group and more blocks than needed.
     [params |-> [Base EXCEPT !.scatterWorkGroupSize = 8, !.scanBlocks = 4],
      valueSize |-> 2, inOrder |-> FALSE],
     \* Not a whole number of slices: tuning does not propose it.
     [params |-> [Base EXCEPT !.scatterWorkGroupSize = 8, !.scanBlocks = 3],
      valueSize |-> 0, inOrder |-> FALSE]}

============================================================================
