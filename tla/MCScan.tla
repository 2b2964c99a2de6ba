------------------------------- MODULE MCScan -------------------------------
(***************************************************************************)
(* Small instances of Scan for TLC.                                        *)
(***************************************************************************)
EXTENDS Scan, TLC

\* Six elements, and five plus a byte that does not make another one.
MCBufferBytes == ("a" :> 12) @@ ("b" :> 11) @@ ("w" :> 12)
MCReadable == {"a", "b"}
MCWritable == {"a", "b", "w"}

Plain == [in |-> "a", out |-> "a", elements |-> 5, offset |-> "none",
          offsetBuffer |-> "a", offsetIndex |-> 0]

MCCalls ==
    {Plain,
     \* The offset behind the elements and one that the scan overwrites.
     [Plain EXCEPT !.offset = "buffer", !.offsetIndex = 5],
     [Plain EXCEPT !.in = "b", !.offset = "buffer", !.offsetIndex = 1],
     \* A single block.
     [Plain EXCEPT !.elements = 2, !.offset = "host"],
     \* Calls that validation must refuse.
     [Plain EXCEPT !.elements = 0],
     [Plain EXCEPT !.out = "b", !.elements = 6],
     [Plain EXCEPT !.offset = "buffer", !.offsetIndex = 6],
     [Plain EXCEPT !.in = "w"]}

\* offsetIndex + 1 is zero in cl_uint; elements * ElementSize is a small number
\* in size_t.
MCWrapCalls ==
    {[Plain EXCEPT !.offset = "buffer", !.offsetIndex = Uint - 1],
     [Plain EXCEPT !.elements = (SizeT \div ElementSize) + 1]}

=============================================================================
