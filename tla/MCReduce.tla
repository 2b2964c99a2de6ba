------------------------------ MODULE MCReduce ------------------------------
(***************************************************************************)
(* A small instance of Reduce for TLC.                                     *)
(***************************************************************************)
EXTENDS Reduce

\* WGS * Blocks elements and one more, which leaves a block empty.
BufferCall == [form |-> "buffer", blocking |-> FALSE, outNull |-> FALSE,
               first |-> 0, elements |-> 7, outPosition |-> 1,
               inBytes |-> 16, outBytes |-> 4, readable |-> TRUE,
               writable |-> TRUE]

HostCall == [BufferCall EXCEPT !.form = "host", !.first = 1, !.elements = 6]

MCCalls ==
    {BufferCall,
     HostCall,
     [HostCall EXCEPT !.blocking = TRUE],
     \* Calls that validation must refuse; in the first, first + elements
     \* wraps around to a small number.
     [BufferCall EXCEPT !.first = 14],
     [BufferCall EXCEPT !.first = 3],
     [BufferCall EXCEPT !.outPosition = 2],
     [BufferCall EXCEPT !.elements = 0],
     [HostCall EXCEPT !.outNull = TRUE]}

MCOutCells == {<<"out", 1>>, <<"sums", Blocks>>}

MCRequests == [first : {0, 1, 14}, elements : {6, 7}, out : MCOutCells]

=============================================================================
