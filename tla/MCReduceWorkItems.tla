---- MODULE MCReduceWorkItems ----
(***************************************************************************)
(* Small instances of ReduceWorkItems for TLC.                             *)
(***************************************************************************)
EXTENDS ReduceWorkItems

\* A range shorter than a work-group, one that fills no block completely and
\* one that does not start at the beginning of the buffer.
MCRequests ==
    {[first |-> 0, elements |-> 3, out |-> "out"],
     [first |-> 2, elements |-> 7, out |-> "out"]}

====
