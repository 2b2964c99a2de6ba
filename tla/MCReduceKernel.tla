---- MODULE MCReduceKernel ----
(***************************************************************************)
(* Small instances of ReduceKernel for TLC.                                *)
(***************************************************************************)
EXTENDS ReduceKernel

\* Element counts below, at and above a multiple of WGS * Blocks; one request
\* starts past the beginning of the buffer.
MCRequests ==
    [first : {0, 1}, elements : {1, 5, 6, 7}, out : {"out"}]

\* A range that ends just below 2^32, with uint shrunk to 4 bits.
MCWideRequests ==
    [first : {0}, elements : {13, 14, 15}, out : {"out"}]

====
