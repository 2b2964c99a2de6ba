----------------------------- MODULE ScanKernels -----------------------------
(***************************************************************************)
(* A work-group of one of the kernels of scan.cl that sum up blocks and    *)
(* scan the sums: kernel is the one that runs.  The variables that it does *)
(* not have are None.                                                      *)
(***************************************************************************)
CONSTANTS BlockCounts, Sizes, None

VARIABLES
    kernel,                                 \* "scanExclusiveSmall" or "reduce"
    scale,                                  \* of both
    SCAN_BLOCKS, inout, v, pc, phase,       \* of scanExclusiveSmall
    size, partials, out                     \* of reduce; partials is its sums

Small == INSTANCE ScanSmall
Summed == INSTANCE ScanReduce WITH sums <- partials

ofSmall == <<SCAN_BLOCKS, inout, v, pc, phase>>
ofReduce == <<size, partials, out>>
kernelVars == <<kernel, scale, ofSmall, ofReduce>>

NoSmall == SCAN_BLOCKS = None /\ inout = None /\ v = None /\ pc = None /\ phase = None
NoReduce == size = None /\ partials = None /\ out = None

KernelInit ==
    \/ kernel = "scanExclusiveSmall" /\ Small!Init /\ NoReduce
    \/ kernel = "reduce" /\ Summed!Init /\ NoSmall

KernelNext ==
    /\ \/ kernel = "scanExclusiveSmall" /\ Small!Next /\ UNCHANGED ofReduce
       \/ kernel = "reduce" /\ Summed!Next /\ UNCHANGED ofSmall
    /\ UNCHANGED kernel

KernelSpec == KernelInit /\ [][KernelNext]_kernelVars

-----------------------------------------------------------------------------
(* scanExclusiveSmall leaves the exclusive scan of the block sums plus the *)
(* offset (scan.cl:219), with only the barriers of its two loops.          *)
ExclusiveScan == kernel = "scanExclusiveSmall" => Small!TypeOK /\ Small!ExclusiveScan

(* reduce writes the sum of its block, with no barrier after the last      *)
(* iteration.                                                              *)
BlockSummed == kernel = "reduce" => Summed!TypeOK /\ Summed!BlockSummed

=============================================================================
