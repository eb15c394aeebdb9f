-------------------------- MODULE MCTraceRecorder ---------------------------
(***************************************************************************)
(* Instances of TraceRecorder, and of the jobs made of its traces, for     *)
(* TLC: a unit of 4 bytes stands for 1024, and one of the sizes is written *)
(* with a decimal.                                                         *)
(***************************************************************************)
EXTENDS TraceWorkload, TLC

CONSTANTS k1, k2

MCSize == (k1 :> 67) @@ (k2 :> 9)

Symmetry == Permutations(Threads)

=============================================================================
