------------------------- MODULE MCSlidingWindowLog -------------------------
(***************************************************************************)
(* SlidingWindowLog on small instances.                                    *)
(***************************************************************************)
EXTENDS SlidingWindowLog, TLC

ThreadSymmetry == Permutations(Threads)
=============================================================================
