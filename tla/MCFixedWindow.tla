--------------------------- MODULE MCFixedWindow ---------------------------
(***************************************************************************)
(* FixedWindow on a small instance.                                        *)
(***************************************************************************)
EXTENDS FixedWindow, TLC

ThreadSymmetry == Permutations(Threads)
=============================================================================
