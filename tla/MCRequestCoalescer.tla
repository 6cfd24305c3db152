------------------------- MODULE MCRequestCoalescer -------------------------
(***************************************************************************)
(* RequestCoalescer on a small instance.                                    *)
(***************************************************************************)
EXTENDS RequestCoalescer, TLC

Symmetry == Permutations(Threads) \cup Permutations(Keys)
=============================================================================
