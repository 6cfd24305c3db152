------------------------ MODULE MCRateLimiterService ------------------------
(***************************************************************************)
(* RateLimiterService on small instances.                                  *)
(***************************************************************************)
EXTENDS RateLimiterService, TLC

ThreadSymmetry == Permutations(Threads)
=============================================================================
