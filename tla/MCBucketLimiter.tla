-------------------------- MODULE MCBucketLimiter --------------------------
(***************************************************************************)
(* BucketLimiter on small instances.                                       *)
(***************************************************************************)
EXTENDS BucketLimiter, TLC

ThreadSymmetry == Permutations(Threads)
=============================================================================
