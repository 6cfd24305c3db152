--------------------------- MODULE MCLimitedWindow ---------------------------
(***************************************************************************)
(* LimitedWindow on small instances.                                       *)
(***************************************************************************)
EXTENDS LimitedWindow, TLC

ThreadSymmetry == Permutations(Threads)

Rule(start, end, limit_) == [start |-> start, end |-> end, limit |-> limit_]

\* No tiers, or a tier past midnight and another, which one relaxing sample raises, for
\* the rest of the day.
TwoSchedules == {<<>>, <<Rule(3, 1, 0), Rule(2, 2, 20)>>}
=============================================================================
