--------------------------- MODULE MCSqliteCounter ---------------------------
(***************************************************************************)
(* SqliteCounter on small instances.                                       *)
(***************************************************************************)
EXTENDS SqliteCounter, TLC

Symmetry == Permutations(Workers) \cup Permutations(Threads)
=============================================================================
