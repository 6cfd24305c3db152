--------------------------- MODULE MCQuotaManager ---------------------------
(***************************************************************************)
(* QuotaManager on a small instance.                                        *)
(***************************************************************************)
EXTENDS QuotaManager, TLC

Symmetry == Permutations(Clients) \cup Permutations(Pools)

\* Every pool has the same limit: two units.
LimitOfTwo == [p \in Pools |-> 2]
=============================================================================
