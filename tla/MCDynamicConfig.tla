-------------------------- MODULE MCDynamicConfig --------------------------
(***************************************************************************)
(* DynamicConfig on small instances.                                       *)
(***************************************************************************)
EXTENDS DynamicConfig, TLC

\* A client's limits at foo, which the environment knows, and at baz, which it does not
\* until an algorithm is set.
Baz ==
  << [section |-> "clients", endpoint |-> "foo"], [section |-> "clients", endpoint |-> "baz"],
     [section |-> "algorithms", endpoint |-> "baz"], [section |-> "algorithms", endpoint |-> "foo"] >>
FooOnly == <<Default, Unconfigured, Unconfigured, Default>>

WorkerSymmetry == Permutations(Workers)
=============================================================================
