------------------------ MODULE MCResilientRepository ------------------------
(***************************************************************************)
(* ResilientRepository, and the breaker in it, on small instances.         *)
(***************************************************************************)
EXTENDS ResilientRepository
=============================================================================
