-------------------------------- MODULE Rate --------------------------------
(***************************************************************************)
(* The rate of a bucket: Limit requests at once, and Limit more in every   *)
(* Window.  The code computes with fractions (limit / window tokens per    *)
(* second, window / limit seconds per request); the modules that extend    *)
(* this one scale them to integers: a request costs Window, a tick brings  *)
(* Limit, and a full bucket holds Capacity.                                *)
(***************************************************************************)
EXTENDS Integers

CONSTANTS
  Limit,    \* capacity of the bucket, in requests
  Window    \* ticks in which the whole capacity is restored

ASSUME LimitAssumption == Limit \in Nat \ {0}
ASSUME WindowAssumption == Window \in Nat \ {0}

Capacity == Limit * Window
=============================================================================
