----------------------------- MODULE RateBucket -----------------------------
(***************************************************************************)
(* What the three bucket algorithms promise: one bucket that refills at a  *)
(* constant rate up to its capacity and pays for each admitted request, so *)
(* that no interval admits more than the capacity plus what the interval   *)
(* refills.  An observer may begin to measure an interval at any moment.   *)
(***************************************************************************)
EXTENDS Rate

CONSTANT MaxTime   \* bound of the model: no request is decided later

VARIABLES
  level,     \* what the bucket holds; a request costs Window, a tick brings Limit
  time,      \* when the last request was decided
  admitted,  \* how many requests have been admitted
  mark       \* the beginning of the interval under observation

bucket_vars == <<level, time, admitted, mark>>

\* What the bucket holds at time t.
Refilled(t) == LET filled == level + (t - time) * Limit IN IF filled < Capacity THEN filled ELSE Capacity

Start ==
  /\ level = Capacity
  /\ time = 0
  /\ admitted = 0
  /\ mark = [time |-> 0, admitted |-> 0]

\* A request is decided at time t, not before the last one: it is admitted if the
\* bucket can pay for it ...
AdmitAt(t) ==
  /\ t >= time /\ Refilled(t) >= Window
  /\ level' = Refilled(t) - Window
  /\ admitted' = admitted + 1
  /\ time' = t
  /\ UNCHANGED mark

\* ... and rejected if it cannot.
RejectAt(t) ==
  /\ t >= time /\ Refilled(t) < Window
  /\ level' = Refilled(t)
  /\ time' = t
  /\ UNCHANGED <<admitted, mark>>

Observe ==
  /\ mark' = [time |-> time, admitted |-> admitted]
  /\ UNCHANGED <<level, time, admitted>>

Step == Observe \/ \E t \in 0 .. MaxTime : AdmitAt(t) \/ RejectAt(t)

Spec == Start /\ [][Step]_bucket_vars

BucketTypeOK ==
  /\ level \in 0 .. Capacity
  /\ time \in Nat
  /\ admitted \in Nat
  /\ mark \in [time : Nat, admitted : Nat]

\* The requests admitted since the mark cost at most the capacity and what has been
\* refilled since, less what is left.
IntervalBound ==
  (admitted - mark.admitted) * Window + level <= Capacity + (time - mark.time) * Limit
=============================================================================
