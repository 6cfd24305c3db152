---------------------------- MODULE LimitedWindow ----------------------------
(***************************************************************************)
(* A call of check_rate_limit, steps 4 and 5: LimitPolicy works out the    *)
(* limit, and SlidingWindowCounter decides with it.  Between the two, and  *)
(* between the steps of each, other calls run, an administrator sets       *)
(* another schedule or empties the store.                                  *)
(***************************************************************************)
EXTENDS SlidingWindowCounter, Sequences

CONSTANTS BaseLimit, Schedules, Day, Loads, Interval

VARIABLES schedule, enabled, multiplier, last_sample, stage, policy_clock, tier,
          effective, samples, sampled

Policy == INSTANCE LimitPolicy
policy == <<schedule, enabled, multiplier, last_sample, samples, sampled>>
local == <<stage, policy_clock, tier, effective>>

ASSUME BaseLimitAssumption == BaseLimit \in Nat \ {0}
ASSUME LoadsAssumption == Loads \subseteq DOMAIN Policy!Multiplier
ASSUME DayAssumption == Day \in Nat \ {0} /\ Interval \in Nat \ {0}
ASSUME SchedulesAssumption ==
  Schedules \subseteq Seq([start : 0 .. Day - 1, end : 0 .. Day - 1, limit : Nat])

LimitedTypeOK == TypeOK /\ Policy!PolicyTypeOK

LimitedInit == Init /\ Policy!PolicyInit

-----------------------------------------------------------------------------
TimePasses == Tick /\ UNCHANGED <<policy, local>>

\* No limit is worked out for a call the bound leaves out, those underway counted.
PolicyStep(t) ==
  /\ pc[t] = "idle"
  /\ stage[t] = "none" =>
       requests + Cardinality({u \in Threads : stage[u] # "none"}) < MaxRequests
  /\ Policy!PolicyStep(t)
  /\ UNCHANGED vars

\* algorithm.allow_request(..., limit=effective_limit, ...)
AllowRequest(t) ==
  /\ Policy!HandOver(t)
  /\ Begin(t, effective[t])

WindowStep(t) == CallStep(t) /\ UNCHANGED <<policy, local>>

Administrator ==
  \/ Clear /\ UNCHANGED <<policy, local>>
  \/ Policy!SetPolicy /\ UNCHANGED vars

LimitedNext ==
  \/ TimePasses
  \/ Administrator
  \/ \E t \in Threads : PolicyStep(t) \/ AllowRequest(t) \/ WindowStep(t)

limited_vars == <<vars, policy, local>>
LimitedSpec == LimitedInit /\ [][LimitedNext]_limited_vars

-----------------------------------------------------------------------------
\* The properties of the policy hold of the whole.  However many calls find the
\* interval over at once, _maybe_update_metrics samples once: by the clocks of the calls
\* that took them, any two samples are an interval apart.
SamplesAreSpaced == Policy!SamplesAreSpaced

\* The adaptive limiter tightens and relaxes limits only after a sample that says so.
AdjustmentsAreEarned == Policy!AdjustmentsAreEarned

\* get_effective_limit applies a rule over midnight as it does over any other hour.
RulesGoRoundTheClock == Policy!RulesGoRoundTheClock
=============================================================================
