----------------------------- MODULE LimitPolicy -----------------------------
(***************************************************************************)
(* The limit a call is decided with (check_rate_limit, step 4): the one    *)
(* configured, replaced by the tier of the time of day (time_of_day.py)    *)
(* and multiplied by the factor of the adaptive limiter (adaptive.py),     *)
(* which every call may be the one to sample anew.                         *)
(*                                                                         *)
(* The interval is checked before the lock is taken and again under it,    *)
(* with the clock read before.  The lock is held while the load is         *)
(* measured; the time of the sample and the factor are read without it, by *)
(* calls that come meanwhile and by the one that sampled.  The factor is a *)
(* fixed-point number here, rounded to the nearest unit as the program's   *)
(* doubles are.  The load of the machine is outside, and may be another at *)
(* every sample.                                                           *)
(***************************************************************************)
EXTENDS Integers, Sequences

CONSTANTS
  Threads,      \* the server threads
  BaseLimit,    \* the limit of the endpoint's configuration
  Schedules,    \* the schedules an administrator may set
  Day,          \* ticks in a day
  Loads,        \* the loads the machine may be under, of the DOMAIN of Multiplier
  Interval      \* _sample_interval, in ticks

Multiplier == [low |-> 120, normal |-> 100, high |-> 70, critical |-> 40]
Scale == 100

VARIABLES
  now,           \* time.time()
  schedule,      \* TimeOfDayPolicy._rules, of the client and endpoint
  enabled,       \* whether there is an adaptive limiter
  multiplier,    \* _current_multiplier
  last_sample,   \* _last_sample_time
  stage,         \* where each thread is
  policy_clock,  \* the local variable `now` of _maybe_update_metrics
  tier,          \* the limit before it is multiplied
  effective,     \* effective_limit of each call
  samples,       \* history: the clock of the call that took it, for each sample
  sampled        \* history: the loads found by them

policy == <<schedule, enabled, multiplier, last_sample, samples, sampled>>
local == <<stage, policy_clock, tier, effective>>

PolicyTypeOK ==
  /\ schedule \in Schedules
  /\ enabled \in BOOLEAN
  /\ multiplier \in Nat
  /\ last_sample \in Int
  /\ stage \in [Threads -> {"none", "check", "lock", "sampling", "multiply", "ready"}]
  /\ policy_clock \in [Threads -> Nat]
  /\ tier \in [Threads -> Nat]
  /\ effective \in [Threads -> Nat]
  /\ samples \in Seq(Nat)
  /\ sampled \subseteq Loads

\* _last_sample_time is 0.0 at first, an interval and more ago.
PolicyInit ==
  /\ schedule \in Schedules
  /\ enabled \in BOOLEAN
  /\ multiplier = Scale
  /\ last_sample = -Interval
  /\ stage = [t \in Threads |-> "none"]
  /\ policy_clock = [t \in Threads |-> 0]
  /\ tier = [t \in Threads |-> 0]
  /\ effective = [t \in Threads |-> 0]
  /\ samples = <<>>
  /\ sampled = {}

-----------------------------------------------------------------------------
\* TimeOfDayPolicy.get_effective_limit: the first rule in force.  A rule may go past
\* midnight, and one that ends when it starts is always in force.  (The faulty variant
\* wants both sides of midnight at once.)
InForceWithinDay(rule, time) ==
  \/ rule.start < rule.end /\ rule.start <= time /\ time < rule.end
  \/ rule.start > rule.end /\ time >= rule.start /\ time < rule.end
  \/ rule.start = rule.end

InForce(rule, time) ==
  \/ rule.start < rule.end /\ rule.start <= time /\ time < rule.end
  \/ rule.start > rule.end /\ (time >= rule.start \/ time < rule.end)
  \/ rule.start = rule.end

TierAt(time) ==
  LET applying == {i \in DOMAIN schedule : InForce(schedule[i], time)}
  IN  IF applying = {} THEN BaseLimit
      ELSE schedule[CHOOSE i \in applying : \A j \in applying : i <= j].limit

\* 0.7 * multiplier + 0.3 * new_multiplier.  (A faulty variant whose weights do not
\* add up to one.)  The bounds 0.3 and 1.5 are outside what this can reach.
SmoothedBelow(m, new) == (7 * m + 2 * new + 5) \div 10
Smoothed(m, new) == (7 * m + 3 * new + 5) \div 10

\* max(1, int(base_limit * multiplier))
Adjusted(base, m) == LET limit == (base * m) \div Scale IN IF limit < 1 THEN 1 ELSE limit

\* What _collect_metrics and _classify_load find: the worst of the bands that
\* processor, memory and latency are in.
Adjust(load) ==
  /\ multiplier' = Smoothed(multiplier, Multiplier[load])
  /\ sampled' = sampled \cup {load}

Due(clock) == clock - last_sample >= Interval

Go(t, from, to) == stage[t] = from /\ stage' = [stage EXCEPT ![t] = to]

-----------------------------------------------------------------------------
\* self._time_of_day.get_effective_limit(...)
ReadTier(t) ==
  /\ Go(t, "none", IF enabled THEN "check" ELSE "ready")
  /\ tier' = [tier EXCEPT ![t] = TierAt(now % Day)]
  /\ effective' = [effective EXCEPT ![t] = tier'[t]]
  /\ UNCHANGED <<now, policy, policy_clock>>

\* now = time.time(), and the check before the lock
CheckInterval(t) ==
  /\ \/ Due(now) /\ Go(t, "check", "lock") /\ policy_clock' = [policy_clock EXCEPT ![t] = now]
     \/ ~ Due(now) /\ Go(t, "check", "multiply") /\ UNCHANGED policy_clock
  /\ UNCHANGED <<now, policy, tier, effective>>

Locked == \E t \in Threads : stage[t] = "sampling"

\* with self._lock: the interval is checked again, and the sample gets its time ...
\* (A faulty variant without that check.)
SampleUnchecked(t) ==
  /\ ~ Locked
  /\ Go(t, "lock", "sampling")
  /\ last_sample' = policy_clock[t]
  /\ samples' = Append(samples, policy_clock[t])
  /\ policy_clock' = [policy_clock EXCEPT ![t] = 0]
  /\ UNCHANGED <<now, schedule, enabled, multiplier, sampled, tier, effective>>

Sample(t) ==
  /\ ~ Locked
  /\ \/ /\ Due(policy_clock[t])
        /\ Go(t, "lock", "sampling")
        /\ last_sample' = policy_clock[t]
        /\ samples' = Append(samples, policy_clock[t])
     \/ /\ ~ Due(policy_clock[t])
        /\ Go(t, "lock", "multiply")
        /\ UNCHANGED <<last_sample, samples>>
  /\ policy_clock' = [policy_clock EXCEPT ![t] = 0]
  /\ UNCHANGED <<now, schedule, enabled, multiplier, sampled, tier, effective>>

\* ... then its metrics are collected, and the factor follows them.
Measure(t) ==
  /\ Go(t, "sampling", "multiply")
  /\ \E load \in Loads : Adjust(load)
  /\ UNCHANGED <<now, schedule, enabled, last_sample, samples, policy_clock, tier, effective>>

\* return self._current_multiplier, and the product
Multiply(t) ==
  /\ Go(t, "multiply", "ready")
  /\ effective' = [effective EXCEPT ![t] = Adjusted(tier[t], multiplier)]
  /\ UNCHANGED <<now, policy, policy_clock, tier>>

\* POST /admin/config: update_time_policy, and set_policy
SetPolicy ==
  /\ schedule' \in Schedules \ {schedule}
  /\ UNCHANGED <<now, enabled, multiplier, last_sample, samples, sampled, local>>

\* The call goes on to the algorithm.
HandOver(t) ==
  /\ Go(t, "ready", "none")
  /\ tier' = [tier EXCEPT ![t] = 0]
  /\ effective' = [effective EXCEPT ![t] = 0]
  /\ UNCHANGED <<now, policy, policy_clock>>

PolicyStep(t) == ReadTier(t) \/ CheckInterval(t) \/ Sample(t) \/ Measure(t) \/ Multiply(t)

-----------------------------------------------------------------------------
\* However many calls find the interval over at once, and however late they take the
\* lock, any two samples are an interval apart by the clocks of the calls that took
\* them: the factor cannot be smoothed towards one busy moment by every thread that saw
\* it, after an idle spell no more than under load.
SamplesAreSpaced ==
  \A i, j \in DOMAIN samples : i < j => samples[j] - samples[i] >= Interval

\* An adaptive limiter lets no limit drop to nothing, tightens it only after it has
\* found the machine under more than normal load, and relaxes it only after it has
\* found it under less.
AdjustmentsAreEarned ==
  \A t \in Threads : enabled /\ stage[t] = "ready" =>
    /\ effective[t] >= 1
    /\ effective[t] < tier[t] => sampled \cap {"high", "critical"} # {}
    /\ effective[t] > tier[t] => "low" \in sampled \/ tier[t] = 0

\* A rule is in force from its start until its end comes round, whether or not
\* midnight is in between.
RulesGoRoundTheClock ==
  \A i \in DOMAIN schedule :
    LET rule == schedule[i]
        length == IF rule.start = rule.end THEN Day ELSE (rule.end - rule.start) % Day
    IN  InForce(rule, now % Day) <=> ((now % Day) - rule.start) % Day < length
=============================================================================
