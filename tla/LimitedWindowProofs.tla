------------------------ MODULE LimitedWindowProofs ------------------------
(***************************************************************************)
(* Theorems about a call of check_rate_limit over LimitPolicy and          *)
(* SlidingWindowCounter, for every number of threads, window, sampling     *)
(* interval, set of schedules and limit.  Neither half reads what the      *)
(* other keeps, but for the clock and the limit handed over, so there is   *)
(* one inductive invariant for each: PolicyInv and WindowInv.              *)
(***************************************************************************)
EXTENDS LimitedWindow, FiniteSetTheorems, TLAPS

-----------------------------------------------------------------------------
(***************************************************************************)
(* Numbers.                                                                *)
(***************************************************************************)
LEMMA Division ==
  ASSUME NEW x \in Int, NEW k \in Nat \ {0}
  PROVE  /\ x \div k \in Int /\ x % k \in 0 .. k - 1
         /\ x = k * (x \div k) + (x % k)
         /\ k * (x \div k) <= x /\ x < k * (x \div k) + k
         /\ x >= 0 => x \div k >= 0
  OBVIOUS

\* A remainder, of a number less than a turn away from the first turn.
LEMMA WithinATurn ==
  ASSUME NEW k \in Nat \ {0}, NEW x \in Int, -k < x, x < k
  PROVE  x % k = IF x >= 0 THEN x ELSE x + k
  <1> DEFINE q == x \div k
             r == x % k
  <1>1. q \in Int /\ r \in 0 .. k - 1 /\ x = k * q + r
    BY Division
  <1> HIDE DEF q, r
  <1>2. CASE q >= 1
    <2>1. k * q >= k
      BY <1>1, <1>2
    <2> QED
      BY <2>1, <1>1
  <1>3. CASE q <= -2
    <2>1. k * q <= -2 * k
      BY <1>1, <1>3
    <2> QED
      BY <2>1, <1>1
  <1>4. CASE q = 0
    BY <1>1, <1>4 DEF r
  <1>5. CASE q = -1
    <2>1. k * q = -k
      BY <1>5
    <2> QED
      BY <1>1, <2>1 DEF r
  <1> QED
    BY <1>1, <1>2, <1>3, <1>4, <1>5

\* A set of numbers has a smallest.
LEMMA SmallestExists ==
  ASSUME NEW S \in SUBSET Nat, S # {}
  PROVE  \E i \in S : \A j \in S : i <= j
  <1>1. PICK i \in S : \A j \in S : ~ (<<j, i>> \in OpToRel(<, Nat))
    BY NatLessThanWellFounded, WFMin
  <1>2. OpToRel(<, Nat) = {ss \in Nat \X Nat : ss[1] < ss[2]}
    BY DEF OpToRel
  <1>3. ASSUME NEW j \in S PROVE i <= j
    <2>1. ~ (<<j, i>> \in {ss \in Nat \X Nat : ss[1] < ss[2]})
      BY <1>1, <1>2
    <2> QED
      BY <2>1
  <1> QED
    BY <1>3

-----------------------------------------------------------------------------
(***************************************************************************)
(* The policy.  What is sampled is never later than the clock; the factor  *)
(* has left 1.0 only in a direction that a sample called for.              *)
(***************************************************************************)
SamplingLooksBack ==
  /\ last_sample <= now
  /\ \A t \in Threads : policy_clock[t] <= now
  /\ \A i \in DOMAIN samples : samples[i] <= last_sample
  /\ SamplesAreSpaced

FactorIsEarned ==
  /\ multiplier < 100 => sampled \cap {"high", "critical"} # {}
  /\ multiplier > 100 => "low" \in sampled

PolicyInv ==
  /\ now \in Nat
  /\ Policy!PolicyTypeOK
  /\ SamplingLooksBack
  /\ FactorIsEarned
  /\ AdjustmentsAreEarned

LEMMA SmoothedFacts ==
  ASSUME NEW m \in Nat, NEW load \in Loads
  PROVE  LET s == Policy!Smoothed(m, Policy!Multiplier[load])
         IN  /\ s \in Nat
             /\ m >= 100 /\ load \notin {"high", "critical"} => s >= 100
             /\ m <= 100 /\ load # "low" => s <= 100
  <1> DEFINE f == Policy!Multiplier[load]
  <1>1. /\ f \in {120, 100, 70, 40}
        /\ load \notin {"high", "critical"} => f >= 100
        /\ load # "low" => f <= 100
    BY LoadsAssumption DEF Policy!Multiplier
  <1> HIDE DEF f
  <1>2. /\ (7 * m + 3 * f + 5) \div 10 \in Nat
        /\ m >= 100 /\ f >= 100 => (7 * m + 3 * f + 5) \div 10 >= 100
        /\ m <= 100 /\ f <= 100 => (7 * m + 3 * f + 5) \div 10 <= 100
    BY <1>1
  <1> QED
    BY <1>1, <1>2 DEF Policy!Smoothed, f

LEMMA AdjustedFacts ==
  ASSUME NEW base \in Nat, NEW m \in Nat
  PROVE  /\ Policy!Adjusted(base, m) \in Nat /\ Policy!Adjusted(base, m) >= 1
         /\ m >= 100 => Policy!Adjusted(base, m) >= base
         /\ m <= 100 => Policy!Adjusted(base, m) <= base \/ base = 0
  <1> DEFINE x == base * m
  <1>1. x \in Nat
    OBVIOUS
  <1>2. m >= 100 => x >= base * 100
    OBVIOUS
  <1>3. m <= 100 => x <= base * 100
    OBVIOUS
  <1> HIDE DEF x
  <1>4. /\ x \div 100 \in Nat
        /\ m >= 100 => x \div 100 >= base
        /\ m <= 100 => x \div 100 <= base
    BY <1>1, <1>2, <1>3
  <1>5. Policy!Adjusted(base, m) = IF x \div 100 < 1 THEN 1 ELSE x \div 100
    BY DEF Policy!Adjusted, Policy!Scale, x
  <1> QED
    BY <1>4, <1>5

Rules == [start : 0 .. Day - 1, end : 0 .. Day - 1, limit : Nat]

\* The rule chosen is one of the schedule.
LEMMA TierIsNat ==
  ASSUME schedule \in Schedules, NEW time
  PROVE  Policy!TierAt(time) \in Nat
  <1> DEFINE applying == {i \in DOMAIN schedule : Policy!InForce(schedule[i], time)}
             first == CHOOSE i \in applying : \A j \in applying : i <= j
  <1>1. CASE applying = {}
    BY <1>1, BaseLimitAssumption DEF Policy!TierAt
  <1>2. CASE applying # {}
    <2>1. schedule \in Seq(Rules)
      BY SchedulesAssumption DEF Rules
    <2>2. applying \subseteq DOMAIN schedule /\ DOMAIN schedule \subseteq Nat
      BY <2>1
    <2>3. \E i \in applying : \A j \in applying : i <= j
      <3> HIDE DEF applying
      <3> QED
        BY <1>2, <2>2, SmallestExists
    <2>4. first \in applying
      <3> HIDE DEF applying
      <3> QED
        BY <2>3
    <2>5. first \in DOMAIN schedule
      BY <2>2, <2>4
    <2>6. schedule[first] \in Rules
      <3> HIDE DEF first
      <3> QED
        BY <2>1, <2>5
    <2>7. schedule[first].limit \in Nat
      BY <2>6 DEF Rules
    <2> QED
      BY <1>2, <2>7 DEF Policy!TierAt
  <1> QED
    BY <1>1, <1>2

LEMMA PolicyFacts ==
  ASSUME PolicyInv
  PROVE  /\ now \in Nat /\ schedule \in Schedules /\ enabled \in BOOLEAN
         /\ multiplier \in Nat /\ last_sample \in Int /\ samples \in Seq(Nat)
         /\ \A t \in Threads : policy_clock[t] \in Nat /\ tier[t] \in Nat /\ effective[t] \in Nat
  BY DEF PolicyInv, Policy!PolicyTypeOK

LEMMA PolicyInit == LimitedInit => PolicyInv
  <1> SUFFICES ASSUME LimitedInit PROVE PolicyInv
    OBVIOUS
  <1>1. now = 0
    BY DEF LimitedInit, Init
  <1>2. Policy!PolicyTypeOK
    BY DayAssumption DEF LimitedInit, Policy!PolicyInit, Policy!PolicyTypeOK, Policy!Scale
  <1>3. SamplingLooksBack
    BY <1>1, DayAssumption DEF LimitedInit, Policy!PolicyInit, SamplingLooksBack,
                               SamplesAreSpaced, Policy!SamplesAreSpaced
  <1>4. FactorIsEarned /\ AdjustmentsAreEarned
    BY DEF LimitedInit, Policy!PolicyInit, Policy!Scale, FactorIsEarned,
           AdjustmentsAreEarned, Policy!AdjustmentsAreEarned
  <1> QED
    BY <1>1, <1>2, <1>3, <1>4 DEF PolicyInv

\* Steps that leave the policy alone; the clock may go on.
LEMMA PolicyStutter ==
  ASSUME PolicyInv, UNCHANGED <<policy, local>>, now' \in Nat, now <= now'
  PROVE  PolicyInv'
  <1>1. /\ UNCHANGED <<schedule, enabled, multiplier, last_sample, samples, sampled>>
        /\ UNCHANGED <<stage, policy_clock, tier, effective>>
    BY DEF policy, local
  <1>2. Policy!PolicyTypeOK' /\ FactorIsEarned' /\ AdjustmentsAreEarned'
    BY <1>1 DEF PolicyInv, Policy!PolicyTypeOK, FactorIsEarned, AdjustmentsAreEarned,
                Policy!AdjustmentsAreEarned
  <1>3. SamplingLooksBack'
    <2>1. last_sample <= now' /\ \A t \in Threads : policy_clock[t] <= now'
      BY PolicyFacts DEF PolicyInv, SamplingLooksBack
    <2> QED
      BY <1>1, <2>1 DEF PolicyInv, SamplingLooksBack, SamplesAreSpaced, Policy!SamplesAreSpaced
  <1> QED
    BY <1>2, <1>3 DEF PolicyInv

LEMMA ReadTierInv == \A t \in Threads : PolicyInv /\ Policy!ReadTier(t) => PolicyInv'
  <1> SUFFICES ASSUME NEW t \in Threads, PolicyInv, Policy!ReadTier(t) PROVE PolicyInv'
    OBVIOUS
  <1> DEFINE l == Policy!TierAt(now % Day)
  <1>1. l \in Nat
    BY PolicyFacts, TierIsNat
  <1>2. /\ stage' = [stage EXCEPT ![t] = IF enabled THEN "check" ELSE "ready"]
        /\ tier' = [tier EXCEPT ![t] = l]
        /\ effective' = [effective EXCEPT ![t] = tier'[t]]
        /\ UNCHANGED <<now, schedule, enabled, multiplier, last_sample, samples, sampled, policy_clock>>
    BY DEF Policy!ReadTier, Policy!Go, Policy!policy
  <1> HIDE DEF l
  <1>3. Policy!PolicyTypeOK'
    <2>1. tier'[t] = l /\ tier' \in [Threads -> Nat]
      BY <1>1, <1>2 DEF PolicyInv, Policy!PolicyTypeOK
    <2> QED
      BY <2>1, <1>1, <1>2 DEF PolicyInv, Policy!PolicyTypeOK
  <1>4. SamplingLooksBack' /\ FactorIsEarned'
    BY <1>2 DEF PolicyInv, SamplingLooksBack, FactorIsEarned, SamplesAreSpaced, Policy!SamplesAreSpaced
  <1>5. AdjustmentsAreEarned'
    <2>1. ASSUME NEW u \in Threads, enabled, stage'[u] = "ready"
          PROVE  stage[u] = "ready" /\ effective'[u] = effective[u] /\ tier'[u] = tier[u]
      BY <1>2, <2>1 DEF PolicyInv, Policy!PolicyTypeOK
    <2> QED
      BY <1>2, <2>1 DEF PolicyInv, AdjustmentsAreEarned, Policy!AdjustmentsAreEarned
  <1> QED
    BY <1>2, <1>3, <1>4, <1>5 DEF PolicyInv

LEMMA CheckIntervalInv == \A t \in Threads : PolicyInv /\ Policy!CheckInterval(t) => PolicyInv'
  <1> SUFFICES ASSUME NEW t \in Threads, PolicyInv, Policy!CheckInterval(t) PROVE PolicyInv'
    OBVIOUS
  <1>1. /\ \/ stage' = [stage EXCEPT ![t] = "lock"] /\ policy_clock' = [policy_clock EXCEPT ![t] = now]
           \/ stage' = [stage EXCEPT ![t] = "multiply"] /\ policy_clock' = policy_clock
        /\ UNCHANGED <<now, schedule, enabled, multiplier, last_sample, samples, sampled, tier, effective>>
    BY DEF Policy!CheckInterval, Policy!Go, Policy!policy
  <1>2. Policy!PolicyTypeOK'
    BY <1>1 DEF PolicyInv, Policy!PolicyTypeOK
  <1>3. SamplingLooksBack' /\ FactorIsEarned'
    <2>1. ASSUME NEW u \in Threads PROVE policy_clock'[u] <= now
      <3>1. policy_clock'[u] \in {policy_clock[u], now}
        BY <1>1 DEF PolicyInv, Policy!PolicyTypeOK
      <3> QED
        BY <3>1, PolicyFacts DEF PolicyInv, SamplingLooksBack
    <2> QED
      BY <1>1, <2>1 DEF PolicyInv, SamplingLooksBack, FactorIsEarned, SamplesAreSpaced, Policy!SamplesAreSpaced
  <1>4. AdjustmentsAreEarned'
    <2>1. ASSUME NEW u \in Threads, stage'[u] = "ready" PROVE stage[u] = "ready"
      BY <1>1, <2>1 DEF PolicyInv, Policy!PolicyTypeOK
    <2> QED
      BY <1>1, <2>1 DEF PolicyInv, AdjustmentsAreEarned, Policy!AdjustmentsAreEarned
  <1> QED
    BY <1>1, <1>2, <1>3, <1>4 DEF PolicyInv

\* The step that SamplingLooksBack is for: the interval is over by a reading of the
\* clock that was taken no later than now, and becomes the time of the sample.
LEMMA SampleInv == \A t \in Threads : PolicyInv /\ Policy!Sample(t) => PolicyInv'
  <1> SUFFICES ASSUME NEW t \in Threads, PolicyInv, Policy!Sample(t) PROVE PolicyInv'
    OBVIOUS
  <1> DEFINE c == policy_clock[t]
  <1>1. /\ policy_clock' = [policy_clock EXCEPT ![t] = 0]
        /\ UNCHANGED <<now, schedule, enabled, multiplier, sampled, tier, effective>>
        /\ \/ stage' = [stage EXCEPT ![t] = "sampling"]
           \/ stage' = [stage EXCEPT ![t] = "multiply"]
    BY DEF Policy!Sample, Policy!Go
  <1>2. now \in Nat /\ last_sample \in Int /\ samples \in Seq(Nat) /\ c \in Nat /\ c <= now
    BY PolicyFacts DEF PolicyInv, SamplingLooksBack
  <1>3. last_sample' \in Int /\ last_sample' <= now /\ samples' \in Seq(Nat)
    <2>1. /\ last_sample' \in {last_sample, c}
          /\ samples' \in {samples, Append(samples, c)}
      BY DEF Policy!Sample
    <2>2. Append(samples, c) \in Seq(Nat)
      BY <1>2
    <2> QED
      BY <1>2, <2>1, <2>2 DEF PolicyInv, SamplingLooksBack
  <1>4. Policy!PolicyTypeOK'
    BY <1>1, <1>3 DEF PolicyInv, Policy!PolicyTypeOK
  <1>5. ASSUME NEW u \in Threads PROVE policy_clock'[u] <= now
    <2>1. policy_clock'[u] \in {policy_clock[u], 0}
      BY <1>1 DEF PolicyInv, Policy!PolicyTypeOK
    <2> QED
      BY <1>2, <2>1, PolicyFacts DEF PolicyInv, SamplingLooksBack
  <1>6. /\ \A i \in DOMAIN samples' : samples'[i] <= last_sample'
        /\ SamplesAreSpaced'
    <2>0. /\ \A i \in DOMAIN samples : samples[i] <= last_sample
          /\ \A i, j \in DOMAIN samples : i < j => samples[j] - samples[i] >= Interval
      BY DEF PolicyInv, SamplingLooksBack, SamplesAreSpaced, Policy!SamplesAreSpaced
    <2>1. CASE UNCHANGED <<last_sample, samples>>
      BY <2>0, <2>1 DEF SamplesAreSpaced, Policy!SamplesAreSpaced
    <2>2. CASE c - last_sample >= Interval /\ last_sample' = c /\ samples' = Append(samples, c)
      <3> DEFINE n == Len(samples)
      <3>1. /\ n \in Nat /\ DOMAIN samples = 1 .. n /\ DOMAIN samples' = 1 .. n + 1
            /\ samples'[n + 1] = c
            /\ \A i \in 1 .. n : samples'[i] = samples[i] /\ samples[i] \in Nat
        BY <1>2, <2>2
      <3> HIDE DEF n, c
      <3>2. ASSUME NEW i \in 1 .. n
            PROVE  samples'[i] <= last_sample /\ c - samples'[i] >= Interval
        <4>1. samples'[i] \in Nat /\ samples'[i] <= last_sample
          BY <2>0, <3>1
        <4>2. c - last_sample >= Interval /\ Interval \in Nat /\ c \in Nat /\ last_sample \in Int
          BY <1>2, <2>2, DayAssumption
        <4> QED
          BY <4>1, <4>2
      <3>3. \A i \in 1 .. n + 1 : samples'[i] <= c
        BY <1>2, <3>1, <3>2, DayAssumption
      <3>4. ASSUME NEW i \in 1 .. n + 1, NEW j \in 1 .. n + 1, i < j
            PROVE  samples'[j] - samples'[i] >= Interval
        <4>1. CASE j = n + 1
          BY <3>1, <3>2, <3>4, <4>1
        <4>2. CASE j # n + 1
          BY <2>0, <3>1, <3>4, <4>2
        <4> QED
          BY <4>1, <4>2
      <3> QED
        BY <2>2, <3>1, <3>3, <3>4 DEF SamplesAreSpaced, Policy!SamplesAreSpaced
    <2> QED
      BY <2>1, <2>2 DEF Policy!Sample, Policy!Due
  <1>7. AdjustmentsAreEarned'
    <2>1. ASSUME NEW u \in Threads, stage'[u] = "ready" PROVE stage[u] = "ready"
      BY <1>1, <2>1 DEF PolicyInv, Policy!PolicyTypeOK
    <2> QED
      BY <1>1, <2>1 DEF PolicyInv, AdjustmentsAreEarned, Policy!AdjustmentsAreEarned
  <1>8. SamplingLooksBack' /\ FactorIsEarned'
    BY <1>1, <1>3, <1>5, <1>6 DEF PolicyInv, SamplingLooksBack, FactorIsEarned
  <1> QED
    BY <1>1, <1>2, <1>4, <1>7, <1>8 DEF PolicyInv

\* The factor moves only towards what the load calls for.
LEMMA MeasureInv == \A t \in Threads : PolicyInv /\ Policy!Measure(t) => PolicyInv'
  <1> SUFFICES ASSUME NEW t \in Threads, PolicyInv, Policy!Measure(t) PROVE PolicyInv'
    OBVIOUS
  <1>1. /\ stage' = [stage EXCEPT ![t] = "multiply"]
        /\ UNCHANGED <<now, schedule, enabled, last_sample, samples, policy_clock, tier, effective>>
    BY DEF Policy!Measure, Policy!Go
  <1>2. PICK load \in Loads : Policy!Adjust(load)
    BY DEF Policy!Measure
  <1>3. /\ multiplier' = Policy!Smoothed(multiplier, Policy!Multiplier[load])
        /\ sampled' = sampled \cup {load}
    BY <1>2 DEF Policy!Adjust
  <1>4. /\ multiplier \in Nat /\ multiplier' \in Nat
        /\ multiplier >= 100 /\ load \notin {"high", "critical"} => multiplier' >= 100
        /\ multiplier <= 100 /\ load # "low" => multiplier' <= 100
    BY <1>3, PolicyFacts, SmoothedFacts
  <1>5. Policy!PolicyTypeOK'
    BY <1>1, <1>3, <1>4 DEF PolicyInv, Policy!PolicyTypeOK
  <1>6. SamplingLooksBack'
    BY <1>1 DEF PolicyInv, SamplingLooksBack, SamplesAreSpaced, Policy!SamplesAreSpaced
  <1>7. FactorIsEarned'
    BY <1>3, <1>4 DEF PolicyInv, FactorIsEarned
  <1>8. AdjustmentsAreEarned'
    <2>1. ASSUME NEW u \in Threads, stage'[u] = "ready" PROVE stage[u] = "ready"
      BY <1>1, <2>1 DEF PolicyInv, Policy!PolicyTypeOK
    <2> QED
      BY <1>1, <1>3, <2>1 DEF PolicyInv, AdjustmentsAreEarned, Policy!AdjustmentsAreEarned
  <1> QED
    BY <1>1, <1>5, <1>6, <1>7, <1>8, PolicyFacts DEF PolicyInv

\* The product is smaller than the tier only if the factor is less than one, and greater
\* only if it is more than one or the tier is nothing.
LEMMA MultiplyInv == \A t \in Threads : PolicyInv /\ Policy!Multiply(t) => PolicyInv'
  <1> SUFFICES ASSUME NEW t \in Threads, PolicyInv, Policy!Multiply(t) PROVE PolicyInv'
    OBVIOUS
  <1> DEFINE l == Policy!Adjusted(tier[t], multiplier)
  <1>1. /\ stage' = [stage EXCEPT ![t] = "ready"]
        /\ effective' = [effective EXCEPT ![t] = l]
        /\ UNCHANGED <<now, schedule, enabled, multiplier, last_sample, samples, sampled, policy_clock, tier>>
    BY DEF Policy!Multiply, Policy!Go, Policy!policy
  <1>2. /\ l \in Nat /\ l >= 1
        /\ multiplier >= 100 => l >= tier[t]
        /\ multiplier <= 100 => l <= tier[t] \/ tier[t] = 0
        /\ multiplier \in Nat /\ tier[t] \in Nat
    BY PolicyFacts, AdjustedFacts
  <1> HIDE DEF l
  <1>3. Policy!PolicyTypeOK'
    BY <1>1, <1>2 DEF PolicyInv, Policy!PolicyTypeOK
  <1>4. SamplingLooksBack' /\ FactorIsEarned'
    BY <1>1 DEF PolicyInv, SamplingLooksBack, FactorIsEarned, SamplesAreSpaced, Policy!SamplesAreSpaced
  <1>5. AdjustmentsAreEarned'
    <2>1. ASSUME NEW u \in Threads, u # t
          PROVE  stage'[u] = stage[u] /\ effective'[u] = effective[u]
      BY <1>1, <2>1 DEF PolicyInv, Policy!PolicyTypeOK
    <2>2. effective'[t] = l
      BY <1>1 DEF PolicyInv, Policy!PolicyTypeOK
    <2>3. /\ l < tier[t] => sampled \cap {"high", "critical"} # {}
          /\ l > tier[t] => "low" \in sampled \/ tier[t] = 0
      BY <1>2 DEF PolicyInv, FactorIsEarned
    <2> QED
      BY <1>1, <1>2, <2>1, <2>2, <2>3 DEF PolicyInv, AdjustmentsAreEarned, Policy!AdjustmentsAreEarned
  <1> QED
    BY <1>1, <1>3, <1>4, <1>5 DEF PolicyInv

LEMMA SetPolicyInv == PolicyInv /\ Policy!SetPolicy => PolicyInv'
  <1> SUFFICES ASSUME PolicyInv, Policy!SetPolicy PROVE PolicyInv'
    OBVIOUS
  <1>1. /\ schedule' \in Schedules
        /\ UNCHANGED <<now, enabled, multiplier, last_sample, samples, sampled>>
        /\ UNCHANGED <<stage, policy_clock, tier, effective>>
    BY DEF Policy!SetPolicy, Policy!local
  <1> QED
    BY <1>1 DEF PolicyInv, Policy!PolicyTypeOK, SamplingLooksBack, SamplesAreSpaced,
                Policy!SamplesAreSpaced, FactorIsEarned, AdjustmentsAreEarned, Policy!AdjustmentsAreEarned

LEMMA HandOverInv == \A t \in Threads : PolicyInv /\ Policy!HandOver(t) => PolicyInv'
  <1> SUFFICES ASSUME NEW t \in Threads, PolicyInv, Policy!HandOver(t) PROVE PolicyInv'
    OBVIOUS
  <1>1. /\ stage' = [stage EXCEPT ![t] = "none"]
        /\ tier' = [tier EXCEPT ![t] = 0] /\ effective' = [effective EXCEPT ![t] = 0]
        /\ UNCHANGED <<now, schedule, enabled, multiplier, last_sample, samples, sampled, policy_clock>>
    BY DEF Policy!HandOver, Policy!Go, Policy!policy
  <1>2. Policy!PolicyTypeOK'
    BY <1>1 DEF PolicyInv, Policy!PolicyTypeOK
  <1>3. SamplingLooksBack' /\ FactorIsEarned'
    BY <1>1 DEF PolicyInv, SamplingLooksBack, FactorIsEarned, SamplesAreSpaced, Policy!SamplesAreSpaced
  <1>4. AdjustmentsAreEarned'
    <2>1. ASSUME NEW u \in Threads, stage'[u] = "ready"
          PROVE  stage[u] = "ready" /\ effective'[u] = effective[u] /\ tier'[u] = tier[u]
      BY <1>1, <2>1 DEF PolicyInv, Policy!PolicyTypeOK
    <2> QED
      BY <1>1, <2>1 DEF PolicyInv, AdjustmentsAreEarned, Policy!AdjustmentsAreEarned
  <1> QED
    BY <1>1, <1>2, <1>3, <1>4 DEF PolicyInv

\* The clock goes on, or nothing of the policy changes but in its own steps.
LEMMA PolicyStepInv == PolicyInv /\ [LimitedNext]_limited_vars => PolicyInv'
  <1> SUFFICES ASSUME PolicyInv, [LimitedNext]_limited_vars PROVE PolicyInv'
    OBVIOUS
  <1>1. CASE UNCHANGED limited_vars
    BY <1>1, PolicyStutter, PolicyFacts DEF limited_vars, vars
  <1>2. CASE TimePasses
    BY <1>2, PolicyStutter, PolicyFacts DEF TimePasses, Tick
  <1>3. CASE Administrator
    <2>1. CASE Clear /\ UNCHANGED <<policy, local>>
      BY <2>1, PolicyStutter, PolicyFacts DEF Clear
    <2> QED
      BY <1>3, <2>1, SetPolicyInv DEF Administrator
  <1>4. ASSUME NEW t \in Threads, PolicyStep(t) PROVE PolicyInv'
    BY <1>4, ReadTierInv, CheckIntervalInv, SampleInv, MeasureInv, MultiplyInv DEF PolicyStep, Policy!PolicyStep
  <1>5. ASSUME NEW t \in Threads, AllowRequest(t) PROVE PolicyInv'
    BY <1>5, HandOverInv DEF AllowRequest
  <1>6. ASSUME NEW t \in Threads, WindowStep(t) PROVE PolicyInv'
    <2>1. now' = now /\ UNCHANGED <<policy, local>>
      BY <1>6 DEF WindowStep, CallStep, GetCurrent, GetPreviousAndDecide, IncrementCurrent
    <2> QED
      BY <2>1, PolicyStutter, PolicyFacts
  <1> QED
    BY <1>1, <1>2, <1>3, <1>4, <1>5, <1>6 DEF LimitedNext

LEMMA PolicyInvariance == LimitedSpec => []PolicyInv
  BY PolicyInit, PolicyStepInv, PTL DEF LimitedSpec

\* Any two samples of the load are an interval apart by the clocks of the calls that
\* took them, however many found the interval over and however late they took the lock.
THEOREM SamplesSpaced == LimitedSpec => []SamplesAreSpaced
  <1>1. PolicyInv => SamplesAreSpaced
    BY DEF PolicyInv, SamplingLooksBack
  <1> QED
    BY <1>1, PolicyInvariance, PTL

\* The adaptive limiter tightens a limit only after a sample under more than normal
\* load, relaxes it only after one under less, and never lets it drop to nothing.
THEOREM AdjustmentsEarned == LimitedSpec => []AdjustmentsAreEarned
  <1>1. PolicyInv => AdjustmentsAreEarned
    BY DEF PolicyInv
  <1> QED
    BY <1>1, PolicyInvariance, PTL

\* The three comparisons of get_effective_limit say that a rule is in force from its
\* start until its end comes round, for every length of day and every rule.
THEOREM RulesRoundTheClock == LimitedSpec => []RulesGoRoundTheClock
  <1>1. PolicyInv => RulesGoRoundTheClock
    <2> SUFFICES ASSUME PolicyInv, NEW i \in DOMAIN schedule
                 PROVE  LET rule == schedule[i]
                            length == IF rule.start = rule.end THEN Day ELSE (rule.end - rule.start) % Day
                        IN  Policy!InForce(rule, now % Day) <=> ((now % Day) - rule.start) % Day < length
      BY DEF RulesGoRoundTheClock, Policy!RulesGoRoundTheClock
    <2> DEFINE rule == schedule[i]
               a == rule.start
               b == rule.end
               x == now % Day
    <2>1. rule \in Rules
      <3>1. schedule \in Seq(Rules)
        BY PolicyFacts, SchedulesAssumption DEF Rules
      <3> QED
        BY <3>1
    <2>2. a \in 0 .. Day - 1 /\ b \in 0 .. Day - 1
      BY <2>1 DEF Rules
    <2>3. x \in 0 .. Day - 1
      <3>1. now \in Int /\ Day \in Nat \ {0}
        BY DayAssumption DEF PolicyInv
      <3> QED
        BY <3>1, Division
    <2>4. Policy!InForce(rule, x) <=>
            \/ a < b /\ a <= x /\ x < b
            \/ a > b /\ (x >= a \/ x < b)
            \/ a = b
      BY DEF Policy!InForce
    <2> HIDE DEF rule, a, b, x
    <2>5. (x - a) % Day = (IF x - a >= 0 THEN x - a ELSE x - a + Day)
      <3>1. x - a \in Int /\ -Day < x - a /\ x - a < Day
        BY <2>2, <2>3, DayAssumption
      <3> QED
        BY <3>1, WithinATurn, DayAssumption
    <2>6. (b - a) % Day = (IF b - a >= 0 THEN b - a ELSE b - a + Day)
      <3>1. b - a \in Int /\ -Day < b - a /\ b - a < Day
        BY <2>2, DayAssumption
      <3> QED
        BY <3>1, WithinATurn, DayAssumption
    <2>7. Policy!InForce(rule, x) <=> (x - a) % Day < (IF a = b THEN Day ELSE (b - a) % Day)
      BY <2>2, <2>3, <2>4, <2>5, <2>6, DayAssumption
    <2> QED
      BY <2>7 DEF rule, a, b, x
  <1> QED
    BY <1>1, PolicyInvariance, PTL

-----------------------------------------------------------------------------
(***************************************************************************)
(* The sliding window.  A thread that has read the count of window w, and  *)
(* read less than n, may still be admitted with a limit of up to n; a      *)
(* thread that reads the count once n have been admitted may not.  So      *)
(* beyond n the threads that read in time are all there is to come, each   *)
(* once, and the one that was admitted n-th is not among them.             *)
(***************************************************************************)
StaleReaders(w, n) ==
  {t \in Threads : /\ pc[t] \in {"previous", "increment"} /\ CurrentWindow(t) = w
                   /\ current_count[t] < n}

\* No call is ahead of the clock, and one that was admitted read less than its limit.
CallsAreSound ==
  \A t \in Threads :
    /\ clock[t] <= now
    /\ pc[t] = "increment" => current_count[t] < limit[t]

\* As in FixedWindow: nobody charges a window before it begins, so its entry lasts
\* until it ends ...
EntryOutlivesItsWindow ==
  \A w \in Windows : counters[w] # Missing => counters[w].expires_at >= (w + 1) * Window

\* ... and holds all that was charged on time.
EntryCountsTheWindow ==
  \A w \in Windows : WindowOf(now) <= w =>
    /\ counters[w] = Missing => on_time[w] = 0
    /\ on_time[w] <= counters[w].count

\* What a counter shows was charged.
CountsAreCharged ==
  /\ \A w \in Windows : counters[w].count <= charged[w]
  /\ \A t \in Threads : pc[t] = "previous" => current_count[t] <= charged[CurrentWindow(t)]

\* Beyond n, for n no smaller than the limits so far, there is room for the stale.
StaleReadersFit ==
  \A w \in Windows : \A n \in Nat :
    WindowOf(now) <= w /\ largest[w] <= n /\ n <= on_time[w] =>
      on_time[w] + Cardinality(StaleReaders(w, n)) <= n + Cardinality(Threads) - 1

WindowInv ==
  /\ TypeOK
  /\ CallsAreSound
  /\ EntryOutlivesItsWindow
  /\ EntryCountsTheWindow
  /\ CountsAreCharged
  /\ StaleReadersFit
  /\ OvershootBoundedByThreads

\* Integer division: a time lies in the window it is mapped to, and a later time in the
\* same window or in a later one.
LEMMA WindowContains ==
  ASSUME NEW t \in Nat
  PROVE  /\ WindowOf(t) \in Nat
         /\ WindowOf(t) * Window <= t
         /\ t < (WindowOf(t) + 1) * Window
  <1> DEFINE q == t \div Window
  <1>1. q \in Int /\ q >= 0 /\ Window * q <= t /\ t < Window * q + Window
    BY Division, WindowAssumption
  <1> HIDE DEF q
  <1>2. q * Window <= t /\ t < (q + 1) * Window
    BY <1>1, WindowAssumption
  <1> QED
    BY <1>1, <1>2 DEF WindowOf, q

LEMMA WindowMonotone ==
  ASSUME NEW s \in Nat, NEW t \in Nat, s <= t
  PROVE  WindowOf(s) <= WindowOf(t)
  <1>1. /\ WindowOf(s) \in Nat /\ WindowOf(s) * Window <= s
        /\ WindowOf(t) \in Nat /\ t < (WindowOf(t) + 1) * Window
    BY WindowContains
  <1>2. SUFFICES ASSUME WindowOf(t) + 1 <= WindowOf(s) PROVE FALSE
    BY <1>1
  <1>3. (WindowOf(t) + 1) * Window <= WindowOf(s) * Window
    BY <1>1, <1>2, WindowAssumption
  <1> QED
    BY <1>1, <1>3, WindowAssumption

LEMMA WindowsFacts ==
  /\ Windows \subseteq Int
  /\ \A t \in Times : t \in Nat /\ WindowOf(t) \in Windows /\ WindowOf(t) - 1 \in Windows
  <1>1. MaxTime \in Nat /\ WindowOf(MaxTime) \in Nat
    BY BoundsAssumption, WindowContains
  <1>2. ASSUME NEW t \in Times
        PROVE  t \in Nat /\ WindowOf(t) \in Nat /\ WindowOf(t) <= WindowOf(MaxTime)
    <2>1. t \in Nat /\ t <= MaxTime
      BY <1>1 DEF Times
    <2> QED
      BY <2>1, <1>1, WindowContains, WindowMonotone
  <1> QED
    BY <1>1, <1>2 DEF Windows

\* The weights of the estimate: what has elapsed is less than a window.
LEMMA ElapsedFacts ==
  ASSUME NEW t \in Threads, clock[t] \in Nat
  PROVE  Elapsed(t) \in 0 .. Window - 1
  <1> DEFINE c == clock[t]
             q == WindowOf(c)
             x == q * Window
  <1>1. q \in Nat /\ x <= c /\ c < (q + 1) * Window
    BY WindowContains
  <1>2. (q + 1) * Window = x + Window /\ x \in Nat
    BY <1>1, WindowAssumption
  <1>3. Elapsed(t) = c - x
    BY DEF Elapsed, CurrentWindow
  <1> HIDE DEF c, q, x
  <1> QED
    BY <1>1, <1>2, <1>3, WindowAssumption DEF c

LEMMA StaleReadersFinite ==
  ASSUME NEW w, NEW n
  PROVE  /\ IsFiniteSet(StaleReaders(w, n)) /\ Cardinality(StaleReaders(w, n)) \in Nat
         /\ Cardinality(Threads) \in Nat /\ Cardinality(Threads) >= 1
         /\ Cardinality(StaleReaders(w, n)) <= Cardinality(Threads)
  <1>1. StaleReaders(w, n) \in SUBSET Threads
    BY DEF StaleReaders
  <1>2. IsFiniteSet(Threads) /\ Threads # {}
    BY ThreadsAssumption
  <1>3. /\ IsFiniteSet(StaleReaders(w, n))
        /\ Cardinality(StaleReaders(w, n)) <= Cardinality(Threads)
    BY <1>1, <1>2, FS_Subset
  <1>4. Cardinality(Threads) \in Nat /\ Cardinality(StaleReaders(w, n)) \in Nat
    BY <1>2, <1>3, FS_CardinalityType
  <1>5. Cardinality(Threads) # 0
    BY <1>2, FS_EmptySet
  <1> QED
    BY <1>3, <1>4, <1>5

\* What WindowInv says of the threads.
LEMMA CallFacts ==
  ASSUME WindowInv, NEW t \in Threads
  PROVE  /\ now \in Nat /\ now \in Times /\ clock[t] \in Times /\ clock[t] \in Nat /\ clock[t] <= now
         /\ CurrentWindow(t) \in Nat /\ CurrentWindow(t) \in Windows
         /\ PreviousWindow(t) \in Windows /\ PreviousWindow(t) \in Int
         /\ PreviousWindow(t) = CurrentWindow(t) - 1
         /\ CurrentWindow(t) <= WindowOf(now) /\ WindowOf(now) \in Nat
         /\ CurrentWindow(t) * Window <= now
         /\ limit[t] \in Nat /\ current_count[t] \in Nat
  <1>1. now \in Times /\ clock[t] \in Times /\ clock[t] <= now
        /\ limit[t] \in Nat /\ current_count[t] \in Nat
    BY DEF WindowInv, TypeOK, CallsAreSound
  <1>2. now \in Nat /\ clock[t] \in Nat
    BY <1>1, WindowsFacts
  <1>3. /\ CurrentWindow(t) \in Nat /\ WindowOf(now) \in Nat /\ CurrentWindow(t) <= WindowOf(now)
        /\ CurrentWindow(t) * Window <= clock[t]
    BY <1>1, <1>2, WindowContains, WindowMonotone DEF CurrentWindow
  <1>4. CurrentWindow(t) \in Windows /\ PreviousWindow(t) \in Windows
    BY <1>1, WindowsFacts DEF CurrentWindow, PreviousWindow
  <1>5. CurrentWindow(t) * Window <= now
    <2> DEFINE x == CurrentWindow(t) * Window
    <2>1. x \in Nat /\ x <= clock[t]
      BY <1>3, WindowAssumption
    <2> HIDE DEF x
    <2>2. x <= now
      BY <2>1, <1>1, <1>2
    <2> QED
      BY <2>2 DEF x
  <1> QED
    BY <1>1, <1>2, <1>3, <1>4, <1>5 DEF PreviousWindow

\* Threads that leave the stale readers leave room.
LEMMA FewerThreads ==
  ASSUME NEW A \in SUBSET Threads, NEW B \in SUBSET Threads, A \subseteq B
  PROVE  /\ Cardinality(A) \in Nat /\ Cardinality(B) \in Nat
         /\ Cardinality(A) <= Cardinality(B)
         /\ \A t \in B : t \notin A => Cardinality(A) <= Cardinality(B) - 1
  <1>1. IsFiniteSet(A) /\ IsFiniteSet(B)
    BY ThreadsAssumption, FS_Subset
  <1>2. Cardinality(A) \in Nat /\ Cardinality(B) \in Nat /\ Cardinality(A) <= Cardinality(B)
    BY <1>1, FS_Subset, FS_CardinalityType
  <1>3. ASSUME NEW t \in B, t \notin A PROVE Cardinality(A) <= Cardinality(B) - 1
    <2>1. IsFiniteSet(B \ {t}) /\ Cardinality(B \ {t}) = Cardinality(B) - 1
      BY <1>1, FS_RemoveElement
    <2>2. A \in SUBSET (B \ {t})
      BY <1>3
    <2>3. Cardinality(A) <= Cardinality(B \ {t})
      BY <2>1, <2>2, FS_Subset
    <2> QED
      BY <2>1, <2>3
  <1> QED
    BY <1>2, <1>3

\* While a window lasts its entry is live, and shows what it was charged on time.
LEMMA LiveWhileItLasts ==
  ASSUME WindowInv, NEW w \in Windows, WindowOf(now) <= w
  PROVE  /\ counters[w] # Missing => Live(counters[w], now)
         /\ AfterRead(counters[w], now) = counters[w]
         /\ on_time[w] <= ValueAt(counters[w], now)
  <1>1. now \in Nat /\ counters[w] \in Counter /\ on_time[w] \in Nat /\ w \in Int
    BY WindowsFacts DEF WindowInv, TypeOK
  <1>2. ASSUME counters[w] # Missing PROVE Live(counters[w], now)
    <2>1. now < (WindowOf(now) + 1) * Window /\ WindowOf(now) \in Nat
      BY <1>1, WindowContains
    <2>2. (WindowOf(now) + 1) * Window <= (w + 1) * Window
      BY <1>1, <2>1, WindowAssumption
    <2>3. (w + 1) * Window <= counters[w].expires_at /\ counters[w].expires_at \in Nat
      BY <1>1, <1>2 DEF WindowInv, EntryOutlivesItsWindow, Counter
    <2>4. (w + 1) * Window \in Int /\ (WindowOf(now) + 1) * Window \in Int
      BY <1>1, <2>1, WindowAssumption
    <2> QED
      BY <1>1, <2>1, <2>2, <2>3, <2>4 DEF Live
  <1>3. /\ counters[w] = Missing => on_time[w] = 0
        /\ on_time[w] <= counters[w].count
    BY DEF WindowInv, EntryCountsTheWindow
  <1> QED
    BY <1>1, <1>2, <1>3 DEF AfterRead, ValueAt, Missing, Counter

\* What a read of an entry does to the store.
LEMMA ReadKeepsEntries ==
  ASSUME WindowInv, NEW v \in Windows, UNCHANGED <<now, on_time, charged>>,
         counters' = [counters EXCEPT ![v] = AfterRead(@, now)]
  PROVE  /\ counters' \in [Windows -> Counter]
         /\ EntryOutlivesItsWindow' /\ EntryCountsTheWindow'
         /\ \A w \in Windows : counters'[w].count <= charged'[w]
  <1>1. \A w \in Windows : counters[w] \in Counter /\ charged[w] \in Nat
    BY DEF WindowInv, TypeOK
  <1>2. ASSUME NEW w \in Windows
        PROVE  /\ counters'[w] \in {counters[w], Missing}
               /\ WindowOf(now) <= w => counters'[w] = counters[w]
    <2>1. CASE w = v
      BY <2>1, LiveWhileItLasts DEF WindowInv, TypeOK, AfterRead
    <2>2. CASE w # v
      BY <2>2 DEF WindowInv, TypeOK
    <2> QED
      BY <2>1, <2>2
  <1>3. counters' \in [Windows -> Counter]
    <2>1. AfterRead(counters[v], now) \in Counter
      BY <1>1 DEF AfterRead, Missing, Counter
    <2> QED
      BY <2>1 DEF WindowInv, TypeOK
  <1>4. EntryOutlivesItsWindow' /\ EntryCountsTheWindow'
    BY <1>2 DEF WindowInv, EntryOutlivesItsWindow, EntryCountsTheWindow
  <1>5. ASSUME NEW w \in Windows PROVE counters'[w].count <= charged'[w]
    <2>1. counters[w].count <= charged[w]
      BY DEF WindowInv, CountsAreCharged
    <2> QED
      BY <1>1, <1>2, <2>1 DEF Missing
  <1> QED
    BY <1>3, <1>4, <1>5

\* Steps that charge nothing and leave the stale readers as they are, or fewer.
LEMMA NothingCharged ==
  ASSUME WindowInv, UNCHANGED <<on_time, largest>>, now' \in Nat, now <= now',
         \A w \in Windows, n \in Nat :
           WindowOf(now) <= w /\ n <= on_time[w] => StaleReaders(w, n)' \subseteq StaleReaders(w, n)
  PROVE  StaleReadersFit' /\ OvershootBoundedByThreads'
  <1>1. now \in Nat
    BY WindowsFacts DEF WindowInv, TypeOK
  <1>2. ASSUME NEW w \in Windows, NEW n \in Nat,
               WindowOf(now') <= w, largest'[w] <= n, n <= on_time'[w]
        PROVE  on_time'[w] + Cardinality(StaleReaders(w, n)') <= n + Cardinality(Threads) - 1
    <2>1. WindowOf(now) <= w
      <3>1. WindowOf(now) <= WindowOf(now') /\ WindowOf(now) \in Int /\ WindowOf(now') \in Int
        BY <1>1, WindowContains, WindowMonotone
      <3> QED
        BY <1>2, <3>1, WindowsFacts
    <2>2. on_time[w] + Cardinality(StaleReaders(w, n)) <= n + Cardinality(Threads) - 1
      BY <1>2, <2>1 DEF WindowInv, StaleReadersFit
    <2>3. Cardinality(StaleReaders(w, n)') <= Cardinality(StaleReaders(w, n))
          /\ Cardinality(StaleReaders(w, n)') \in Nat /\ Cardinality(StaleReaders(w, n)) \in Nat
      <3>1. StaleReaders(w, n) \in SUBSET Threads /\ StaleReaders(w, n)' \in SUBSET Threads
        BY DEF StaleReaders
      <3>2. StaleReaders(w, n)' \subseteq StaleReaders(w, n)
        BY <1>2, <2>1
      <3> HIDE DEF StaleReaders
      <3> QED
        BY <3>1, <3>2, FewerThreads
    <2>4. Cardinality(Threads) \in Nat /\ on_time[w] \in Nat
      BY ThreadsAssumption, FS_CardinalityType DEF WindowInv, TypeOK
    <2> QED
      BY <2>2, <2>3, <2>4
  <1>3. OvershootBoundedByThreads'
    BY DEF WindowInv, OvershootBoundedByThreads
  <1> QED
    BY <1>2, <1>3 DEF StaleReadersFit

-----------------------------------------------------------------------------
LEMMA WindowInit == LimitedInit => WindowInv
  <1> SUFFICES ASSUME Init PROVE WindowInv
    BY DEF LimitedInit
  <1>1. 0 \in Times
    BY BoundsAssumption DEF Times
  <1>2. TypeOK
    BY <1>1, BoundsAssumption DEF Init, TypeOK, Missing, Counter
  <1>3. CallsAreSound /\ EntryOutlivesItsWindow /\ CountsAreCharged
    BY DEF Init, CallsAreSound, EntryOutlivesItsWindow, CountsAreCharged, Missing
  <1>4. EntryCountsTheWindow
    BY DEF Init, EntryCountsTheWindow, Missing
  <1>5. ASSUME NEW w \in Windows, NEW n \in Nat
        PROVE  StaleReaders(w, n) = {}
    BY DEF Init, StaleReaders
  <1>6. StaleReadersFit /\ OvershootBoundedByThreads
    <2>1. /\ Cardinality(Threads) \in Nat /\ Cardinality(Threads) >= 1 /\ Cardinality({}) = 0
      BY StaleReadersFinite, FS_EmptySet
    <2> QED
      BY <1>5, <2>1 DEF Init, StaleReadersFit, OvershootBoundedByThreads
  <1> QED
    BY <1>2, <1>3, <1>4, <1>6 DEF WindowInv

LEMMA WindowStutter == WindowInv /\ UNCHANGED vars => WindowInv'
  BY DEF vars, calls, counts, WindowInv, TypeOK, CallsAreSound, EntryOutlivesItsWindow, EntryCountsTheWindow,
         CountsAreCharged, StaleReadersFit, StaleReaders, CurrentWindow, OvershootBoundedByThreads

LEMMA TickInv == WindowInv /\ Tick => WindowInv'
  <1> SUFFICES ASSUME WindowInv, Tick PROVE WindowInv'
    OBVIOUS
  <1>1. now \in Nat /\ now' = now + 1 /\ now' \in Nat /\ now' \in Times /\ now <= now'
    BY BoundsAssumption DEF WindowInv, TypeOK, Tick, Times
  <1>2. UNCHANGED <<counters, pc, clock, limit, current_count, requests, charged, on_time, largest>>
    BY DEF Tick, calls, counts
  <1>3. WindowOf(now) <= WindowOf(now') /\ WindowOf(now) \in Int /\ WindowOf(now') \in Int
    BY <1>1, WindowContains, WindowMonotone
  <1>4. TypeOK'
    BY <1>1, <1>2 DEF WindowInv, TypeOK
  <1>5. CallsAreSound'
    <2>1. ASSUME NEW t \in Threads PROVE clock[t] <= now'
      BY <1>1, CallFacts
    <2> QED
      BY <1>2, <2>1 DEF WindowInv, CallsAreSound
  <1>6. EntryOutlivesItsWindow' /\ CountsAreCharged'
    BY <1>2 DEF WindowInv, EntryOutlivesItsWindow, CountsAreCharged, CurrentWindow
  <1>7. EntryCountsTheWindow'
    <2>1. ASSUME NEW w \in Windows, WindowOf(now') <= w PROVE WindowOf(now) <= w
      BY <1>3, <2>1, WindowsFacts
    <2> QED
      BY <1>2, <2>1 DEF WindowInv, EntryCountsTheWindow
  <1>8. StaleReadersFit' /\ OvershootBoundedByThreads'
    <2>1. \A w \in Windows, n \in Nat : StaleReaders(w, n)' \subseteq StaleReaders(w, n)
      BY <1>2 DEF StaleReaders, CurrentWindow
    <2> QED
      BY <1>1, <1>2, <2>1, NothingCharged
  <1> QED
    BY <1>4, <1>5, <1>6, <1>7, <1>8 DEF WindowInv

\* A reset empties the store; nobody has read less than nothing.
LEMMA ClearInv == WindowInv /\ Clear => WindowInv'
  <1> SUFFICES ASSUME WindowInv, Clear PROVE WindowInv'
    OBVIOUS
  <1>1. /\ counters' = [w \in Windows |-> Missing] /\ on_time' = [w \in Windows |-> 0]
        /\ UNCHANGED <<now, pc, clock, limit, current_count, requests, charged, largest>>
    BY DEF Clear, calls
  <1>2. TypeOK'
    BY <1>1 DEF WindowInv, TypeOK, Missing, Counter
  <1>3. CallsAreSound' /\ EntryOutlivesItsWindow'
    BY <1>1 DEF WindowInv, CallsAreSound, EntryOutlivesItsWindow
  <1>4. EntryCountsTheWindow'
    BY <1>1 DEF EntryCountsTheWindow, Missing
  <1>5. CountsAreCharged'
    BY <1>1 DEF WindowInv, TypeOK, CountsAreCharged, CurrentWindow, Missing
  <1>6. Cardinality(Threads) \in Nat /\ Cardinality(Threads) >= 1 /\ Cardinality({}) = 0
    BY StaleReadersFinite, FS_EmptySet
  <1>7. OvershootBoundedByThreads'
    BY <1>1, <1>6 DEF WindowInv, TypeOK, OvershootBoundedByThreads
  <1>8. StaleReadersFit'
    <2>1. ASSUME NEW w \in Windows, NEW n \in Nat, n <= on_time'[w]
          PROVE  n = 0 /\ on_time'[w] = 0 /\ StaleReaders(w, n)' = {}
      BY <1>1, <2>1 DEF StaleReaders, WindowInv, TypeOK
    <2> QED
      BY <1>6, <2>1 DEF StaleReadersFit
  <1> QED
    BY <1>2, <1>3, <1>4, <1>5, <1>7, <1>8 DEF WindowInv

LEMMA BeginInv == \A t \in Threads : \A l \in Nat : WindowInv /\ Begin(t, l) => WindowInv'
  <1> SUFFICES ASSUME NEW t \in Threads, NEW l \in Nat, WindowInv, Begin(t, l) PROVE WindowInv'
    OBVIOUS
  <1>1. /\ pc[t] = "idle" /\ pc' = [pc EXCEPT ![t] = "current"]
        /\ requests < MaxRequests /\ requests' = requests + 1
        /\ clock' = [clock EXCEPT ![t] = now] /\ limit' = [limit EXCEPT ![t] = l]
        /\ current_count' = [current_count EXCEPT ![t] = 0]
        /\ UNCHANGED <<now, counters, charged, on_time, largest>>
    BY DEF Begin, Move, Locals, counts
  <1>2. TypeOK'
    BY <1>1, BoundsAssumption DEF WindowInv, TypeOK
  <1>3. now \in Nat /\ pc'[t] = "current"
    BY <1>1, CallFacts DEF WindowInv, TypeOK
  <1>4. ASSUME NEW u \in Threads, u # t
        PROVE  /\ pc'[u] = pc[u] /\ clock'[u] = clock[u] /\ limit'[u] = limit[u]
               /\ current_count'[u] = current_count[u]
    BY <1>1, <1>4 DEF WindowInv, TypeOK
  <1>5. CallsAreSound'
    <2>1. clock'[t] = now
      BY <1>1 DEF WindowInv, TypeOK
    <2> QED
      BY <1>1, <1>3, <1>4, <2>1 DEF WindowInv, CallsAreSound
  <1>6. EntryOutlivesItsWindow' /\ EntryCountsTheWindow' /\ CountsAreCharged'
    BY <1>1, <1>3, <1>4
    DEF WindowInv, EntryOutlivesItsWindow, EntryCountsTheWindow, CountsAreCharged, CurrentWindow
  <1>7. StaleReadersFit' /\ OvershootBoundedByThreads'
    <2>1. \A w \in Windows, n \in Nat : StaleReaders(w, n)' \subseteq StaleReaders(w, n)
      BY <1>3, <1>4 DEF StaleReaders, CurrentWindow
    <2> QED
      BY <1>1, <1>3, <2>1, NothingCharged
  <1> QED
    BY <1>2, <1>5, <1>6, <1>7 DEF WindowInv

\* A count read while the window lasts is no less than what it admitted.
LEMMA GetCurrentInv == \A t \in Threads : WindowInv /\ GetCurrent(t) => WindowInv'
  <1> SUFFICES ASSUME NEW t \in Threads, WindowInv, GetCurrent(t) PROVE WindowInv'
    OBVIOUS
  <1> DEFINE w0 == CurrentWindow(t)
             v == ValueAt(counters[w0], now)
  <1>1. /\ pc[t] = "current" /\ pc' = [pc EXCEPT ![t] = "previous"]
        /\ clock' = [clock EXCEPT ![t] = clock[t]] /\ limit' = [limit EXCEPT ![t] = limit[t]]
        /\ current_count' = [current_count EXCEPT ![t] = v]
        /\ counters' = [counters EXCEPT ![w0] = AfterRead(@, now)]
        /\ UNCHANGED <<now, requests, charged, on_time, largest>>
    BY DEF GetCurrent, Move, Locals, counts
  <1>2. w0 \in Windows /\ w0 \in Nat /\ now \in Nat
    BY CallFacts
  <1>3. v \in Nat /\ v <= charged[w0]
    <2>1. counters[w0] \in Counter /\ charged[w0] \in Nat /\ counters[w0].count <= charged[w0]
      BY <1>2 DEF WindowInv, TypeOK, CountsAreCharged
    <2> QED
      BY <2>1 DEF ValueAt, Counter
  <1>4. clock' = clock /\ limit' = limit
    BY <1>1 DEF WindowInv, TypeOK
  <1>5. /\ counters' \in [Windows -> Counter]
        /\ EntryOutlivesItsWindow' /\ EntryCountsTheWindow'
        /\ \A w \in Windows : counters'[w].count <= charged'[w]
    BY <1>1, <1>2, ReadKeepsEntries
  <1>6. WindowOf(now) <= w0 => on_time[w0] <= v
    BY <1>2, LiveWhileItLasts
  <1> HIDE DEF w0, v
  <1>7. TypeOK'
    BY <1>1, <1>3, <1>4, <1>5 DEF WindowInv, TypeOK
  <1>8. /\ pc'[t] = "previous" /\ current_count'[t] = v
        /\ \A u \in Threads : u # t => pc'[u] = pc[u] /\ current_count'[u] = current_count[u]
    BY <1>1 DEF WindowInv, TypeOK
  <1>9. CallsAreSound'
    BY <1>1, <1>4, <1>8 DEF WindowInv, CallsAreSound
  <1>10. CountsAreCharged'
    <2>1. ASSUME NEW u \in Threads, pc'[u] = "previous"
          PROVE  current_count'[u] <= charged[CurrentWindow(u)]
      BY <1>3, <1>8, <2>1 DEF WindowInv, CountsAreCharged, w0
    <2> QED
      BY <1>1, <1>4, <1>5, <2>1 DEF CountsAreCharged, CurrentWindow
  <1>11. StaleReadersFit' /\ OvershootBoundedByThreads'
    <2>1. ASSUME NEW w \in Windows, NEW n \in Nat, WindowOf(now) <= w, n <= on_time[w],
                 NEW u \in Threads, pc'[u] \in {"previous", "increment"},
                 CurrentWindow(u) = w, current_count'[u] < n
          PROVE  u # t
      <3>1. SUFFICES ASSUME u = t PROVE FALSE
        OBVIOUS
      <3>2. w = w0 /\ on_time[w] <= v /\ v < n
        BY <1>6, <1>8, <2>1, <3>1 DEF w0
      <3>3. on_time[w] \in Nat
        BY DEF WindowInv, TypeOK
      <3> QED
        BY <1>3, <2>1, <3>2, <3>3
    <2>2. ASSUME NEW w \in Windows, NEW n \in Nat, WindowOf(now) <= w, n <= on_time[w]
          PROVE  StaleReaders(w, n)' \subseteq StaleReaders(w, n)
      <3>1. StaleReaders(w, n)' = {u \in Threads : /\ pc'[u] \in {"previous", "increment"}
                                                   /\ CurrentWindow(u) = w /\ current_count'[u] < n}
        BY <1>4 DEF StaleReaders, CurrentWindow
      <3> QED
        BY <1>8, <2>1, <2>2, <3>1 DEF StaleReaders
    <2> QED
      BY <1>1, <1>2, <2>2, NothingCharged
  <1> QED
    BY <1>5, <1>7, <1>9, <1>10, <1>11 DEF WindowInv

\* The weighted count of the previous window only adds to the current one.
LEMMA EstimateFacts ==
  ASSUME NEW p \in Nat, NEW c \in Nat, NEW e \in 0 .. Window - 1
  PROVE  /\ Estimate(p, c, e) \in Nat /\ Estimate(p, c, e) >= c
         /\ Estimate(p, c, e) * Window <= p * (Window - e) + c * Window
  <1> DEFINE x == p * (Window - e)
             q == x \div Window
  <1>1. x \in Nat
    BY WindowAssumption
  <1>2. q \in Nat /\ Window * q <= x
    <2> HIDE DEF x
    <2> QED
      BY <1>1, Division, WindowAssumption
  <1> HIDE DEF x, q
  <1>3. (q + c) * Window = Window * q + c * Window /\ c * Window \in Nat /\ Window * q \in Nat
    BY <1>2, WindowAssumption
  <1> QED
    BY <1>1, <1>2, <1>3 DEF Estimate, x, q

LEMMA DecideInv == \A t \in Threads : WindowInv /\ GetPreviousAndDecide(t) => WindowInv'
  <1> SUFFICES ASSUME NEW t \in Threads, WindowInv, GetPreviousAndDecide(t) PROVE WindowInv'
    OBVIOUS
  <1> DEFINE w1 == PreviousWindow(t)
             v == ValueAt(counters[w1], now)
             e == Estimate(v, current_count[t], Elapsed(t))
  <1>1. /\ counters' = [counters EXCEPT ![w1] = AfterRead(@, now)]
        /\ UNCHANGED <<now, requests, charged, on_time, largest>>
        /\ pc[t] = "previous"
        /\ \/ /\ e < limit[t] /\ pc' = [pc EXCEPT ![t] = "increment"]
              /\ UNCHANGED <<clock, limit, current_count>>
           \/ /\ pc' = [pc EXCEPT ![t] = "idle"]
              /\ clock' = [clock EXCEPT ![t] = 0] /\ limit' = [limit EXCEPT ![t] = 0]
              /\ current_count' = [current_count EXCEPT ![t] = 0]
    BY DEF GetPreviousAndDecide, Allowed, Move, Locals, counts
  <1>2. /\ w1 \in Windows /\ now \in Nat /\ clock[t] \in Nat /\ current_count[t] \in Nat
        /\ limit[t] \in Nat
    BY CallFacts
  <1>3. e \in Nat /\ e >= current_count[t]
    <2>1. v \in Nat
      <3>1. counters[w1] \in Counter
        BY <1>2 DEF WindowInv, TypeOK
      <3> QED
        BY <3>1 DEF ValueAt, Counter
    <2> QED
      BY <1>2, <2>1, ElapsedFacts, EstimateFacts
  <1>4. /\ counters' \in [Windows -> Counter]
        /\ EntryOutlivesItsWindow' /\ EntryCountsTheWindow'
        /\ \A w \in Windows : counters'[w].count <= charged'[w]
    BY <1>1, <1>2, ReadKeepsEntries
  <1> HIDE DEF w1, v, e
  <1>5. 0 \in Times
    BY BoundsAssumption DEF Times
  <1>6. TypeOK'
    BY <1>1, <1>4, <1>5 DEF WindowInv, TypeOK
  <1>7. ASSUME NEW u \in Threads
        PROVE  /\ u # t => /\ pc'[u] = pc[u] /\ clock'[u] = clock[u] /\ limit'[u] = limit[u]
                           /\ current_count'[u] = current_count[u]
               /\ u = t => \/ /\ pc'[u] = "increment" /\ e < limit'[u] /\ limit'[u] = limit[u]
                              /\ clock'[u] = clock[u] /\ current_count'[u] = current_count[u]
                           \/ pc'[u] = "idle" /\ clock'[u] = 0
    BY <1>1 DEF WindowInv, TypeOK
  <1>8. CallsAreSound'
    <2>1. ASSUME NEW u \in Threads
          PROVE  clock'[u] <= now /\ (pc'[u] = "increment" => current_count'[u] < limit'[u])
      BY <1>2, <1>3, <1>7 DEF WindowInv, CallsAreSound
    <2> QED
      BY <1>1, <2>1 DEF CallsAreSound
  <1>9. CountsAreCharged'
    <2>1. ASSUME NEW u \in Threads, pc'[u] = "previous"
          PROVE  u # t
      BY <1>7, <2>1
    <2> QED
      BY <1>1, <1>4, <1>7, <2>1 DEF WindowInv, CountsAreCharged, CurrentWindow
  <1>10. StaleReadersFit' /\ OvershootBoundedByThreads'
    <2>1. \A w \in Windows, n \in Nat : StaleReaders(w, n)' \subseteq StaleReaders(w, n)
      BY <1>1, <1>7 DEF StaleReaders, CurrentWindow
    <2> QED
      BY <1>1, <1>2, <2>1, NothingCharged
  <1> QED
    BY <1>4, <1>6, <1>8, <1>9, <1>10 DEF WindowInv

\* The charge: the step the invariant is for.
LEMMA IncrementInv == \A t \in Threads : WindowInv /\ IncrementCurrent(t) => WindowInv'
  <1> SUFFICES ASSUME NEW t \in Threads, WindowInv, IncrementCurrent(t) PROVE WindowInv'
    OBVIOUS
  <1> DEFINE w0 == CurrentWindow(t)
             c == counters[w0]
             d == Incremented(c, Window, now)
             l == limit[t]
  <1>1. /\ pc[t] = "increment" /\ pc' = [pc EXCEPT ![t] = "idle"]
        /\ clock' = [clock EXCEPT ![t] = 0] /\ limit' = [limit EXCEPT ![t] = 0]
        /\ current_count' = [current_count EXCEPT ![t] = 0]
        /\ counters' = [counters EXCEPT ![w0] = d]
        /\ charged' = [charged EXCEPT ![w0] = @ + 1]
        /\ on_time' = [on_time EXCEPT ![w0] = IF WindowOf(now) = w0 THEN @ + 1 ELSE @]
        /\ largest' = [largest EXCEPT ![w0] = IF l > @ THEN l ELSE @]
        /\ UNCHANGED <<now, requests>>
    BY DEF IncrementCurrent, Move, Locals
  <1>2. /\ w0 \in Windows /\ w0 \in Nat /\ now \in Nat /\ l \in Nat /\ current_count[t] \in Nat
        /\ w0 <= WindowOf(now) /\ WindowOf(now) \in Nat /\ w0 * Window <= now /\ w0 * Window \in Nat
    BY CallFacts, WindowAssumption
  <1>3. /\ c \in Counter /\ charged[w0] \in Nat /\ on_time[w0] \in Nat /\ largest[w0] \in Nat
        /\ c.count <= charged[w0] /\ current_count[t] < l
    BY <1>1, <1>2 DEF WindowInv, TypeOK, CountsAreCharged, CallsAreSound
  <1>4. /\ d \in Counter /\ d # Missing /\ d.count <= charged[w0] + 1
        /\ d.expires_at >= (w0 + 1) * Window
        /\ WindowOf(now) <= w0 => on_time[w0] + 1 <= d.count
    <2>1. (w0 + 1) * Window = w0 * Window + Window
      BY <1>2, WindowAssumption
    <2>2. /\ Live(c, now) => d.count = c.count + 1 /\ d.expires_at = c.expires_at
          /\ ~Live(c, now) => d.count = 1 /\ d.expires_at = now + Window
          /\ d \in Counter /\ d # Missing
      BY <1>2, <1>3, WindowAssumption DEF Incremented, Counter, Missing
    <2>3. ASSUME Live(c, now) PROVE c.expires_at >= (w0 + 1) * Window
      BY <1>2, <2>3 DEF WindowInv, EntryOutlivesItsWindow, Live, Missing
    <2>4. d.expires_at >= (w0 + 1) * Window
      BY <1>2, <2>1, <2>2, <2>3, WindowAssumption
    <2>5. c.count \in Nat
      BY <1>3 DEF Counter
    <2>6. ASSUME WindowOf(now) <= w0 PROVE on_time[w0] + 1 <= d.count
      <3>1. /\ c # Missing => Live(c, now)
            /\ c = Missing => on_time[w0] = 0
            /\ on_time[w0] <= c.count
        BY <1>2, <2>6, LiveWhileItLasts DEF WindowInv, EntryCountsTheWindow
      <3> QED
        BY <1>3, <2>2, <2>5, <3>1
    <2> QED
      BY <1>3, <2>2, <2>4, <2>5, <2>6
  <1> HIDE DEF c, d, l
  <1>5. TypeOK'
    <2>1. 0 \in Times
      BY BoundsAssumption DEF Times
    <2>2. charged' \in [Windows -> Nat] /\ on_time' \in [Windows -> Nat] /\ largest' \in [Windows -> Nat]
      BY <1>1, <1>2, <1>3 DEF WindowInv, TypeOK
    <2> QED
      BY <1>1, <1>4, <2>1, <2>2 DEF WindowInv, TypeOK
  <1>6. /\ counters'[w0] = d /\ charged'[w0] = charged[w0] + 1
        /\ on_time'[w0] = (IF WindowOf(now) = w0 THEN on_time[w0] + 1 ELSE on_time[w0])
        /\ largest'[w0] = (IF l > largest[w0] THEN l ELSE largest[w0])
        /\ \A w \in Windows : w # w0 => /\ counters'[w] = counters[w] /\ charged'[w] = charged[w]
                                        /\ on_time'[w] = on_time[w] /\ largest'[w] = largest[w]
    BY <1>1, <1>2 DEF WindowInv, TypeOK
  <1>7. /\ pc'[t] = "idle" /\ clock'[t] = 0
        /\ \A u \in Threads : u # t => /\ pc'[u] = pc[u] /\ clock'[u] = clock[u]
                                       /\ limit'[u] = limit[u] /\ current_count'[u] = current_count[u]
    BY <1>1 DEF WindowInv, TypeOK
  <1>8. CallsAreSound'
    BY <1>1, <1>2, <1>7 DEF WindowInv, CallsAreSound
  <1>9. EntryOutlivesItsWindow' /\ EntryCountsTheWindow'
    <2>1. ASSUME NEW w \in Windows
          PROVE  /\ counters'[w] # Missing => counters'[w].expires_at >= (w + 1) * Window
                 /\ WindowOf(now) <= w => /\ counters'[w] = Missing => on_time'[w] = 0
                                          /\ on_time'[w] <= counters'[w].count
      <3>1. CASE w = w0
        BY <1>2, <1>3, <1>4, <1>6, <3>1
      <3>2. CASE w # w0
        BY <1>6, <3>2 DEF WindowInv, EntryOutlivesItsWindow, EntryCountsTheWindow
      <3> QED
        BY <3>1, <3>2
    <2> QED
      BY <1>1, <2>1 DEF EntryOutlivesItsWindow, EntryCountsTheWindow
  <1>10. CountsAreCharged'
    <2>1. ASSUME NEW w \in Windows PROVE counters'[w].count <= charged'[w] /\ charged[w] <= charged'[w]
      <3>1. charged[w] \in Nat
        BY DEF WindowInv, TypeOK
      <3> QED
        BY <1>3, <1>4, <1>6, <3>1 DEF WindowInv, CountsAreCharged
    <2>2. ASSUME NEW u \in Threads, pc'[u] = "previous"
          PROVE  current_count'[u] <= charged'[CurrentWindow(u)] /\ clock'[u] = clock[u]
      <3>1. u # t /\ pc[u] = "previous" /\ current_count'[u] = current_count[u] /\ clock'[u] = clock[u]
        BY <1>7, <2>2
      <3>2. /\ current_count[u] <= charged[CurrentWindow(u)] /\ CurrentWindow(u) \in Windows
            /\ current_count[u] \in Nat
        BY <3>1, CallFacts DEF WindowInv, CountsAreCharged
      <3>3. charged[CurrentWindow(u)] \in Nat /\ charged'[CurrentWindow(u)] \in Nat
        BY <3>2, <1>5 DEF WindowInv, TypeOK
      <3> QED
        BY <2>1, <3>1, <3>2, <3>3
    <2> QED
      BY <2>1, <2>2 DEF CountsAreCharged, CurrentWindow
  <1>11. ASSUME NEW w \in Windows, NEW n \in Nat
         PROVE  /\ StaleReaders(w, n)' \subseteq StaleReaders(w, n) /\ t \notin StaleReaders(w, n)'
                /\ StaleReaders(w, n) \in SUBSET Threads /\ StaleReaders(w, n)' \in SUBSET Threads
    BY <1>7 DEF StaleReaders, CurrentWindow
  <1>12. Cardinality(Threads) \in Nat /\ Cardinality(Threads) >= 1
    BY StaleReadersFinite
  <1>13. StaleReadersFit'
    <2>1. ASSUME NEW w \in Windows, NEW n \in Nat,
                 WindowOf(now) <= w, largest'[w] <= n, n <= on_time'[w]
          PROVE  on_time'[w] + Cardinality(StaleReaders(w, n)') <= n + Cardinality(Threads) - 1
      <3> DEFINE B == StaleReaders(w, n)
                 x == Cardinality(B)
                 y == Cardinality(StaleReaders(w, n)')
      <3>1. x \in Nat /\ y \in Nat /\ y <= x /\ (t \in B => y <= x - 1)
        BY <1>11, FewerThreads
      <3>2. y <= Cardinality(Threads) - 1
        <4>1. StaleReaders(w, n)' \subseteq Threads /\ t \notin StaleReaders(w, n)'
          BY <1>11
        <4> QED
          BY <4>1, FewerThreads
      <3>3. largest[w] <= n /\ n <= on_time[w] => on_time[w] + x <= n + Cardinality(Threads) - 1
        BY <2>1 DEF WindowInv, StaleReadersFit
      <3>4. on_time[w] \in Nat /\ largest[w] \in Nat
        BY DEF WindowInv, TypeOK
      <3>5. CASE w # w0
        <4>1. on_time'[w] = on_time[w] /\ largest'[w] = largest[w]
          BY <1>6, <3>5
        <4> HIDE DEF x, y
        <4>2. on_time'[w] + y <= n + Cardinality(Threads) - 1
          BY <1>12, <2>1, <3>1, <3>3, <3>4, <4>1
        <4> QED
          BY <4>2 DEF y
      <3>6. CASE w = w0
        <4>1. WindowOf(now) = w0
          BY <1>2, <2>1, <3>6
        <4>2. on_time'[w] = on_time[w] + 1 /\ l <= n /\ largest[w] <= n
          BY <1>2, <1>3, <1>6, <2>1, <3>4, <3>6, <4>1
        <4>3. t \in B
          BY <1>1, <1>2, <1>3, <3>6, <4>2 DEF StaleReaders
        <4> HIDE DEF x, y, B
        <4>4. on_time'[w] + y <= n + Cardinality(Threads) - 1
          <5>1. CASE n <= on_time[w]
            BY <1>12, <3>1, <3>3, <3>4, <4>2, <4>3, <5>1
          <5>2. CASE n = on_time[w] + 1
            BY <1>12, <3>1, <3>2, <4>2, <5>2
          <5> QED
            BY <2>1, <3>4, <4>2, <5>1, <5>2
        <4> QED
          BY <4>4 DEF y
      <3> QED
        BY <3>5, <3>6
    <2> QED
      BY <1>1, <2>1 DEF StaleReadersFit
  <1>14. OvershootBoundedByThreads'
    <2>1. ASSUME NEW w \in Windows PROVE on_time'[w] <= largest'[w] + Cardinality(Threads) - 1
      <3>1. /\ on_time'[w] \in Nat /\ largest'[w] \in Nat /\ on_time[w] \in Nat /\ largest[w] \in Nat
        BY <1>5 DEF WindowInv, TypeOK
      <3>2. CASE WindowOf(now) <= w /\ largest'[w] <= on_time'[w]
        <4>1. ASSUME NEW n \in Nat, n = largest'[w]
              PROVE  on_time'[w] <= n + Cardinality(Threads) - 1
          <5>1. on_time'[w] + Cardinality(StaleReaders(w, n)') <= n + Cardinality(Threads) - 1
            BY <1>1, <1>13, <3>2, <4>1 DEF StaleReadersFit
          <5>2. Cardinality(StaleReaders(w, n)') \in Nat
            BY <1>11, FewerThreads
          <5> QED
            BY <1>12, <3>1, <5>1, <5>2
        <4> QED
          BY <3>1, <4>1
      <3>3. CASE ~(largest'[w] <= on_time'[w])
        BY <1>12, <3>1, <3>3
      <3>4. CASE ~(WindowOf(now) <= w)
        <4>1. on_time[w] <= largest[w] + Cardinality(Threads) - 1
          BY DEF WindowInv, OvershootBoundedByThreads
        <4>2. on_time'[w] = on_time[w] /\ largest[w] <= largest'[w]
          BY <1>2, <1>3, <1>6, <3>1, <3>4
        <4> QED
          BY <1>12, <3>1, <4>1, <4>2
      <3> QED
        BY <3>2, <3>3, <3>4
    <2> QED
      BY <2>1 DEF OvershootBoundedByThreads
  <1> QED
    BY <1>5, <1>8, <1>9, <1>10, <1>13, <1>14 DEF WindowInv

LEMMA WindowStepInv == PolicyInv /\ WindowInv /\ [LimitedNext]_limited_vars => WindowInv'
  <1> SUFFICES ASSUME PolicyInv, WindowInv, [LimitedNext]_limited_vars PROVE WindowInv'
    OBVIOUS
  <1>1. CASE UNCHANGED limited_vars
    BY <1>1, WindowStutter DEF limited_vars
  <1>2. CASE TimePasses
    BY <1>2, TickInv DEF TimePasses
  <1>3. CASE Administrator
    BY <1>3, ClearInv, WindowStutter DEF Administrator
  <1>4. ASSUME NEW t \in Threads, PolicyStep(t) PROVE WindowInv'
    BY <1>4, WindowStutter DEF PolicyStep
  <1>5. ASSUME NEW t \in Threads, AllowRequest(t) PROVE WindowInv'
    BY <1>5, BeginInv, PolicyFacts DEF AllowRequest
  <1>6. ASSUME NEW t \in Threads, WindowStep(t) PROVE WindowInv'
    BY <1>6, GetCurrentInv, DecideInv, IncrementInv DEF WindowStep, CallStep
  <1> QED
    BY <1>1, <1>2, <1>3, <1>4, <1>5, <1>6 DEF LimitedNext

-----------------------------------------------------------------------------
\* The two inductive invariants hold together of every state of a call of check_rate_limit,
\* from working out the limit to the increment.
THEOREM Invariance == LimitedSpec => [](PolicyInv /\ WindowInv)
  BY PolicyInvariance, WindowInit, WindowStepInv, PTL DEF LimitedSpec

\* Type correctness of both halves: no estimate is negative, every window a call reads
\* or charges is one of the store's, and every limit handed over is a number.
THEOREM TypeCorrect == LimitedSpec => []LimitedTypeOK
  <1>1. PolicyInv /\ WindowInv => LimitedTypeOK
    BY DEF PolicyInv, WindowInv, LimitedTypeOK
  <1> QED
    BY <1>1, Invariance, PTL

\* The promise of the sliding window, for every number of threads, every window and
\* limits that change from call to call: while a window lasts it admits at most one
\* request per other thread beyond the largest limit it admitted one with.
THEOREM OvershootBounded == LimitedSpec => []OvershootBoundedByThreads
  <1>1. WindowInv => OvershootBoundedByThreads
    BY DEF WindowInv
  <1> QED
    BY <1>1, Invariance, PTL

\* Whatever has expired, was reset or was read too early, a call is rejected only if
\* the weighted count of what its two windows were charged has reached its limit.
THEOREM RejectionsAreEarned == LimitedSpec => RejectsOnlyAtTheLimit
  <1> DEFINE Earned ==
        \A t \in Threads :
          pc[t] = "previous" /\ pc'[t] = "idle" =>
            charged[PreviousWindow(t)] * (Window - Elapsed(t)) + charged[CurrentWindow(t)] * Window
              >= limit[t] * Window
  <1>1. PolicyInv /\ WindowInv /\ [LimitedNext]_limited_vars => [Earned]_vars
    <2> SUFFICES ASSUME WindowInv, [LimitedNext]_limited_vars, NEW t \in Threads,
                        pc[t] = "previous", pc'[t] = "idle"
                 PROVE  charged[PreviousWindow(t)] * (Window - Elapsed(t))
                          + charged[CurrentWindow(t)] * Window >= limit[t] * Window
      OBVIOUS
    <2>1. GetPreviousAndDecide(t)
      <3>1. pc' # pc
        OBVIOUS
      <3>2. ~ UNCHANGED vars /\ ~ Tick /\ ~ Clear
        BY <3>1 DEF vars, calls, Tick, Clear
      <3>3. ASSUME NEW u \in Threads, AllowRequest(u) PROVE FALSE
        <4>1. pc[u] = "idle" /\ pc' = [pc EXCEPT ![u] = "current"]
          BY <3>3 DEF AllowRequest, Begin, Move
        <4> QED
          BY <4>1 DEF WindowInv, TypeOK
      <3>4. PICK u \in Threads : CallStep(u)
        BY <3>2, <3>3 DEF LimitedNext, TimePasses, Administrator, PolicyStep, WindowStep, limited_vars
      <3>5. u = t
        BY <3>4 DEF CallStep, GetCurrent, GetPreviousAndDecide, IncrementCurrent, Move, WindowInv, TypeOK
      <3>6. ~ GetCurrent(t) /\ ~ IncrementCurrent(t)
        BY DEF GetCurrent, IncrementCurrent, Move
      <3> QED
        BY <3>4, <3>5, <3>6 DEF CallStep
    <2> DEFINE p == ValueAt(counters[PreviousWindow(t)], now)
               c == current_count[t]
               l == limit[t]
               k == Window - Elapsed(t)
               chargedp == charged[PreviousWindow(t)]
               chargedc == charged[CurrentWindow(t)]
               e == Estimate(p, c, Elapsed(t))
    <2>2. /\ p \in Nat /\ c \in Nat /\ l \in Nat /\ chargedp \in Nat /\ chargedc \in Nat
          /\ p <= chargedp /\ c <= chargedc /\ Elapsed(t) \in 0 .. Window - 1
      <3>1. PreviousWindow(t) \in Windows /\ CurrentWindow(t) \in Windows
        BY CallFacts
      <3>2. counters[PreviousWindow(t)] \in Counter /\ chargedp \in Nat /\ chargedc \in Nat
        BY <3>1 DEF WindowInv, TypeOK
      <3>3. counters[PreviousWindow(t)].count <= chargedp /\ c <= chargedc
        BY <3>1 DEF WindowInv, CountsAreCharged
      <3>4. p \in Nat /\ p <= chargedp
        BY <3>2, <3>3 DEF ValueAt, Counter
      <3>5. c \in Nat /\ l \in Nat /\ Elapsed(t) \in 0 .. Window - 1
        BY CallFacts, ElapsedFacts
      <3> QED
        BY <3>2, <3>3, <3>4, <3>5
    <2>3. e \in Nat /\ e * Window <= p * k + c * Window /\ k \in Nat
      <3> HIDE DEF p, c
      <3>1. e \in Nat /\ e * Window <= p * k + c * Window
        BY <2>2, EstimateFacts
      <3> QED
        BY <2>2, <3>1, WindowAssumption
    <2>4. e >= l
      <3>1. ~ (e < l)
        <4>1. pc' = [pc EXCEPT ![t] = "increment"] => pc'[t] = "increment"
          BY DEF WindowInv, TypeOK
        <4> QED
          BY <2>1, <4>1 DEF GetPreviousAndDecide, Allowed, Move
      <3> HIDE DEF e, l
      <3> QED
        BY <2>2, <2>3, <3>1
    <2> HIDE DEF p, c, l, k, chargedp, chargedc, e
    <2>5. l * Window <= e * Window
      BY <2>4, <2>2, <2>3, WindowAssumption
    <2>6. p * k <= chargedp * k
      BY <2>2, <2>3
    <2>7. c * Window <= chargedc * Window
      BY <2>2, WindowAssumption
    <2>8. /\ l * Window \in Int /\ e * Window \in Int /\ p * k \in Int /\ chargedp * k \in Int
          /\ c * Window \in Int /\ chargedc * Window \in Int
      BY <2>2, <2>3, WindowAssumption
    <2>9. chargedp * k + chargedc * Window >= l * Window
      BY <2>3, <2>5, <2>6, <2>7, <2>8
    <2> QED
      BY <2>9 DEF chargedp, chargedc, k, l
  <1> QED
    BY <1>1, Invariance, PTL DEF LimitedSpec, RejectsOnlyAtTheLimit

-----------------------------------------------------------------------------
(***************************************************************************)
(* Both halves together: what an endpoint may let in is bounded by what    *)
(* an administrator has configured for it, whatever the load has been and  *)
(* whenever the schedule was changed.                                      *)
(***************************************************************************)
TiersWithin(n) ==
  /\ BaseLimit <= n
  /\ \A s \in Schedules : \A i \in DOMAIN s : s[i].limit <= n

\* The limit of the highest tier, fully relaxed.
Ceiling(n) == Policy!Adjusted(n, 120)

FactorWithinBounds == multiplier \in 40 .. 120

AdmitsWithinThePolicy ==
  \A n \in Nat : TiersWithin(n) =>
    \A w \in Windows : on_time[w] <= Ceiling(n) + Cardinality(Threads) - 1

\* The ceiling holds wherever a limit is kept.
LimitsWithin(n) ==
  /\ \A t \in Threads : tier[t] <= n /\ effective[t] <= Ceiling(n) /\ limit[t] <= Ceiling(n)
  /\ \A w \in Windows : largest[w] <= Ceiling(n)

WithinInv ==
  /\ FactorWithinBounds
  /\ \A n \in Nat : TiersWithin(n) => LimitsWithin(n)

LEMMA SmoothedWithinBounds ==
  ASSUME NEW m \in 40 .. 120, NEW load \in Loads
  PROVE  Policy!Smoothed(m, Policy!Multiplier[load]) \in 40 .. 120
  <1> DEFINE f == Policy!Multiplier[load]
  <1>1. f \in {120, 100, 70, 40}
    BY LoadsAssumption DEF Policy!Multiplier
  <1> HIDE DEF f
  <1>2. (7 * m + 3 * f + 5) \div 10 \in 40 .. 120
    BY <1>1
  <1> QED
    BY <1>2 DEF Policy!Smoothed, f

LEMMA CeilingFacts ==
  ASSUME NEW n \in Nat
  PROVE  /\ Ceiling(n) \in Nat /\ n <= Ceiling(n)
         /\ \A base \in Nat : \A m \in 40 .. 120 : base <= n => Policy!Adjusted(base, m) <= Ceiling(n)
  <1>1. Ceiling(n) \in Nat /\ n <= Ceiling(n)
    BY AdjustedFacts DEF Ceiling
  <1>2. ASSUME NEW base \in Nat, NEW m \in 40 .. 120, base <= n
        PROVE  Policy!Adjusted(base, m) <= Ceiling(n)
    <2> DEFINE x == base * m
               y == n * 120
    <2>1. x <= base * 120 /\ base * 120 <= y /\ x \in Nat /\ y \in Nat
      BY <1>2
    <2> HIDE DEF x, y
    <2>2. x <= y
      BY <1>2, <2>1
    <2>3. x \div 100 <= y \div 100 /\ x \div 100 \in Nat /\ y \div 100 \in Nat
      BY <2>1, <2>2
    <2> QED
      BY <2>3 DEF Ceiling, Policy!Adjusted, Policy!Scale, x, y
  <1> QED
    BY <1>1, <1>2

\* The tier in force is one of those configured.
LEMMA TierIsWithin ==
  ASSUME schedule \in Schedules, NEW time, NEW n \in Nat, TiersWithin(n)
  PROVE  Policy!TierAt(time) <= n
  <1> DEFINE applying == {i \in DOMAIN schedule : Policy!InForce(schedule[i], time)}
             first == CHOOSE i \in applying : \A j \in applying : i <= j
  <1>1. CASE applying = {}
    BY <1>1 DEF Policy!TierAt, TiersWithin
  <1>2. CASE applying # {}
    <2>1. applying \subseteq DOMAIN schedule /\ DOMAIN schedule \subseteq Nat
      <3>1. schedule \in Seq(Rules)
        BY SchedulesAssumption DEF Rules
      <3> QED
        BY <3>1
    <2>2. first \in DOMAIN schedule
      <3> HIDE DEF applying
      <3>1. \E i \in applying : \A j \in applying : i <= j
        BY <1>2, <2>1, SmallestExists
      <3> QED
        BY <2>1, <3>1
    <2>3. schedule[first].limit <= n
      <3> HIDE DEF first
      <3> QED
        BY <2>2 DEF TiersWithin
    <2> QED
      BY <1>2, <2>3 DEF Policy!TierAt
  <1> QED
    BY <1>1, <1>2

LEMMA WithinInit == LimitedInit => WithinInv
  <1> SUFFICES ASSUME LimitedInit PROVE WithinInv
    OBVIOUS
  <1>1. FactorWithinBounds
    BY DEF LimitedInit, Policy!PolicyInit, Policy!Scale, FactorWithinBounds
  <1>2. ASSUME NEW n \in Nat PROVE LimitsWithin(n)
    <2>1. Ceiling(n) \in Nat
      BY CeilingFacts
    <2> HIDE DEF Ceiling
    <2> QED
      BY <2>1 DEF LimitedInit, Policy!PolicyInit, Init, LimitsWithin
  <1> QED
    BY <1>1, <1>2 DEF WithinInv

\* Steps that hand no limit on.
LEMMA WithinStutter ==
  ASSUME WithinInv, UNCHANGED <<multiplier, tier, effective, limit, largest>>
  PROVE  WithinInv'
  BY DEF WithinInv, FactorWithinBounds, LimitsWithin, Ceiling, TiersWithin,
         Policy!Adjusted, Policy!Scale

\* Every step hands a limit on as it was, works it out within the bounds or drops it.
LEMMA WithinStep == PolicyInv /\ WindowInv /\ WithinInv /\ [LimitedNext]_limited_vars => WithinInv'
  <1> SUFFICES ASSUME PolicyInv, WindowInv, WithinInv, [LimitedNext]_limited_vars PROVE WithinInv'
    OBVIOUS
  <1>0. /\ tier \in [Threads -> Nat] /\ effective \in [Threads -> Nat] /\ limit \in [Threads -> Nat]
        /\ largest \in [Windows -> Nat] /\ multiplier \in 40 .. 120 /\ schedule \in Schedules
    BY DEF PolicyInv, Policy!PolicyTypeOK, WindowInv, TypeOK, WithinInv, FactorWithinBounds
  <1>1. CASE UNCHANGED limited_vars \/ TimePasses \/ Administrator
    <2>1. UNCHANGED <<multiplier, tier, effective, limit, largest>>
      BY <1>1 DEF limited_vars, vars, policy, local, calls, counts, TimePasses, Tick, Administrator,
                  Clear, Policy!SetPolicy, Policy!local
    <2> QED
      BY <2>1, WithinStutter
  <1>2. ASSUME NEW t \in Threads, PolicyStep(t) PROVE WithinInv'
    <2>1. limit' = limit /\ largest' = largest
      BY <1>2 DEF PolicyStep, vars, calls, counts
    <2>2. CASE Policy!ReadTier(t)
      <3> DEFINE l == Policy!TierAt(now % Day)
      <3>1. l \in Nat /\ \A n \in Nat : TiersWithin(n) => l <= n
        BY <1>0, TierIsNat, TierIsWithin
      <3>2. /\ tier' = [tier EXCEPT ![t] = l] /\ effective' = [effective EXCEPT ![t] = l]
            /\ multiplier' = multiplier
        BY <1>0, <2>2 DEF Policy!ReadTier, Policy!policy
      <3> HIDE DEF l
      <3>3. ASSUME NEW n \in Nat, TiersWithin(n) PROVE LimitsWithin(n)'
        <4>1. l <= n /\ l <= Ceiling(n) /\ LimitsWithin(n)
          <5>1. l <= n /\ LimitsWithin(n)
            BY <3>1, <3>3 DEF WithinInv
          <5>2. Ceiling(n) \in Nat /\ n <= Ceiling(n)
            BY CeilingFacts
          <5> HIDE DEF Ceiling
          <5> QED
            BY <3>1, <5>1, <5>2
        <4>2. ASSUME NEW u \in Threads PROVE tier'[u] <= n /\ effective'[u] <= Ceiling(n)
          BY <1>0, <3>2, <4>1 DEF LimitsWithin
        <4> HIDE DEF Ceiling
        <4> QED
          BY <2>1, <4>1, <4>2 DEF LimitsWithin
      <3> QED
        BY <3>2, <3>3 DEF WithinInv, FactorWithinBounds
    <2>3. CASE Policy!CheckInterval(t)
      BY <2>1, <2>3, WithinStutter DEF Policy!CheckInterval, Policy!policy
    <2>4. CASE Policy!Sample(t) \/ Policy!Measure(t)
      <3>1. tier' = tier /\ effective' = effective /\ multiplier' \in 40 .. 120
        BY <1>0, <2>4, SmoothedWithinBounds DEF Policy!Sample, Policy!Measure, Policy!Adjust
      <3> QED
        BY <2>1, <3>1 DEF WithinInv, FactorWithinBounds, LimitsWithin
    <2>5. CASE Policy!Multiply(t)
      <3> DEFINE l == Policy!Adjusted(tier[t], multiplier)
      <3>1. effective' = [effective EXCEPT ![t] = l] /\ tier' = tier /\ multiplier' = multiplier
        BY <2>5 DEF Policy!Multiply, Policy!policy
      <3>2. ASSUME NEW n \in Nat, TiersWithin(n) PROVE l <= Ceiling(n)
        BY <1>0, <3>2, CeilingFacts DEF WithinInv, LimitsWithin
      <3> HIDE DEF l
      <3>3. ASSUME NEW n \in Nat, TiersWithin(n) PROVE LimitsWithin(n)'
        <4>1. ASSUME NEW u \in Threads PROVE effective'[u] <= Ceiling(n)
          BY <1>0, <3>1, <3>2, <3>3 DEF WithinInv, LimitsWithin
        <4> QED
          BY <2>1, <3>1, <3>3, <4>1 DEF WithinInv, LimitsWithin
      <3> QED
        BY <3>1, <3>3 DEF WithinInv, FactorWithinBounds
    <2> QED
      BY <1>2, <2>2, <2>3, <2>4, <2>5 DEF PolicyStep, Policy!PolicyStep
  <1>3. ASSUME NEW t \in Threads, AllowRequest(t) PROVE WithinInv'
    <2>1. /\ tier' = [tier EXCEPT ![t] = 0] /\ effective' = [effective EXCEPT ![t] = 0]
          /\ limit' = [limit EXCEPT ![t] = effective[t]]
          /\ largest' = largest /\ multiplier' = multiplier
      BY <1>3 DEF AllowRequest, Policy!HandOver, Policy!policy, Begin, Locals, counts
    <2>2. ASSUME NEW n \in Nat, TiersWithin(n) PROVE LimitsWithin(n)'
      <3>1. Ceiling(n) \in Nat /\ LimitsWithin(n)
        BY <2>2, CeilingFacts DEF WithinInv
      <3>2. ASSUME NEW u \in Threads
            PROVE  tier'[u] <= n /\ effective'[u] <= Ceiling(n) /\ limit'[u] <= Ceiling(n)
        BY <1>0, <2>1, <3>1 DEF LimitsWithin
      <3> QED
        BY <2>1, <3>1, <3>2 DEF LimitsWithin
    <2> QED
      BY <2>1, <2>2 DEF WithinInv, FactorWithinBounds
  <1>4. ASSUME NEW t \in Threads, WindowStep(t) PROVE WithinInv'
    <2>1. tier' = tier /\ effective' = effective /\ multiplier' = multiplier
      BY <1>4 DEF WindowStep, policy, local
    <2>2. ASSUME NEW u \in Threads PROVE limit'[u] \in {limit[u], 0}
      BY <1>0, <1>4 DEF WindowStep, CallStep, GetCurrent, GetPreviousAndDecide, IncrementCurrent, Locals
    <2>3. ASSUME NEW w \in Windows PROVE largest'[w] \in {largest[w], limit[t]}
      BY <1>0, <1>4 DEF WindowStep, CallStep, GetCurrent, GetPreviousAndDecide, IncrementCurrent, counts
    <2>4. ASSUME NEW n \in Nat, TiersWithin(n) PROVE LimitsWithin(n)'
      <3>1. Ceiling(n) \in Nat /\ LimitsWithin(n)
        BY <2>4, CeilingFacts DEF WithinInv
      <3> QED
        BY <2>1, <2>2, <2>3, <3>1 DEF LimitsWithin
    <2> QED
      BY <2>1, <2>4 DEF WithinInv, FactorWithinBounds
  <1> QED
    BY <1>1, <1>2, <1>3, <1>4 DEF LimitedNext

LEMMA WithinInvariance == LimitedSpec => []WithinInv
  BY WithinInit, WithinStep, Invariance, PTL DEF LimitedSpec

\* However the load swings, smoothing keeps the factor between those of the heaviest
\* and the lightest load: the bounds of 0.3 and 1.5 that _maybe_update_metrics puts on
\* it never apply.
THEOREM FactorBounded == LimitedSpec => []FactorWithinBounds
  <1>1. WithinInv => FactorWithinBounds
    BY DEF WithinInv
  <1> QED
    BY <1>1, WithinInvariance, PTL

\* From the configuration to the requests let in: while a window lasts it admits at most
\* the highest limit configured or scheduled, relaxed by a fifth, and one request per
\* other thread; whatever was sampled and whenever the schedule was changed.
THEOREM PolicyBoundsAdmissions == LimitedSpec => []AdmitsWithinThePolicy
  <1>1. WindowInv /\ WithinInv => AdmitsWithinThePolicy
    <2> SUFFICES ASSUME WindowInv, WithinInv, NEW n \in Nat, TiersWithin(n), NEW w \in Windows
                 PROVE  on_time[w] <= Ceiling(n) + Cardinality(Threads) - 1
      BY DEF AdmitsWithinThePolicy
    <2>1. largest[w] <= Ceiling(n) /\ on_time[w] <= largest[w] + Cardinality(Threads) - 1
      BY DEF WithinInv, LimitsWithin, WindowInv, OvershootBoundedByThreads
    <2>2. largest[w] \in Nat /\ on_time[w] \in Nat /\ Ceiling(n) \in Nat /\ Cardinality(Threads) \in Nat
      BY CeilingFacts, StaleReadersFinite DEF WindowInv, TypeOK
    <2> QED
      BY <2>1, <2>2
  <1> QED
    BY <1>1, Invariance, WithinInvariance, PTL
=============================================================================
