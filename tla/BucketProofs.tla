---------------------------- MODULE BucketProofs ----------------------------
(***************************************************************************)
(* Theorems about the bucket algorithms, for every limit, window and       *)
(* number of threads.  Two lemmas carry them: a decision does to the worth *)
(* of the stored bucket (LevelAt) exactly what RateBucket does to its      *)
(* level, whichever algorithm takes it; and that worth refills with time   *)
(* like the level of RateBucket.  The section before the last is about     *)
(* RateBucket itself, the last about the Retry-After a rejection is given. *)
(***************************************************************************)
EXTENDS BucketLimiter, TLAPS

Charge(d) == IF d.allowed THEN Window ELSE 0

\* The entry of the store after decision d was taken on entry b.
Stored(b, d) == IF d.stores THEN d.bucket ELSE b

-----------------------------------------------------------------------------
LEMMA CapacityIsNat == /\ Capacity \in Nat /\ Window <= Capacity
                       /\ Limit \in Nat /\ Window \in Nat /\ Window > 0
  BY LimitAssumption, WindowAssumption DEF Capacity

LEMMA RateIsInt ==
  ASSUME NEW s \in Int, NEW t \in Int
  PROVE  /\ (t - s) * Limit \in Int /\ t * Limit \in Int
         /\ s <= t => (t - s) * Limit \in Nat
  BY CapacityIsNat

\* What flows in from r to t is what flows in from r to s and from s to t.
LEMMA RateAddsUp ==
  ASSUME NEW r \in Int, NEW s \in Int, NEW t \in Int
  PROVE  /\ (t - r) * Limit = (s - r) * Limit + (t - s) * Limit
         /\ t * Limit = s * Limit + (t - s) * Limit
  BY CapacityIsNat

LEMMA LevelIsInt ==
  ASSUME NEW a \in Algorithms, NEW b \in Bucket, NEW t \in Int
  PROVE  LevelAt(a, b, t) \in Int /\ LevelAt(a, b, t) <= Capacity
  <1>1. b.tokens \in Int /\ b.last_refill \in Int
    BY DEF Bucket
  <1>2. (t - b.last_refill) * Limit \in Int /\ t * Limit \in Int
    BY <1>1, RateIsInt
  <1> QED
    BY <1>1, <1>2, CapacityIsNat DEF LevelAt, Algorithms, Smaller, Larger

\* The worth of a stored bucket refills at the rate of RateBucket up to the capacity.
LEMMA LevelRefills ==
  ASSUME NEW a \in Algorithms, NEW b \in Bucket, NEW s \in Int, NEW t \in Int, s <= t
  PROVE  LevelAt(a, b, t) = Smaller(Capacity, LevelAt(a, b, s) + (t - s) * Limit)
  <1> DEFINE d == (t - s) * Limit
             x == (s - b.last_refill) * Limit
             y == (t - b.last_refill) * Limit
  <1>1. b.tokens \in Int /\ b.last_refill \in Int
    BY DEF Bucket
  <1>2. d \in Nat /\ x \in Int /\ y = x + d /\ s * Limit \in Int /\ t * Limit = s * Limit + d
    BY <1>1, RateIsInt, RateAddsUp
  <1> HIDE DEF d, x, y
  <1>3. CASE b = NoBucket
    BY <1>2, <1>3, CapacityIsNat DEF LevelAt, Smaller, d
  <1>4. CASE b # NoBucket /\ a = "token_bucket"
    <2>1. LevelAt(a, b, s) = Smaller(Capacity, b.tokens + x) /\ LevelAt(a, b, t) = Smaller(Capacity, b.tokens + y)
      BY <1>4 DEF LevelAt, x, y
    <2> QED
      BY <2>1, <1>1, <1>2, CapacityIsNat DEF Smaller, d
  <1>5. CASE b # NoBucket /\ a = "leaky_bucket"
    <2>1. /\ LevelAt(a, b, s) = Capacity - Larger(0, b.tokens - x)
          /\ LevelAt(a, b, t) = Capacity - Larger(0, b.tokens - y)
      BY <1>5 DEF LevelAt, x, y
    <2> QED
      BY <2>1, <1>1, <1>2, CapacityIsNat DEF Smaller, Larger, d
  <1>6. CASE b # NoBucket /\ a = "gcra"
    <2>1. /\ LevelAt(a, b, s) = Capacity - Larger(0, b.tokens - s * Limit)
          /\ LevelAt(a, b, t) = Capacity - Larger(0, b.tokens - t * Limit)
      BY <1>6 DEF LevelAt
    <2> QED
      BY <2>1, <1>1, <1>2, CapacityIsNat DEF Smaller, Larger, d
  <1> QED
    BY <1>3, <1>4, <1>5, <1>6 DEF Algorithms

\* Every decision is the decision of RateBucket: it admits exactly when the stored
\* bucket is worth a request, and takes a request's worth from it.
LEMMA DecisionIsBucket ==
  ASSUME NEW a \in Algorithms, NEW b \in Bucket, NEW t \in Nat
  PROVE  LET d == Decision(a, b, t)
         IN  /\ d \in Decisions
             /\ ~d.stores => ~d.allowed
             /\ d.allowed <=> LevelAt(a, b, t) >= Window
             /\ LevelAt(a, Stored(b, d), t) = LevelAt(a, b, t) - Charge(d)
  <1> DEFINE d == Decision(a, b, t)
             x == (t - b.last_refill) * Limit
             y == t * Limit
             goal == /\ d \in Decisions
                     /\ ~d.stores => ~d.allowed
                     /\ d.allowed <=> LevelAt(a, b, t) >= Window
                     /\ LevelAt(a, Stored(b, d), t) = LevelAt(a, b, t) - Charge(d)
  <1>1. b.tokens \in Int /\ b.last_refill \in Int
    BY DEF Bucket
  <1>2. x \in Int /\ y \in Nat /\ (t - t) * Limit = 0
    <2>1. y \in Nat
      BY CapacityIsNat
    <2> QED
      BY <2>1, <1>1, RateIsInt, CapacityIsNat
  <1>3. ASSUME NEW n \in Int, NEW m \in Nat
        PROVE  [tokens |-> n, last_refill |-> m] \in Bucket /\ [tokens |-> n, last_refill |-> m] # NoBucket
    BY <1>3 DEF Bucket, NoBucket
  <1>4. ASSUME a = "token_bucket" PROVE goal
    <2>1. ASSUME NEW n \in Int, n <= Capacity
          PROVE  LevelAt(a, [tokens |-> n, last_refill |-> t], t) = n
      BY <1>3, <1>4, <2>1, <1>2, CapacityIsNat DEF LevelAt, Smaller
    <2>2. CASE b = NoBucket
      <3>1. d = Admit(Capacity - Window, t)
        BY <1>4, <2>2 DEF Decision, TokenBucketDecision
      <3>2. d \in Decisions /\ d.stores /\ d.allowed /\ d.bucket = [tokens |-> Capacity - Window, last_refill |-> t]
        BY <3>1, <1>3, CapacityIsNat DEF Admit, Decisions
      <3>3. LevelAt(a, b, t) = Capacity
        BY <2>2 DEF LevelAt
      <3> HIDE DEF d
      <3> QED
        BY <3>2, <3>3, <2>1, CapacityIsNat DEF Stored, Charge
    <2>3. CASE b # NoBucket
      <3> DEFINE n == Smaller(Capacity, b.tokens + x)
      <3>1. LevelAt(a, b, t) = n /\ n \in Int /\ n <= Capacity
        BY <1>1, <1>2, <1>4, <2>3, CapacityIsNat DEF LevelAt, Smaller
      <3>2. CASE n >= Window
        <4>1. d = Admit(n - Window, t)
          BY <1>4, <2>3, <3>2 DEF Decision, TokenBucketDecision
        <4>2. d \in Decisions /\ d.stores /\ d.allowed /\ d.bucket = [tokens |-> n - Window, last_refill |-> t]
          BY <3>1, <4>1, <1>3, CapacityIsNat DEF Admit, Decisions
        <4> HIDE DEF d, n
        <4> QED
          BY <3>1, <3>2, <4>2, <2>1, CapacityIsNat DEF Stored, Charge
      <3>3. CASE ~(n >= Window)
        <4>1. d = Reject(n, t, y + Window)
          BY <1>4, <2>3, <3>3 DEF Decision, TokenBucketDecision
        <4>2. d \in Decisions /\ d.stores /\ ~d.allowed /\ d.bucket = [tokens |-> n, last_refill |-> t]
          BY <3>1, <4>1, <1>2, <1>3, CapacityIsNat DEF Reject, Decisions
        <4> HIDE DEF d, n
        <4> QED
          BY <3>1, <3>3, <4>2, <2>1, CapacityIsNat DEF Stored, Charge
      <3> QED
        BY <3>2, <3>3
    <2> QED
      BY <2>2, <2>3
  <1>5. ASSUME a = "leaky_bucket" PROVE goal
    <2>1. ASSUME NEW n \in Nat
          PROVE  LevelAt(a, [tokens |-> n, last_refill |-> t], t) = Capacity - n
      BY <1>3, <1>5, <2>1, <1>2, CapacityIsNat DEF LevelAt, Larger
    <2>2. CASE b = NoBucket
      <3>1. d = Admit(Window, t)
        BY <1>5, <2>2 DEF Decision, LeakyBucketDecision
      <3>2. d \in Decisions /\ d.stores /\ d.allowed /\ d.bucket = [tokens |-> Window, last_refill |-> t]
        BY <3>1, <1>3, CapacityIsNat DEF Admit, Decisions
      <3>3. LevelAt(a, b, t) = Capacity
        BY <2>2 DEF LevelAt
      <3> HIDE DEF d
      <3> QED
        BY <3>2, <3>3, <2>1, CapacityIsNat DEF Stored, Charge
    <2>3. CASE b # NoBucket
      <3> DEFINE n == Larger(0, b.tokens - x)
      <3>1. LevelAt(a, b, t) = Capacity - n /\ n \in Nat
        BY <1>1, <1>2, <1>5, <2>3, CapacityIsNat DEF LevelAt, Larger
      <3>2. CASE n + Window <= Capacity
        <4>1. d = Admit(n + Window, t)
          BY <1>5, <2>3, <3>2 DEF Decision, LeakyBucketDecision
        <4>2. d \in Decisions /\ d.stores /\ d.allowed /\ d.bucket = [tokens |-> n + Window, last_refill |-> t]
          BY <3>1, <4>1, <1>3, CapacityIsNat DEF Admit, Decisions
        <4> HIDE DEF d, n
        <4> QED
          BY <3>1, <3>2, <4>2, <2>1, CapacityIsNat DEF Stored, Charge
      <3>3. CASE ~(n + Window <= Capacity)
        <4>1. d = Reject(n, t, y + n + Window - Capacity)
          BY <1>5, <2>3, <3>3 DEF Decision, LeakyBucketDecision
        <4>2. d \in Decisions /\ d.stores /\ ~d.allowed /\ d.bucket = [tokens |-> n, last_refill |-> t]
          BY <3>1, <4>1, <1>2, <1>3, CapacityIsNat DEF Reject, Decisions
        <4> HIDE DEF d, n
        <4> QED
          BY <3>1, <3>3, <4>2, <2>1, CapacityIsNat DEF Stored, Charge
      <3> QED
        BY <3>2, <3>3
    <2> QED
      BY <2>2, <2>3
  <1>6. ASSUME a = "gcra" PROVE goal
    <2>1. ASSUME NEW n \in Int
          PROVE  LevelAt(a, [tokens |-> n, last_refill |-> 0], t) = Capacity - Larger(0, n - y)
      BY <1>3, <1>6, <2>1 DEF LevelAt
    <2>2. CASE b = NoBucket
      <3>1. d = Admit(y + Window, 0)
        BY <1>6, <2>2 DEF Decision, GCRADecision
      <3>2. d \in Decisions /\ d.stores /\ d.allowed /\ d.bucket = [tokens |-> y + Window, last_refill |-> 0]
        BY <3>1, <1>2, <1>3, CapacityIsNat DEF Admit, Decisions
      <3>3. LevelAt(a, b, t) = Capacity
        BY <2>2 DEF LevelAt
      <3> HIDE DEF d, y
      <3> QED
        BY <3>2, <3>3, <2>1, <1>2, CapacityIsNat DEF Stored, Charge, Larger
    <2>3. CASE b # NoBucket
      <3>1. LevelAt(a, b, t) = Capacity - Larger(0, b.tokens - y)
        BY <1>6, <2>3 DEF LevelAt
      <3>2. CASE y >= b.tokens - (Capacity - Window)
        <4> DEFINE n == Larger(b.tokens, y) + Window
        <4>1. d = Admit(n, 0)
          BY <1>6, <2>3, <3>2 DEF Decision, GCRADecision
        <4>2. n \in Int
          BY <1>1, <1>2, CapacityIsNat DEF Larger
        <4>3. d \in Decisions /\ d.stores /\ d.allowed /\ d.bucket = [tokens |-> n, last_refill |-> 0]
          BY <4>1, <4>2, <1>3 DEF Admit, Decisions
        <4>4. LevelAt(a, Stored(b, d), t) = Capacity - Larger(0, n - y)
          BY <2>1, <4>2, <4>3 DEF Stored
        <4> HIDE DEF d, y
        <4> QED
          BY <3>1, <3>2, <4>3, <4>4, <1>1, <1>2, CapacityIsNat DEF Charge, Larger
      <3>3. CASE ~(y >= b.tokens - (Capacity - Window))
        <4>1. d = [Reject(b.tokens, 0, b.tokens - (Capacity - Window)) EXCEPT !.stores = FALSE]
          BY <1>6, <2>3, <3>3 DEF Decision, GCRADecision
        <4>2. d \in Decisions /\ ~d.stores /\ ~d.allowed
          <5> DEFINE at == b.tokens - (Capacity - Window)
                     kept == [tokens |-> b.tokens, last_refill |-> 0]
          <5>1. d = [allowed |-> FALSE, stores |-> FALSE, retry_at |-> at, bucket |-> kept]
            BY <4>1 DEF Reject
          <5>2. at \in Int /\ kept \in Bucket
            BY <1>1, <1>3, CapacityIsNat
          <5> HIDE DEF d, at, kept
          <5> QED
            BY <5>1, <5>2 DEF Decisions
        <4> HIDE DEF d, y
        <4> QED
          BY <3>1, <3>3, <4>2, <1>1, <1>2, CapacityIsNat DEF Stored, Charge, Larger
      <3> QED
        BY <3>2, <3>3
    <2> QED
      BY <2>2, <2>3
  <1> QED
    BY <1>4, <1>5, <1>6 DEF Algorithms

-----------------------------------------------------------------------------
(***************************************************************************)
(* What concurrent calls keep.  The stored bucket, and every bucket a call *)
(* is about to store, is worth at least what the ideal bucket is once that *)
(* call is charged to it.                                                  *)
(***************************************************************************)
CallsLookBack == \A t \in Threads : clock[t] <= now

PendingWorth ==
  \A t \in Threads :
    pc[t] = "set" =>
      LevelAt(algorithm, decision[t].bucket, now) >= ideal - Charge(decision[t])

IInv == TypeOK /\ CallsLookBack /\ PendingWorth /\ NeverStricterThanIdeal

LEMMA DecisionFacts ==
  ASSUME NEW d \in Decisions
  PROVE  /\ d.bucket \in Bucket /\ d.retry_at \in Int /\ d.allowed \in BOOLEAN
         /\ Charge(d) \in {0, Window}
  BY DEF Decisions, Charge

LEMMA TimesAreNat == Times \subseteq Nat /\ Times \subseteq Int /\ 0 \in Times
  BY BoundsAssumption DEF Times

LEMMA TypeFacts ==
  ASSUME IInv
  PROVE  /\ algorithm \in Algorithms /\ bucket \in Bucket /\ now \in Nat /\ now \in Int /\ ideal \in Int
         /\ \A t \in Threads : /\ clock[t] \in Nat /\ clock[t] \in Int /\ clock[t] \in Times /\ clock[t] <= now
                               /\ decision[t] \in Decisions /\ decision[t].bucket \in Bucket
                               /\ decision[t].retry_at \in Int
                               /\ Charge(decision[t]) \in {0, Window}
  <1>1. now \in Nat /\ now \in Int
    BY TimesAreNat DEF IInv, TypeOK
  <1>2. ASSUME NEW t \in Threads
        PROVE  clock[t] \in Times /\ decision[t] \in Decisions
    BY DEF IInv, TypeOK
  <1>3. ASSUME NEW t \in Threads
        PROVE  clock[t] \in Nat /\ clock[t] \in Int /\ clock[t] <= now
    BY <1>2, TimesAreNat DEF IInv, CallsLookBack
  <1>4. ASSUME NEW t \in Threads
        PROVE  /\ decision[t].bucket \in Bucket /\ decision[t].retry_at \in Int
               /\ Charge(decision[t]) \in {0, Window}
    BY <1>2, DecisionFacts
  <1> QED
    BY <1>1, <1>2, <1>3, <1>4 DEF IInv, TypeOK

LEMMA InitIInv == Init => IInv
  <1> SUFFICES ASSUME Init PROVE IInv
    OBVIOUS
  <1>1. TypeOK
    <2>1. NoBucket \in Bucket /\ Reject(0, 0, 0) \in Decisions
      BY DEF NoBucket, Bucket, Reject, Decisions
    <2> QED
      BY <2>1, TimesAreNat, CapacityIsNat, BoundsAssumption DEF Init, TypeOK, NotRejected
  <1>2. CallsLookBack /\ PendingWorth
    BY DEF Init, CallsLookBack, PendingWorth
  <1>3. NeverStricterThanIdeal
    BY CapacityIsNat DEF Init, NeverStricterThanIdeal, LevelAt
  <1> QED
    BY <1>1, <1>2, <1>3 DEF IInv

\* The ideal bucket and the stored ones refill alike.
LEMMA TickIInv == IInv /\ Tick => IInv'
  <1> SUFFICES ASSUME IInv, Tick PROVE IInv'
    OBVIOUS
  <1>1. /\ now \in Int /\ ideal \in Int /\ now' = now + 1 /\ now' \in Int /\ now' \in Times
        /\ ideal' = Smaller(Capacity, ideal + Limit)
    BY TypeFacts, BoundsAssumption DEF Tick, IInv, TypeOK, Times
  <1>2. (now' - now) * Limit = Limit
    BY <1>1, CapacityIsNat
  <1>3. ASSUME NEW b \in Bucket, NEW c \in {0, Window}, LevelAt(algorithm, b, now) >= ideal - c
        PROVE  LevelAt(algorithm, b, now') >= ideal' - c
    <2>1. LevelAt(algorithm, b, now') = Smaller(Capacity, LevelAt(algorithm, b, now) + Limit)
      <3>1. LevelAt(algorithm, b, now') = Smaller(Capacity, LevelAt(algorithm, b, now) + (now' - now) * Limit)
        BY <1>1, LevelRefills, TypeFacts
      <3> QED
        BY <3>1, <1>2
    <2>2. LevelAt(algorithm, b, now) \in Int
      BY <1>1, LevelIsInt, TypeFacts
    <2> QED
      BY <2>1, <2>2, <1>1, <1>3, CapacityIsNat DEF Smaller
  <1>4. TypeOK'
    BY <1>1, CapacityIsNat DEF IInv, TypeOK, Tick, Smaller
  <1>5. CallsLookBack'
    BY <1>1, TypeFacts DEF CallsLookBack, Tick
  <1>6. PendingWorth'
    BY <1>3, TypeFacts DEF IInv, PendingWorth, Tick
  <1>7. NeverStricterThanIdeal'
    <2>1. LevelAt(algorithm, bucket, now) >= ideal - 0
      BY <1>1 DEF IInv, NeverStricterThanIdeal
    <2>2. LevelAt(algorithm, bucket, now') >= ideal' - 0
      BY <2>1, <1>3, TypeFacts
    <2>3. ideal' \in Int
      BY <1>4 DEF TypeOK
    <2> QED
      BY <2>2, <2>3 DEF NeverStricterThanIdeal, Tick
  <1> QED
    BY <1>4, <1>5, <1>6, <1>7 DEF IInv

LEMMA ReadClockIInv == \A t \in Threads : IInv /\ ReadClock(t) => IInv'
  <1> SUFFICES ASSUME NEW t \in Threads, IInv, ReadClock(t) PROVE IInv'
    OBVIOUS
  <1>1. TypeOK'
    BY BoundsAssumption DEF IInv, TypeOK, ReadClock, history
  <1>2. CallsLookBack' /\ PendingWorth' /\ NeverStricterThanIdeal'
    BY TypeFacts
    DEF IInv, TypeOK, CallsLookBack, PendingWorth, NeverStricterThanIdeal, ReadClock, history
  <1> QED
    BY <1>1, <1>2 DEF IInv

LEMMA ObserveIInv == IInv /\ Observe => IInv'
  BY DEF IInv, TypeOK, CallsLookBack, PendingWorth, NeverStricterThanIdeal, Observe

\* What a call decides at its own clock reading, seen at the present: the bucket it
\* is about to store is worth at least the ideal one once the call is charged.
LEMMA DecisionWorth ==
  ASSUME IInv, NEW t \in Threads
  PROVE  LET d == Decision(algorithm, bucket, clock[t])
         IN  /\ d \in Decisions /\ d.bucket \in Bucket /\ Charge(d) \in {0, Window}
             /\ ~d.stores => ~d.allowed
             /\ d.stores => LevelAt(algorithm, d.bucket, now) >= ideal - Charge(d)
             /\ ~d.allowed => ideal < Window + (now - clock[t]) * Limit
  <1> DEFINE d == Decision(algorithm, bucket, clock[t])
             c == clock[t]
             then == LevelAt(algorithm, bucket, c)
             gap == (now - c) * Limit
  <1>1. /\ algorithm \in Algorithms /\ bucket \in Bucket /\ now \in Int /\ ideal \in Int
        /\ c \in Nat /\ c \in Int /\ c <= now
    BY TypeFacts
  <1>2. /\ d \in Decisions
        /\ ~d.stores => ~d.allowed
        /\ d.allowed <=> then >= Window
        /\ LevelAt(algorithm, Stored(bucket, d), c) = then - Charge(d)
    BY <1>1, DecisionIsBucket
  <1>3. d.bucket \in Bucket /\ Charge(d) \in {0, Window}
    BY <1>2, DecisionFacts
  <1>4. then \in Int /\ gap \in Nat
    BY <1>1, LevelIsInt, RateIsInt
  <1>5. LevelAt(algorithm, bucket, now) = Smaller(Capacity, then + gap)
    BY <1>1, LevelRefills
  <1>6. Smaller(Capacity, then + gap) >= ideal
    BY <1>5 DEF IInv, NeverStricterThanIdeal
  <1>7. ASSUME d.stores
        PROVE  LevelAt(algorithm, d.bucket, now) >= ideal - Charge(d)
    <2>1. LevelAt(algorithm, d.bucket, c) = then - Charge(d)
      BY <1>2, <1>7 DEF Stored
    <2>2. LevelAt(algorithm, d.bucket, now) = Smaller(Capacity, LevelAt(algorithm, d.bucket, c) + gap)
      BY <1>1, <1>3, LevelRefills
    <2> HIDE DEF d, then, gap
    <2> QED
      BY <2>1, <2>2, <1>1, <1>3, <1>4, <1>6, CapacityIsNat DEF Smaller
  <1>8. ASSUME ~d.allowed
        PROVE  ideal < Window + gap
    <2>1. then < Window
      BY <1>2, <1>4, <1>8, CapacityIsNat
    <2> HIDE DEF d, then, gap
    <2> QED
      BY <2>1, <1>1, <1>4, <1>6, CapacityIsNat DEF Smaller
  <1>9. /\ d \in Decisions /\ d.bucket \in Bucket /\ Charge(d) \in {0, Window}
        /\ ~d.stores => ~d.allowed
        /\ d.stores => LevelAt(algorithm, d.bucket, now) >= ideal - Charge(d)
        /\ ~d.allowed => ideal < Window + gap
    <2> HIDE DEF d, gap
    <2> QED
      BY <1>2, <1>3, <1>7, <1>8
  <1> QED
    BY <1>9

\* Finishing a call charges the ideal bucket with what it admitted.
LEMMA FinishFacts ==
  ASSUME IInv, NEW t \in Threads, NEW d \in Decisions, Finish(t, d)
  PROVE  /\ ideal' = ideal - Charge(d) /\ ideal' \in Int
         /\ decided_at' = clock[t] /\ decided_at' \in Times
         /\ retry_at' \in Int /\ admitted' \in Nat /\ mark' \in [time : Times, admitted : Nat]
  <1>1. ideal \in Int /\ d.retry_at \in Int /\ d.allowed \in BOOLEAN
    BY TypeFacts, DecisionFacts
  <1>2. ideal' = ideal - Charge(d) /\ ideal' \in Int
    BY <1>1, CapacityIsNat DEF Finish, Charge
  <1> QED
    BY <1>1, <1>2, TypeFacts DEF IInv, TypeOK, Finish, NotRejected

LEMMA GetIInv == \A t \in Threads : IInv /\ GetBucket(t) => IInv'
  <1> SUFFICES ASSUME NEW t \in Threads, IInv, GetBucket(t) PROVE IInv'
    OBVIOUS
  <1> DEFINE d == Decision(algorithm, bucket, clock[t])
  <1>1. /\ d \in Decisions /\ d.bucket \in Bucket /\ Charge(d) \in {0, Window}
        /\ ~d.stores => ~d.allowed
        /\ d.stores => LevelAt(algorithm, d.bucket, now) >= ideal - Charge(d)
    BY DecisionWorth
  <1>2. /\ decision' = [decision EXCEPT ![t] = d]
        /\ pc' = [pc EXCEPT ![t] = IF d.stores THEN "set" ELSE "idle"]
        /\ IF d.stores THEN UNCHANGED history ELSE Finish(t, d)
        /\ UNCHANGED <<algorithm, now, bucket, clock, requests>>
    BY DEF GetBucket
  <1> HIDE DEF d
  <1>3. ideal' = ideal /\ ideal \in Int
    <2>1. CASE d.stores
      BY <2>1, <1>2, TypeFacts DEF history
    <2>2. CASE ~d.stores
      BY <2>2, <1>1, <1>2, FinishFacts, TypeFacts DEF Charge
    <2> QED
      BY <2>1, <2>2
  <1>4. TypeOK'
    <2>1. ideal' \in Int /\ decided_at' \in Times /\ retry_at' \in Int /\ admitted' \in Nat
          /\ mark' \in [time : Times, admitted : Nat]
      <3>1. CASE d.stores
        BY <3>1, <1>2 DEF IInv, TypeOK, history
      <3>2. CASE ~d.stores
        BY <3>2, <1>1, <1>2, FinishFacts
      <3> QED
        BY <3>1, <3>2
    <2> QED
      BY <2>1, <1>1, <1>2 DEF IInv, TypeOK
  <1>5. CallsLookBack'
    BY <1>2 DEF IInv, CallsLookBack
  <1>6. PendingWorth'
    <2>1. ASSUME NEW u \in Threads, pc'[u] = "set"
          PROVE  LevelAt(algorithm, decision'[u].bucket, now) >= ideal - Charge(decision'[u])
      <3>1. CASE u = t
        <4>1. decision'[u] = d /\ d.stores
          BY <3>1, <2>1, <1>2 DEF IInv, TypeOK
        <4> QED
          BY <4>1, <1>1
      <3>2. CASE u # t
        <4>1. decision'[u] = decision[u] /\ pc[u] = "set"
          BY <3>2, <2>1, <1>2 DEF IInv, TypeOK
        <4> QED
          BY <4>1 DEF IInv, PendingWorth
      <3> QED
        BY <3>1, <3>2
    <2> QED
      BY <2>1, <1>2, <1>3 DEF PendingWorth, Charge
  <1>7. NeverStricterThanIdeal'
    BY <1>2, <1>3 DEF IInv, NeverStricterThanIdeal
  <1> QED
    BY <1>4, <1>5, <1>6, <1>7 DEF IInv

LEMMA SetIInv == \A t \in Threads : IInv /\ SetBucket(t) => IInv'
  <1> SUFFICES ASSUME NEW t \in Threads, IInv, SetBucket(t) PROVE IInv'
    OBVIOUS
  <1> DEFINE d == decision[t]
  <1>1. /\ d \in Decisions /\ d.bucket \in Bucket /\ Charge(d) \in {0, Window}
        /\ LevelAt(algorithm, d.bucket, now) >= ideal - Charge(d)
    BY TypeFacts DEF IInv, PendingWorth, SetBucket
  <1>2. /\ bucket' = d.bucket /\ pc' = [pc EXCEPT ![t] = "idle"]
        /\ Finish(t, d)
        /\ UNCHANGED <<algorithm, now, clock, decision, requests>>
    BY DEF SetBucket
  <1>3. ideal' = ideal - Charge(d) /\ ideal \in Int
    BY <1>1, <1>2, FinishFacts, TypeFacts
  <1>4. TypeOK'
    <2>1. ideal' \in Int /\ decided_at' \in Times /\ retry_at' \in Int /\ admitted' \in Nat
          /\ mark' \in [time : Times, admitted : Nat]
      BY <1>1, <1>2, FinishFacts
    <2> QED
      BY <2>1, <1>1, <1>2 DEF IInv, TypeOK
  <1>5. CallsLookBack'
    BY <1>2 DEF IInv, CallsLookBack
  <1>6. PendingWorth'
    <2>1. ASSUME NEW u \in Threads, pc'[u] = "set"
          PROVE  LevelAt(algorithm, decision[u].bucket, now) >= ideal' - Charge(decision[u])
      <3>1. u # t /\ pc[u] = "set"
        BY <2>1, <1>2 DEF IInv, TypeOK
      <3>2. LevelAt(algorithm, decision[u].bucket, now) >= ideal - Charge(decision[u])
        BY <3>1 DEF IInv, PendingWorth
      <3>3. LevelAt(algorithm, decision[u].bucket, now) \in Int /\ Charge(decision[u]) \in Int
        BY TypeFacts, LevelIsInt, CapacityIsNat
      <3> QED
        BY <3>2, <3>3, <1>1, <1>3, CapacityIsNat
    <2> QED
      BY <2>1, <1>2 DEF PendingWorth, Charge
  <1>7. NeverStricterThanIdeal'
    BY <1>1, <1>2, <1>3 DEF NeverStricterThanIdeal
  <1> QED
    BY <1>4, <1>5, <1>6, <1>7 DEF IInv

\* An empty store is worth a full bucket.
LEMMA ClearIInv == IInv /\ Clear => IInv'
  <1> SUFFICES ASSUME IInv, Clear PROVE IInv'
    OBVIOUS
  <1>1. bucket' = NoBucket /\ ideal' \in {ideal, Capacity} /\ Capacity \in Int /\ NoBucket \in Bucket
    BY CapacityIsNat DEF Clear, NoBucket, Bucket
  <1>2. /\ (\E t \in Threads : pc[t] = "set") => ideal' = ideal
        /\ UNCHANGED <<algorithm, now, pc, clock, decision, requests, decided_at, retry_at, admitted, mark>>
    BY DEF Clear
  <1>3. TypeOK' /\ CallsLookBack' /\ PendingWorth'
    BY <1>1, <1>2 DEF IInv, TypeOK, CallsLookBack, PendingWorth, Charge
  <1>4. NeverStricterThanIdeal'
    <2>1. ideal <= Capacity
      BY TypeFacts, LevelIsInt, CapacityIsNat DEF IInv, NeverStricterThanIdeal
    <2> QED
      BY <1>1, <1>2, <2>1 DEF NeverStricterThanIdeal, LevelAt
  <1> QED
    BY <1>3, <1>4 DEF IInv

LEMMA NextIInv == IInv /\ [Next]_vars => IInv'
  <1>1. IInv /\ UNCHANGED vars => IInv'
    BY DEF vars, IInv, TypeOK, CallsLookBack, PendingWorth, NeverStricterThanIdeal
  <1> QED
    BY <1>1, ClearIInv, TickIInv, ObserveIInv, ReadClockIInv, GetIInv, SetIInv DEF Next

\* All the above: the inductive invariant of the buckets, whatever threads and resets do.
THEOREM Invariance == Spec => []IInv
  BY NextIInv, InitIInv, PTL DEF Spec

\* Type correctness: every decision, and every bucket stored by one, is a value the
\* repository can hold, whichever algorithm takes it and however calls interleave.
THEOREM TypeCorrect == Spec => []TypeOK
  <1>1. IInv => TypeOK
    BY DEF IInv
  <1> QED
    BY <1>1, Invariance, PTL

\* However many threads call and however they interleave, the store never charges a
\* client for a request twice: races make the limiter looser, never stricter.
THEOREM RacesNeverOvercharge == Spec => []NeverStricterThanIdeal
  <1>1. IInv => NeverStricterThanIdeal
    BY DEF IInv
  <1> QED
    BY <1>1, Invariance, PTL

\* A rejected call found even the ideal bucket unable to pay when it began.
THEOREM RejectionsAreEarned == Spec => RejectsOnlyWhenEmpty
  <1> DEFINE Earned ==
        \A t \in Threads :
          pc[t] = "get" /\ pc'[t] # "get" /\ ~decision'[t].allowed =>
            ideal < Window + (now - clock[t]) * Limit
  <1>1. IInv /\ [Next]_vars => [Earned]_vars
    <2> SUFFICES ASSUME IInv, [Next]_vars, NEW t \in Threads,
                        pc[t] = "get", pc'[t] # "get", ~decision'[t].allowed
                 PROVE  ideal < Window + (now - clock[t]) * Limit
      OBVIOUS
    <2>1. GetBucket(t)
      <3>1. ASSUME NEW u \in Threads, ReadClock(u) \/ GetBucket(u) \/ SetBucket(u) PROVE u = t
        BY <3>1 DEF IInv, TypeOK, ReadClock, GetBucket, SetBucket
      <3>2. ~ReadClock(t) /\ ~SetBucket(t)
        BY DEF ReadClock, SetBucket
      <3> QED
        BY <3>1, <3>2 DEF Next, vars, Tick, Observe, Clear
    <2>2. decision'[t] = Decision(algorithm, bucket, clock[t])
      BY <2>1 DEF GetBucket, IInv, TypeOK
    <2> QED
      BY <2>2, DecisionWorth
  <1> QED
    BY <1>1, Invariance, PTL DEF Spec, RejectsOnlyWhenEmpty

-----------------------------------------------------------------------------
(***************************************************************************)
(* Calls one after the other.  With one thread and no reset the bucket a   *)
(* call read is still in the store when it stores its own, so the two      *)
(* steps act as one step of RateBucket at the call's clock reading.        *)
(***************************************************************************)
OneThread == \A t, u \in Threads : t = u

LastCall ==
  /\ decided_at <= now
  /\ \A t \in Threads :
       /\ pc[t] # "idle" => decided_at <= clock[t]
       /\ pc[t] = "set" =>
            /\ decision[t] = Decision(algorithm, bucket, clock[t])
            /\ decision[t].stores

SerialInv == IInv /\ LastCall

LEMMA SerialInvariance ==
  ASSUME ~AdminReset, OneThread
  PROVE  Spec => []SerialInv
  <1>1. Init => LastCall
    BY DEF Init, LastCall
  <1>2. IInv /\ LastCall /\ [Next]_vars => LastCall'
    <2> SUFFICES ASSUME IInv, LastCall, [Next]_vars PROVE LastCall'
      OBVIOUS
    <2>1. CASE UNCHANGED vars
      BY <2>1 DEF LastCall, vars
    <2>2. CASE Tick
      <3>1. now' = now + 1 /\ now \in Nat /\ decided_at \in Nat
        BY <2>2, TimesAreNat DEF IInv, TypeOK, Tick
      <3> QED
        BY <2>2, <3>1 DEF LastCall, Tick
    <2>3. CASE Observe
      BY <2>3 DEF LastCall, Observe
    <2>4. ASSUME NEW t \in Threads, ReadClock(t) PROVE LastCall'
      BY <2>4 DEF IInv, TypeOK, LastCall, ReadClock, history
    <2>5. ASSUME NEW t \in Threads, GetBucket(t) PROVE LastCall'
      <3> DEFINE d == Decision(algorithm, bucket, clock[t])
      <3>1. /\ decision' = [decision EXCEPT ![t] = d]
            /\ pc' = [pc EXCEPT ![t] = IF d.stores THEN "set" ELSE "idle"]
            /\ IF d.stores THEN UNCHANGED history ELSE Finish(t, d)
            /\ UNCHANGED <<algorithm, now, bucket, clock, requests>>
            /\ pc[t] = "get"
        BY <2>5 DEF GetBucket
      <3>2. /\ decision'[t] = Decision(algorithm', bucket', clock'[t])
            /\ pc'[t] = (IF decision'[t].stores THEN "set" ELSE "idle")
        BY <3>1 DEF IInv, TypeOK
      <3>3. decided_at' <= now' /\ decided_at' <= clock'[t]
        <4>1. decided_at <= now /\ decided_at <= clock[t] /\ clock[t] <= now
          BY <3>1, TypeFacts DEF LastCall
        <4>2. decided_at' = decided_at \/ decided_at' = clock[t]
          BY <3>1 DEF Finish, history
        <4> QED
          BY <4>1, <4>2, <3>1, TypeFacts, TimesAreNat DEF IInv, TypeOK
      <3> HIDE DEF d
      <3> QED
        BY <3>2, <3>3, OneThread DEF LastCall, OneThread
    <2>6. ASSUME NEW t \in Threads, SetBucket(t) PROVE LastCall'
      <3>1. decided_at' = clock[t] /\ clock[t] <= now /\ now' = now /\ pc'[t] = "idle"
        BY <2>6, TypeFacts DEF SetBucket, Finish, IInv, TypeOK
      <3> QED
        BY <3>1, OneThread DEF LastCall, OneThread
    <2>7. ~Clear
      BY DEF Clear
    <2> QED
      BY <2>1, <2>2, <2>3, <2>4, <2>5, <2>6, <2>7 DEF Next
  <1> QED
    BY <1>1, <1>2, Invariance, PTL DEF Spec, SerialInv

\* A call that finishes at its clock reading is one decision of the abstract bucket.
LEMMA FinishIsDecision ==
  ASSUME SerialInv, NEW t \in Threads, NEW d,
         d = Decision(algorithm, bucket, clock[t]),
         decided_at <= clock[t],
         Finish(t, d), bucket' = Stored(bucket, d), algorithm' = algorithm
  PROVE  RB!AdmitAt(clock[t]) \/ RB!RejectAt(clock[t])
  <1> DEFINE c == clock[t]
             old == LevelAt(algorithm, bucket, decided_at)
             then == LevelAt(algorithm, bucket, c)
  <1>1. /\ algorithm \in Algorithms /\ bucket \in Bucket /\ c \in Nat /\ c \in Int
        /\ decided_at \in Nat /\ decided_at \in Int
    BY TypeFacts, TimesAreNat DEF SerialInv, IInv, TypeOK
  <1>2. then = Smaller(Capacity, old + (c - decided_at) * Limit)
    BY <1>1, LevelRefills
  <1>3. /\ old \in Int /\ then \in Int /\ (c - decided_at) * Limit \in Int
    BY <1>1, LevelIsInt, RateIsInt
  <1>4. RB!Refilled(c) = then
    <2>1. RB!Capacity = Capacity
      BY DEF RB!Capacity, Capacity
    <2> HIDE DEF c
    <2> QED
      BY <1>2, <1>3, <2>1, CapacityIsNat DEF RB!Refilled, Smaller
  <1>5. /\ d \in Decisions
        /\ d.allowed <=> then >= Window
        /\ LevelAt(algorithm, Stored(bucket, d), c) = then - Charge(d)
    BY <1>1, DecisionIsBucket
  <1>6. /\ decided_at' = c /\ mark' = mark
        /\ LevelAt(algorithm', bucket', decided_at') = then - Charge(d)
    BY <1>5 DEF Finish
  <1>7. CASE d.allowed
    <2>1. admitted' = admitted + 1 /\ Charge(d) = Window /\ then >= Window
      BY <1>5, <1>7 DEF Finish, Charge
    <2> QED
      BY <2>1, <1>1, <1>4, <1>6 DEF RB!AdmitAt
  <1>8. CASE ~d.allowed
    <2>1. admitted' = admitted /\ Charge(d) = 0 /\ then < Window
      BY <1>3, <1>5, <1>8, CapacityIsNat DEF Finish, Charge
    <2> QED
      BY <2>1, <1>1, <1>3, <1>4, <1>6 DEF RB!RejectAt
  <1> QED
    BY <1>7, <1>8

\* Serial calls of each of the three algorithms implement the one abstract bucket,
\* for every limit and window: they are equivalent, as gcra.py:53 says of its own.
THEOREM SerialCallsImplementRateBucket ==
  ASSUME ~AdminReset, OneThread
  PROVE  Spec => ImplementsRateBucket
  <1>1. Init => RB!Start
    BY DEF Init, RB!Start, RB!Capacity, LevelAt, Capacity
  <1>2. SerialInv /\ [Next]_vars => [RB!Step]_(RB!bucket_vars)
    <2> SUFFICES ASSUME SerialInv, [Next]_vars
                 PROVE  RB!Step \/ UNCHANGED RB!bucket_vars
      OBVIOUS
    <2>1. CASE UNCHANGED vars
      BY <2>1 DEF vars, RB!bucket_vars
    <2>2. CASE Tick
      BY <2>2 DEF Tick, RB!bucket_vars
    <2>3. CASE Observe
      BY <2>3 DEF Observe, RB!Step, RB!Observe
    <2>4. ASSUME NEW t \in Threads, ReadClock(t) PROVE UNCHANGED RB!bucket_vars
      BY <2>4 DEF ReadClock, history, RB!bucket_vars
    <2>5. ASSUME NEW t \in Threads, GetBucket(t) PROVE RB!Step \/ UNCHANGED RB!bucket_vars
      <3> DEFINE d == Decision(algorithm, bucket, clock[t])
      <3>1. clock[t] \in 0 .. MaxTime /\ decided_at <= clock[t]
        BY <2>5, TypeFacts DEF SerialInv, LastCall, GetBucket, Times
      <3>2. CASE d.stores
        BY <2>5, <3>2 DEF GetBucket, history, RB!bucket_vars
      <3>3. CASE ~d.stores
        <4>1. Finish(t, d) /\ bucket' = Stored(bucket, d) /\ algorithm' = algorithm
          BY <2>5, <3>3 DEF GetBucket, Stored
        <4>2. RB!AdmitAt(clock[t]) \/ RB!RejectAt(clock[t])
          BY <3>1, <4>1, FinishIsDecision
        <4> QED
          BY <3>1, <4>2 DEF RB!Step
      <3> QED
        BY <3>2, <3>3
    <2>6. ASSUME NEW t \in Threads, SetBucket(t) PROVE RB!Step
      <3>1. /\ clock[t] \in 0 .. MaxTime /\ decided_at <= clock[t]
            /\ decision[t] = Decision(algorithm, bucket, clock[t])
            /\ Finish(t, decision[t]) /\ bucket' = Stored(bucket, decision[t])
            /\ algorithm' = algorithm
        BY <2>6, TypeFacts DEF SerialInv, LastCall, SetBucket, Stored, Times
      <3>2. RB!AdmitAt(clock[t]) \/ RB!RejectAt(clock[t])
        BY <3>1, FinishIsDecision
      <3> QED
        BY <3>1, <3>2 DEF RB!Step
    <2>7. ~Clear
      BY DEF Clear
    <2> QED
      BY <2>1, <2>2, <2>3, <2>4, <2>5, <2>6, <2>7 DEF Next
  <1> QED
    BY <1>1, <1>2, SerialInvariance, PTL DEF Spec, ImplementsRateBucket, RB!Spec

-----------------------------------------------------------------------------
(***************************************************************************)
(* The bound of RateBucket on every interval: what the bucket holds and    *)
(* what it has paid for together grow no faster than it refills, and it    *)
(* never holds more than its capacity.  Stated of the bucket that RB sees, *)
(* whatever the algorithm, the limit and the window.                       *)
(***************************************************************************)
Level == LevelAt(algorithm, bucket, decided_at)

RateInv == RB!BucketTypeOK /\ mark.time <= decided_at /\ RB!IntervalBound

\* The invariant in plain terms.
Paid == (admitted - mark.admitted) * Window
Filled == (decided_at - mark.time) * Limit

LEMMA RateInvFacts ==
  RateInv <=>
    /\ Level \in 0 .. Capacity /\ decided_at \in Nat /\ admitted \in Nat
    /\ mark \in [time : Nat, admitted : Nat] /\ mark.time <= decided_at
    /\ Paid + Level <= Capacity + Filled
  BY DEF RateInv, RB!BucketTypeOK, RB!IntervalBound, RB!Capacity, Capacity, Level, Paid, Filled

LEMMA PaidAreInt ==
  ASSUME admitted \in Nat, decided_at \in Nat, mark \in [time : Nat, admitted : Nat]
  PROVE  Paid \in Int /\ Filled \in Int
  BY CapacityIsNat DEF Paid, Filled

\* Refilling fills up to the capacity, and brings at most Limit in a tick.
LEMMA RefilledBounds ==
  ASSUME RateInv, NEW t \in 0 .. MaxTime, t >= decided_at
  PROVE  /\ RB!Refilled(t) \in 0 .. Capacity
         /\ RB!Refilled(t) <= Level + (t - decided_at) * Limit
         /\ (t - decided_at) * Limit \in Nat
  <1>1. Level \in Nat /\ Level <= Capacity /\ Capacity \in Nat
    BY CapacityIsNat, RateInvFacts
  <1>2. (t - decided_at) * Limit \in Nat
    BY RateInvFacts, CapacityIsNat
  <1>3. RB!Refilled(t) = (IF Level + (t - decided_at) * Limit < Capacity
                            THEN Level + (t - decided_at) * Limit ELSE Capacity)
    BY DEF RB!Refilled, RB!Capacity, Capacity, Level
  <1> QED
    BY <1>1, <1>2, <1>3

LEMMA RateInit == RB!Start => RateInv
  <1> SUFFICES ASSUME RB!Start PROVE RateInv
    OBVIOUS
  <1>1. /\ Level = Capacity /\ decided_at = 0 /\ admitted = 0
        /\ mark = [time |-> 0, admitted |-> 0]
    BY DEF RB!Start, Level, RB!Capacity, Capacity
  <1>2. Paid = 0 /\ Filled = 0
    BY <1>1, CapacityIsNat DEF Paid, Filled
  <1> QED
    BY <1>1, <1>2, CapacityIsNat, RateInvFacts

\* A decision takes from the bucket what it adds to what was paid.
LEMMA RateDecision ==
  ASSUME RateInv, NEW t \in 0 .. MaxTime, RB!AdmitAt(t) \/ RB!RejectAt(t)
  PROVE  RateInv'
  <1> DEFINE r == RB!Refilled(t)
             d == (t - decided_at) * Limit
             a == admitted'
             x == Level'
             y == Paid'
             z == Filled'
  <1>1. t >= decided_at /\ decided_at' = t /\ mark' = mark
    BY DEF RB!AdmitAt, RB!RejectAt
  <1>2. /\ r \in 0 .. Capacity /\ r <= Level + d /\ d \in Nat
        /\ Level \in 0 .. Capacity /\ decided_at \in Nat /\ admitted \in Nat
        /\ mark \in [time : Nat, admitted : Nat] /\ mark.time <= decided_at
        /\ Paid + Level <= Capacity + Filled
        /\ Paid \in Int /\ Filled \in Int
    BY <1>1, RefilledBounds, RateInvFacts, PaidAreInt
  <1>3. \/ r >= Window /\ x = r - Window /\ a = admitted + 1
        \/ x = r /\ a = admitted
    BY DEF RB!AdmitAt, RB!RejectAt, Level
  <1>4. y = (a - mark.admitted) * Window /\ z = (t - mark.time) * Limit
    BY <1>1 DEF Paid, Filled
  <1>5. z = Filled + d
    BY <1>2, <1>4, CapacityIsNat DEF Filled
  <1>6. /\ a = admitted + 1 => y = Paid + Window
        /\ a = admitted => y = Paid
    BY <1>2, <1>4, CapacityIsNat DEF Paid
  <1> HIDE DEF r, d, a, x, y, z
  <1>7. x \in 0 .. Capacity /\ a \in Nat /\ y + x <= Capacity + z
    BY <1>2, <1>3, <1>5, <1>6, CapacityIsNat
  <1>8. mark'.time <= decided_at' /\ decided_at' \in Nat /\ mark' \in [time : Nat, admitted : Nat]
    BY <1>1, <1>2
  <1> QED
    <2>1. /\ Level' \in 0 .. Capacity /\ decided_at' \in Nat /\ admitted' \in Nat
          /\ mark' \in [time : Nat, admitted : Nat] /\ mark'.time <= decided_at'
          /\ Paid' + Level' <= Capacity + Filled'
      BY <1>7, <1>8 DEF a, x, y, z
    <2> QED
      BY <2>1 DEF RateInv, RB!BucketTypeOK, RB!IntervalBound, RB!Capacity, Capacity, Level, Paid, Filled

\* A new interval begins with at most the capacity in the bucket.
LEMMA RateObserve == RateInv /\ RB!Observe => RateInv'
  <1> SUFFICES ASSUME RateInv, RB!Observe PROVE RateInv'
    OBVIOUS
  <1>1. /\ mark' = [time |-> decided_at, admitted |-> admitted]
        /\ Level' = Level /\ decided_at' = decided_at /\ admitted' = admitted
    BY DEF RB!Observe, Level
  <1>2. Level \in 0 .. Capacity /\ decided_at \in Nat /\ admitted \in Nat
    BY RateInvFacts
  <1>3. Paid' = 0 /\ Filled' = 0
    BY <1>1, <1>2, CapacityIsNat DEF Paid, Filled
  <1>4. /\ Level' \in 0 .. Capacity /\ decided_at' \in Nat /\ admitted' \in Nat
        /\ mark' \in [time : Nat, admitted : Nat] /\ mark'.time <= decided_at'
        /\ Paid' + Level' <= Capacity + Filled'
    BY <1>1, <1>2, <1>3, CapacityIsNat
  <1> QED
    BY <1>4 DEF RateInv, RB!BucketTypeOK, RB!IntervalBound, RB!Capacity, Capacity, Level, Paid, Filled

LEMMA RateInvariance == RB!Spec => []RateInv
  <1>1. RateInv /\ [RB!Step]_(RB!bucket_vars) => RateInv'
    <2> SUFFICES ASSUME RateInv, [RB!Step]_(RB!bucket_vars) PROVE RateInv'
      OBVIOUS
    <2>1. CASE UNCHANGED RB!bucket_vars
      BY <2>1 DEF RB!bucket_vars, RateInv, RB!BucketTypeOK, RB!IntervalBound
    <2>2. CASE RB!Observe
      BY <2>2, RateObserve
    <2>3. ASSUME NEW t \in 0 .. MaxTime, RB!AdmitAt(t) \/ RB!RejectAt(t) PROVE RateInv'
      BY <2>3, RateDecision
    <2> QED
      BY <2>1, <2>2, <2>3 DEF RB!Step
  <1> QED
    BY <1>1, RateInit, PTL DEF RB!Spec

\* The level stays between empty and full.
THEOREM LevelWithinCapacity == RB!Spec => []RB!BucketTypeOK
  <1>1. RateInv => RB!BucketTypeOK
    BY DEF RateInv
  <1> QED
    BY <1>1, RateInvariance, PTL

\* The promise of the bucket algorithms: whatever interval is observed, what it
\* admits costs at most the capacity plus what the interval refills.
THEOREM EveryIntervalBounded == RB!Spec => []RB!IntervalBound
  <1>1. RateInv => RB!IntervalBound
    BY DEF RateInv
  <1> QED
    BY <1>1, RateInvariance, PTL

\* Hence no interval of serial calls admits more than the capacity and what the
\* interval refills, whichever algorithm decides.
THEOREM SerialBurstsBounded ==
  ASSUME ~AdminReset, OneThread
  PROVE  Spec => []BurstWithinCapacity
  <1>1. ImplementsRateBucket => []RateInv
    BY RateInvariance DEF ImplementsRateBucket
  <1>2. RateInv => BurstWithinCapacity
    <2> SUFFICES ASSUME RateInv PROVE BurstWithinCapacity
      OBVIOUS
    <2>1. Paid + Level <= Capacity + Filled /\ Level \in Nat /\ Paid \in Int /\ Filled \in Int
      BY RateInvFacts, PaidAreInt, CapacityIsNat
    <2>2. Paid <= Capacity + Filled
      BY <2>1, CapacityIsNat
    <2> QED
      BY <2>2 DEF BurstWithinCapacity, Paid, Filled
  <1> QED
    BY <1>1, <1>2, SerialCallsImplementRateBucket, PTL

-----------------------------------------------------------------------------
(***************************************************************************)
(* What a rejected client is told.  The time it may come back at is when   *)
(* the bucket it was rejected by will hold a request's worth; the bucket   *)
(* only refills until another call is admitted.                            *)
(***************************************************************************)
LEMMA RejectionsComeBack ==
  ASSUME NEW a \in Algorithms, NEW b \in Bucket, NEW t \in Nat,
         LevelAt(a, b, t) >= 0, ~Decision(a, b, t).allowed
  PROVE  LET sum == LevelAt(a, b, t) + Decision(a, b, t).retry_at
         IN  /\ sum >= Window + t * Limit
             /\ sum < Window + Window + t * Limit
             /\ a # "token_bucket" => sum = Window + t * Limit
  <1> DEFINE d == Decision(a, b, t)
             x == (t - b.last_refill) * Limit
             y == t * Limit
             level == LevelAt(a, b, t)
  <1>1. b.tokens \in Int /\ b.last_refill \in Int /\ x \in Int /\ y \in Nat
    <2>1. b.tokens \in Int /\ b.last_refill \in Int
      BY DEF Bucket
    <2> QED
      BY <2>1, RateIsInt, CapacityIsNat
  <1>2. level \in Int /\ level < Window /\ level >= 0
    BY DecisionIsBucket, LevelIsInt, CapacityIsNat
  <1>3. b # NoBucket
    BY <1>2, CapacityIsNat DEF LevelAt
  <1>4. CASE a = "token_bucket"
    <2> DEFINE n == Smaller(Capacity, b.tokens + x)
    <2>1. level = n
      BY <1>3, <1>4 DEF LevelAt
    <2>2. d = Reject(n, t, y + Window)
      <3>1. n < Window /\ n \in Int
        BY <1>2, <2>1
      <3>2. ~(n >= Window)
        BY <3>1, CapacityIsNat
      <3> QED
        BY <1>3, <1>4, <3>2 DEF Decision, TokenBucketDecision
    <2>3. d.retry_at = y + Window
      BY <2>2 DEF Reject
    <2> HIDE DEF d, level, y, n
    <2>4. level + d.retry_at >= Window + y /\ level + d.retry_at < Window + Window + y
      BY <1>1, <1>2, <2>3, CapacityIsNat
    <2> QED
      BY <1>4, <2>4 DEF d, level, y
  <1>5. CASE a = "leaky_bucket"
    <2> DEFINE water == Larger(0, b.tokens - x)
    <2>1. level = Capacity - water /\ water \in Int
      BY <1>1, <1>3, <1>5 DEF LevelAt, Larger
    <2>2. d = Reject(water, t, y + water + Window - Capacity)
      <3> HIDE DEF level
      <3>1. ~(water + Window <= Capacity)
        <4> HIDE DEF water
        <4> QED
          BY <1>2, <2>1, CapacityIsNat
      <3> QED
        BY <1>3, <1>5, <3>1 DEF Decision, LeakyBucketDecision
    <2>3. d.retry_at = y + water + Window - Capacity
      BY <2>2 DEF Reject
    <2> HIDE DEF d, level, y, water
    <2> QED
      BY <1>1, <1>2, <2>1, <2>3, CapacityIsNat DEF d, level, y
  <1>6. CASE a = "gcra"
    <2>1. level = Capacity - Larger(0, b.tokens - y)
      BY <1>3, <1>6 DEF LevelAt
    <2>2. level = Capacity - (b.tokens - y) /\ ~(y >= b.tokens - (Capacity - Window))
      <3> HIDE DEF level, y
      <3> QED
        BY <1>1, <1>2, <2>1, CapacityIsNat DEF Larger
    <2>3. d = [Reject(b.tokens, 0, b.tokens - (Capacity - Window)) EXCEPT !.stores = FALSE]
      BY <1>3, <1>6, <2>2 DEF Decision, GCRADecision
    <2>4. d.retry_at = b.tokens - (Capacity - Window)
      BY <2>3 DEF Reject
    <2> HIDE DEF d, level, y
    <2> QED
      BY <1>1, <1>2, <2>2, <2>4, CapacityIsNat DEF d, level, y
  <1> QED
    BY <1>4, <1>5, <1>6 DEF Algorithms

\* What the bucket is worth at a later call.
LEMMA WorthLater ==
  ASSUME algorithm \in Algorithms, bucket \in Bucket, decided_at \in Nat,
         NEW c \in Nat, decided_at <= c
  PROVE  /\ LevelAt(algorithm, bucket, c) = Smaller(Capacity, Level + (c - decided_at) * Limit)
         /\ (c - decided_at) * Limit \in Nat /\ c * Limit \in Nat /\ decided_at * Limit \in Nat
         /\ c * Limit = decided_at * Limit + (c - decided_at) * Limit
  <1>1. c \in Int /\ decided_at \in Int
    OBVIOUS
  <1>2. (c - decided_at) * Limit \in Nat /\ c * Limit \in Nat /\ decided_at * Limit \in Nat
    BY <1>1, RateIsInt, CapacityIsNat
  <1>3. c * Limit = decided_at * Limit + (c - decided_at) * Limit
    BY <1>1, RateAddsUp
  <1>4. LevelAt(algorithm, bucket, c) = Smaller(Capacity, Level + (c - decided_at) * Limit)
    BY <1>1, LevelRefills DEF Level
  <1> QED
    BY <1>2, <1>3, <1>4

\* What the last rejection promised holds of the bucket the store keeps.
RetryInv == retry_at # NotRejected => Level + retry_at >= Window + decided_at * Limit

\* A call that finishes leaves a promise the bucket will keep.
LEMMA FinishKeepsPromise ==
  ASSUME SerialInv, RateInv, NEW t \in Threads, NEW d,
         d = Decision(algorithm, bucket, clock[t]), decided_at <= clock[t],
         Finish(t, d), bucket' = Stored(bucket, d), algorithm' = algorithm
  PROVE  RetryInv'
  <1> DEFINE c == clock[t]
             then == LevelAt(algorithm, bucket, c)
             gap == (c - decided_at) * Limit
  <1>1. /\ algorithm \in Algorithms /\ bucket \in Bucket /\ c \in Nat
        /\ decided_at \in Nat /\ Level \in Int /\ Level >= 0
    <2>1. algorithm \in Algorithms /\ bucket \in Bucket /\ c \in Nat
      BY TypeFacts DEF SerialInv
    <2>2. decided_at \in Nat /\ Level \in Int /\ Level >= 0
      BY RateInvFacts, CapacityIsNat
    <2> QED
      BY <2>1, <2>2
  <1>2. then >= 0
    <2>1. then = Smaller(Capacity, Level + gap) /\ gap \in Nat
      BY <1>1, WorthLater
    <2> HIDE DEF then, gap
    <2> QED
      BY <1>1, <2>1, CapacityIsNat DEF Smaller
  <1>3. CASE d.allowed
    BY <1>3 DEF Finish, RetryInv, NotRejected
  <1>4. CASE ~d.allowed
    <2>1. then + d.retry_at >= Window + c * Limit
      BY <1>1, <1>2, <1>4, RejectionsComeBack
    <2>2. Level' = then
      <3>1. LevelAt(algorithm, Stored(bucket, d), c) = then - Charge(d) /\ Charge(d) = 0
        BY <1>1, <1>4, DecisionIsBucket DEF Charge
      <3>2. Level' = LevelAt(algorithm, Stored(bucket, d), c)
        BY DEF Level, Finish
      <3>3. then \in Int
        BY <1>1, LevelIsInt
      <3> HIDE DEF then
      <3> QED
        BY <3>1, <3>2, <3>3
    <2>3. retry_at' = d.retry_at /\ decided_at' = c
      BY <1>4 DEF Finish
    <2> QED
      BY <2>1, <2>2, <2>3 DEF RetryInv
  <1> QED
    BY <1>3, <1>4

LEMMA RetryInvariance ==
  ASSUME ~AdminReset, OneThread
  PROVE  Spec => []RetryInv
  <1>1. Init => RetryInv
    BY DEF Init, RetryInv
  <1>2. SerialInv /\ RateInv /\ RetryInv /\ [Next]_vars => RetryInv'
    <2> SUFFICES ASSUME SerialInv, RateInv, RetryInv, [Next]_vars PROVE RetryInv'
      OBVIOUS
    <2>1. CASE UNCHANGED <<algorithm, bucket, decided_at, retry_at>>
      BY <2>1 DEF RetryInv, Level
    <2>2. CASE UNCHANGED vars
      BY <2>1, <2>2 DEF vars
    <2>3. CASE Tick \/ Observe
      BY <2>1, <2>3 DEF Tick, Observe
    <2>4. ASSUME NEW t \in Threads, ReadClock(t) PROVE RetryInv'
      BY <2>1, <2>4 DEF ReadClock, history
    <2>5. ASSUME NEW t \in Threads, GetBucket(t) PROVE RetryInv'
      <3> DEFINE d == Decision(algorithm, bucket, clock[t])
      <3>1. CASE d.stores
        BY <2>1, <2>5, <3>1 DEF GetBucket, history
      <3>2. CASE ~d.stores
        <4>1. Finish(t, d) /\ bucket' = Stored(bucket, d) /\ algorithm' = algorithm
          BY <2>5, <3>2 DEF GetBucket, Stored
        <4>2. decided_at <= clock[t]
          BY <2>5 DEF SerialInv, LastCall, GetBucket
        <4> QED
          BY <4>1, <4>2, FinishKeepsPromise
      <3> QED
        BY <3>1, <3>2
    <2>6. ASSUME NEW t \in Threads, SetBucket(t) PROVE RetryInv'
      <3>1. /\ decided_at <= clock[t]
            /\ decision[t] = Decision(algorithm, bucket, clock[t])
            /\ Finish(t, decision[t]) /\ bucket' = Stored(bucket, decision[t])
            /\ algorithm' = algorithm
        BY <2>6 DEF SerialInv, LastCall, SetBucket, Stored
      <3> QED
        BY <3>1, FinishKeepsPromise
    <2>7. ~Clear
      BY DEF Clear
    <2> QED
      BY <2>2, <2>3, <2>4, <2>5, <2>6, <2>7 DEF Next
  <1>3. Spec => []RateInv
    BY RateInvariance, SerialCallsImplementRateBucket DEF ImplementsRateBucket
  <1> QED
    BY <1>1, <1>2, <1>3, SerialInvariance, PTL DEF Spec

\* The reset_at of a rejection is right for each of the three algorithms: of calls made
\* one after the other, one that comes when it was told to is admitted, unless another
\* was admitted in between.
THEOREM RejectedMayComeBack ==
  ASSUME ~AdminReset, OneThread
  PROVE  Spec => RetryAfterSuffices
  <1> DEFINE Kept ==
        \A t \in Threads :
          pc[t] = "get" /\ pc'[t] # "get"
            /\ retry_at # NotRejected /\ clock[t] * Limit >= retry_at =>
              decision'[t].allowed
  <1>1. SerialInv /\ RateInv /\ RetryInv /\ [Next]_vars => [Kept]_vars
    <2> SUFFICES ASSUME SerialInv, RateInv, RetryInv, [Next]_vars, NEW t \in Threads,
                        pc[t] = "get", pc'[t] # "get",
                        retry_at # NotRejected, clock[t] * Limit >= retry_at
                 PROVE  decision'[t].allowed
      OBVIOUS
    <2> DEFINE c == clock[t]
               then == LevelAt(algorithm, bucket, c)
               d == Decision(algorithm, bucket, c)
               gap == (c - decided_at) * Limit
               y == c * Limit
               z == decided_at * Limit
    <2>1. GetBucket(t)
      <3>1. ASSUME NEW u \in Threads, ReadClock(u) \/ GetBucket(u) \/ SetBucket(u) PROVE u = t
        BY <3>1 DEF SerialInv, IInv, TypeOK, ReadClock, GetBucket, SetBucket
      <3>2. ~ReadClock(t) /\ ~SetBucket(t)
        BY DEF ReadClock, SetBucket
      <3> QED
        BY <3>1, <3>2 DEF Next, vars, Tick, Observe, Clear
    <2>2. decision'[t] = d
      BY <2>1 DEF GetBucket, SerialInv, IInv, TypeOK
    <2>3. /\ algorithm \in Algorithms /\ bucket \in Bucket /\ c \in Nat
          /\ decided_at \in Nat /\ decided_at <= c /\ Level \in Int /\ retry_at \in Int
      <3>1. algorithm \in Algorithms /\ bucket \in Bucket /\ c \in Nat
        BY TypeFacts DEF SerialInv
      <3>2. decided_at \in Nat /\ Level \in Int
        BY RateInvFacts, CapacityIsNat
      <3>3. decided_at <= c /\ retry_at \in Int
        BY DEF SerialInv, LastCall, IInv, TypeOK
      <3> QED
        BY <3>1, <3>2, <3>3
    <2>4. /\ then = Smaller(Capacity, Level + gap) /\ gap \in Nat /\ y = z + gap
          /\ y \in Nat /\ z \in Nat
      BY <2>3, WorthLater
    <2>5. Level + retry_at >= Window + z /\ y >= retry_at
      BY DEF RetryInv
    <2>6. then >= Window
      <3> HIDE DEF then, gap, y, z, c
      <3> QED
        BY <2>3, <2>4, <2>5, CapacityIsNat DEF Smaller
    <2> QED
      BY <2>2, <2>3, <2>6, DecisionIsBucket
  <1>2. Spec => []RateInv
    BY RateInvariance, SerialCallsImplementRateBucket DEF ImplementsRateBucket
  <1> QED
    BY <1>1, <1>2, SerialInvariance, RetryInvariance, PTL DEF Spec, RetryAfterSuffices

-----------------------------------------------------------------------------
(***************************************************************************)
(* The three algorithms side by side: the same calls, at the same          *)
(* instants, made of a limiter of each kind, one call after the other.     *)
(* Whatever each of them keeps, it is worth the same at every instant, so  *)
(* no client can tell by its verdicts which of the three is configured.    *)
(* Only what a rejected client is told differs: the leaky bucket and GCRA  *)
(* name the first instant it would be admitted at, the token bucket waits  *)
(* for a whole token and is late by less than the time of one.             *)
(***************************************************************************)
VARIABLES time, held

Verdict(a, t) == Decision(a, held[a], t)

Together(t) ==
  /\ time <= t /\ time' = t
  /\ held' = [a \in Algorithms |-> Stored(held[a], Verdict(a, t))]

SideBySide ==
  /\ time = 0 /\ held = [a \in Algorithms |-> NoBucket]
  /\ [][\E t \in Nat : Together(t)]_<<time, held>>

SameVerdicts ==
  \A a, b \in Algorithms, t \in Nat :
    time <= t => (Verdict(a, t).allowed <=> Verdict(b, t).allowed)

\* Of the bucket a rejection leaves: when a call u that comes next is admitted.
RetryAfterIsExact ==
  \A a \in Algorithms, t, u \in Nat :
    LET d == Verdict(a, t)
        passes == Decision(a, Stored(held[a], d), u).allowed
    IN  time <= t /\ t <= u /\ ~ d.allowed =>
          /\ u * Limit >= d.retry_at => passes
          /\ passes => u * Limit > d.retry_at - Window
          /\ passes /\ a # "token_bucket" => u * Limit >= d.retry_at

Worth(a, t) == LevelAt(a, held[a], t)

SideInv ==
  /\ time \in Nat
  /\ held \in [Algorithms -> Bucket]
  /\ \A a, b \in Algorithms : Worth(a, time) = Worth(b, time) /\ 0 <= Worth(a, time)

\* As long as nobody calls, the three refill alike.
LEMMA SideFacts ==
  ASSUME SideInv, NEW a \in Algorithms, NEW b \in Algorithms, NEW t \in Nat, time <= t
  PROVE  /\ Worth(a, t) = Worth(b, t)
         /\ Worth(a, t) \in Int /\ 0 <= Worth(a, t) /\ Worth(a, t) <= Capacity
         /\ held[a] \in Bucket
  <1>1. /\ held[a] \in Bucket /\ held[b] \in Bucket /\ time \in Int /\ t \in Int
        /\ Worth(a, time) = Worth(b, time) /\ 0 <= Worth(a, time)
    BY DEF SideInv
  <1>2. /\ Worth(a, t) = Smaller(Capacity, Worth(a, time) + (t - time) * Limit)
        /\ Worth(b, t) = Smaller(Capacity, Worth(b, time) + (t - time) * Limit)
    BY <1>1, LevelRefills DEF Worth
  <1>3. Worth(a, t) \in Int /\ Worth(a, t) <= Capacity /\ Worth(a, time) \in Int
    BY <1>1, LevelIsInt DEF Worth
  <1>4. (t - time) * Limit \in Nat
    BY <1>1, RateIsInt
  <1>5. 0 <= Worth(a, t)
    BY <1>1, <1>2, <1>3, <1>4, CapacityIsNat DEF Smaller
  <1> QED
    BY <1>1, <1>2, <1>3, <1>5

LEMMA SideStep ==
  ASSUME SideInv, NEW t \in Nat, Together(t)
  PROVE  SideInv'
  <1>1. ASSUME NEW a \in Algorithms
        PROVE  /\ held'[a] \in Bucket
               /\ Worth(a, time)' = Worth(a, t) - (IF Worth(a, t) >= Window THEN Window ELSE 0)
    <2> DEFINE d == Verdict(a, t)
    <2>1. held[a] \in Bucket /\ held'[a] = Stored(held[a], d) /\ time' = t
      BY DEF SideInv, Together
    <2>2. /\ d \in Decisions
          /\ d.allowed <=> Worth(a, t) >= Window
          /\ LevelAt(a, Stored(held[a], d), t) = Worth(a, t) - Charge(d)
      BY <2>1, DecisionIsBucket DEF Verdict, Worth
    <2>3. Stored(held[a], d) \in Bucket
      BY <2>1, <2>2 DEF Stored, Decisions
    <2>4. Worth(a, time)' = LevelAt(a, held'[a], t)
      BY <2>1 DEF Worth
    <2> HIDE DEF d
    <2> QED
      BY <2>1, <2>2, <2>3, <2>4 DEF Charge
  <1>2. time' \in Nat /\ held' \in [Algorithms -> Bucket]
    BY <1>1 DEF Together
  <1>3. ASSUME NEW a \in Algorithms, NEW b \in Algorithms
        PROVE  (Worth(a, time) = Worth(b, time) /\ 0 <= Worth(a, time))'
    <2>1. Worth(a, t) = Worth(b, t) /\ Worth(a, t) \in Int /\ 0 <= Worth(a, t)
      BY SideFacts DEF Together
    <2>2. /\ Worth(a, time)' = Worth(a, t) - (IF Worth(a, t) >= Window THEN Window ELSE 0)
          /\ Worth(b, time)' = Worth(b, t) - (IF Worth(b, t) >= Window THEN Window ELSE 0)
      BY <1>1
    <2> QED
      BY <2>1, <2>2, CapacityIsNat
  <1> QED
    BY <1>2, <1>3 DEF SideInv

LEMMA SideInvariance == SideBySide => []SideInv
  <1>1. time = 0 /\ held = [a \in Algorithms |-> NoBucket] => SideInv
    BY CapacityIsNat DEF SideInv, Worth, LevelAt, NoBucket, Bucket
  <1>2. SideInv /\ [\E t \in Nat : Together(t)]_<<time, held>> => SideInv'
    <2>1. SideInv /\ UNCHANGED <<time, held>> => SideInv'
      BY DEF SideInv, Worth
    <2> QED
      BY <2>1, SideStep
  <1> QED
    BY <1>1, <1>2, PTL DEF SideBySide

\* gcra.py:53: GCRA is the token bucket, and so is the leaky bucket.  The three give the
\* same verdict on every request, for any limit and window and any times of the calls.
THEOREM AlgorithmsAgree == SideBySide => []SameVerdicts
  <1>1. SideInv => SameVerdicts
    <2> SUFFICES ASSUME SideInv, NEW a \in Algorithms, NEW b \in Algorithms, NEW t \in Nat, time <= t
                 PROVE  Verdict(a, t).allowed <=> Verdict(b, t).allowed
      BY DEF SameVerdicts
    <2>1. held[a] \in Bucket /\ held[b] \in Bucket /\ Worth(a, t) = Worth(b, t)
      BY SideFacts
    <2> QED
      BY <2>1, DecisionIsBucket DEF Verdict, Worth
  <1> QED
    BY <1>1, SideInvariance, PTL

\* A rejected client that comes when it was told to is admitted, if no other was before;
\* under the leaky bucket and GCRA not an instant earlier, under the token bucket not
\* earlier than the time of one request before.
THEOREM RejectionsNameTheTime == SideBySide => []RetryAfterIsExact
  <1>1. SideInv => RetryAfterIsExact
    <2> SUFFICES ASSUME SideInv, NEW a \in Algorithms, NEW t \in Nat, NEW u \in Nat,
                        time <= t, t <= u, ~ Verdict(a, t).allowed
                 PROVE  LET passes == Decision(a, Stored(held[a], Verdict(a, t)), u).allowed
                            back == Verdict(a, t).retry_at
                        IN  /\ u * Limit >= back => passes
                            /\ passes => u * Limit > back - Window
                            /\ passes /\ a # "token_bucket" => u * Limit >= back
      BY DEF RetryAfterIsExact
    <2> DEFINE d == Verdict(a, t)
               s == Stored(held[a], d)
               level == Worth(a, t)
               gap == (u - t) * Limit
               y == t * Limit
               z == u * Limit
    <2>1. held[a] \in Bucket /\ level \in Int /\ 0 <= level /\ t \in Int /\ u \in Int
      BY SideFacts
    <2>2. d \in Decisions /\ s \in Bucket /\ LevelAt(a, s, t) = level /\ level < Window
      <3>1. /\ d \in Decisions /\ (level >= Window <=> d.allowed)
            /\ LevelAt(a, s, t) = level - Charge(d)
        BY <2>1, DecisionIsBucket DEF Verdict, Worth
      <3>2. s \in Bucket
        BY <2>1, <3>1 DEF Stored, Decisions
      <3>3. Charge(d) = 0 /\ ~ (level >= Window)
        BY <3>1 DEF Charge
      <3> HIDE DEF d, s, level
      <3> QED
        BY <2>1, <3>1, <3>2, <3>3, CapacityIsNat
    <2>3. LevelAt(a, s, u) = Smaller(Capacity, level + gap) /\ gap \in Nat /\ z = y + gap
      <3>1. gap \in Nat /\ z = y + gap
        BY <2>1, RateIsInt, RateAddsUp
      <3>2. LevelAt(a, s, u) = Smaller(Capacity, LevelAt(a, s, t) + gap)
        <4> HIDE DEF s
        <4> QED BY <2>1, <2>2, LevelRefills
      <3> HIDE DEF s, level, gap
      <3> QED BY <2>2, <3>1, <3>2
    <2>4. Decision(a, s, u).allowed <=> Smaller(Capacity, level + gap) >= Window
      BY <2>2, <2>3, DecisionIsBucket
    <2>5. /\ level + d.retry_at >= Window + y
          /\ level + d.retry_at < Window + Window + y
          /\ a # "token_bucket" => level + d.retry_at = Window + y
      BY <2>1, RejectionsComeBack DEF Verdict, Worth
    <2>6. y \in Nat /\ d.retry_at \in Int
      BY <2>2, CapacityIsNat DEF Decisions
    <2> HIDE DEF d, s, level, gap, y, z
    <2>7. Decision(a, s, u).allowed <=> level + gap >= Window
      BY <2>1, <2>3, <2>4, CapacityIsNat DEF Smaller
    <2>8. /\ z >= d.retry_at => Decision(a, s, u).allowed
          /\ Decision(a, s, u).allowed => z > d.retry_at - Window
          /\ Decision(a, s, u).allowed /\ a # "token_bucket" => z >= d.retry_at
      BY <2>1, <2>3, <2>5, <2>6, <2>7, CapacityIsNat
    <2> QED
      BY <2>8 DEF d, s, z
  <1> QED
    BY <1>1, SideInvariance, PTL
=============================================================================
