--------------------------- MODULE BucketLimiter ---------------------------
(***************************************************************************)
(* allow_request of the three bucket algorithms over a repository, called  *)
(* by several threads for one client and endpoint.  A call reads the       *)
(* clock, reads the bucket, decides, and stores the new bucket; reading    *)
(* and storing are two operations of the repository, each under its lock,  *)
(* with nothing that joins them.  Which algorithm serves the endpoint is   *)
(* configuration, chosen in the initial state.                             *)
(***************************************************************************)
EXTENDS BucketAlgorithms, FiniteSets

CONSTANTS
  Threads,      \* the server threads that call allow_request
  AdminReset,   \* whether an administrator may empty the repository
  MaxTime,      \* bound of the model: the clock stops here
  MaxRequests   \* bound of the model: calls that may be started

ASSUME AdminResetAssumption == AdminReset \in BOOLEAN
ASSUME BoundsAssumption == MaxTime \in Nat /\ MaxRequests \in Nat

VARIABLES
  algorithm,   \* the algorithm of the endpoint
  now,         \* time.time()
  bucket,      \* the entry of the bucket store
  pc,          \* where each thread is
  clock,       \* the local variable `now` of each call
  decision,    \* what each call has decided and is about to store
  requests,    \* calls started so far
  ideal,       \* history: the level of a bucket that loses no charge
  decided_at,  \* history: the clock of the last call that finished
  retry_at,    \* history: when the last rejected client was told to come back
  admitted,    \* history: how many requests have been admitted
  mark         \* history: the beginning of the interval under observation

vars == <<algorithm, now, bucket, pc, clock, decision, requests,
          ideal, decided_at, retry_at, admitted, mark>>
history == <<ideal, decided_at, retry_at, admitted, mark>>

Times == 0 .. MaxTime
NotRejected == -1

TypeOK ==
  /\ algorithm \in Algorithms
  /\ now \in Times
  /\ bucket \in Bucket
  /\ pc \in [Threads -> {"idle", "get", "set"}]
  /\ clock \in [Threads -> Times]
  /\ decision \in [Threads -> Decisions]
  /\ requests \in 0 .. MaxRequests
  /\ ideal \in Int
  /\ decided_at \in Times
  /\ retry_at \in Int
  /\ admitted \in Nat
  /\ mark \in [time : Times, admitted : Nat]

Init ==
  /\ algorithm \in Algorithms
  /\ now = 0
  /\ bucket = NoBucket
  /\ pc = [t \in Threads |-> "idle"]
  /\ clock = [t \in Threads |-> 0]
  /\ decision = [t \in Threads |-> Reject(0, 0, 0)]
  /\ requests = 0
  /\ ideal = Capacity
  /\ decided_at = 0
  /\ retry_at = NotRejected
  /\ admitted = 0
  /\ mark = [time |-> 0, admitted |-> 0]

-----------------------------------------------------------------------------
\* The clock runs and the ideal bucket refills.
Tick ==
  /\ now < MaxTime
  /\ now' = now + 1
  /\ ideal' = Smaller(Capacity, ideal + Limit)
  /\ UNCHANGED <<algorithm, bucket, pc, clock, decision, requests,
                 decided_at, retry_at, admitted, mark>>

\* An observer begins to measure an interval.
Observe ==
  /\ mark' = [time |-> decided_at, admitted |-> admitted]
  /\ UNCHANGED <<algorithm, now, bucket, pc, clock, decision, requests,
                 ideal, decided_at, retry_at, admitted>>

\* (a faulty variant that takes the end of the window for the time of the call)
ReadReset(t) ==
  /\ pc[t] = "idle"
  /\ requests < MaxRequests
  /\ requests' = requests + 1
  /\ clock' = [clock EXCEPT ![t] = now + Window]
  /\ pc' = [pc EXCEPT ![t] = "get"]
  /\ UNCHANGED <<algorithm, now, bucket, decision, history>>

\* now = time.time()
ReadClock(t) ==
  /\ pc[t] = "idle"
  /\ requests < MaxRequests
  /\ requests' = requests + 1
  /\ clock' = [clock EXCEPT ![t] = now]
  /\ pc' = [pc EXCEPT ![t] = "get"]
  /\ UNCHANGED <<algorithm, now, bucket, decision, history>>

\* The call returns its result to the client.
Finish(t, d) ==
  /\ decided_at' = clock[t]
  /\ retry_at' = IF d.allowed THEN NotRejected ELSE d.retry_at
  /\ admitted' = IF d.allowed THEN admitted + 1 ELSE admitted
  /\ ideal' = IF d.allowed THEN ideal - Window ELSE ideal
  /\ UNCHANGED mark

\* bucket_state = repository.get_token_bucket(key), and the decision.  A call that
\* stores nothing returns at once.
GetBucket(t) ==
  LET d == Decision(algorithm, bucket, clock[t])
  IN  /\ pc[t] = "get"
      /\ decision' = [decision EXCEPT ![t] = d]
      /\ pc' = [pc EXCEPT ![t] = IF d.stores THEN "set" ELSE "idle"]
      /\ IF d.stores THEN UNCHANGED history ELSE Finish(t, d)
      /\ UNCHANGED <<algorithm, now, bucket, clock, requests>>

\* repository.set_token_bucket(key, ...)
SetBucket(t) ==
  /\ pc[t] = "set"
  /\ bucket' = decision[t].bucket
  /\ pc' = [pc EXCEPT ![t] = "idle"]
  /\ Finish(t, decision[t])
  /\ UNCHANGED <<algorithm, now, clock, decision, requests>>

\* repository.clear(), as POST /admin/reset calls it.  A call that has read the old
\* bucket and not stored the new one yet will undo it, so nobody may rely on the reset
\* while there is such a call: the ideal bucket is filled only if there is none.
Clear ==
  /\ AdminReset
  /\ bucket' = NoBucket
  /\ ideal' = IF \E t \in Threads : pc[t] = "set" THEN ideal ELSE Capacity
  /\ UNCHANGED <<algorithm, now, pc, clock, decision, requests,
                 decided_at, retry_at, admitted, mark>>

Next ==
  \/ Tick
  \/ Observe
  \/ Clear
  \/ \E t \in Threads : ReadClock(t) \/ GetBucket(t) \/ SetBucket(t)

Spec == Init /\ [][Next]_vars

-----------------------------------------------------------------------------
\* Calls made one after the other implement the one bucket of RateBucket, whichever
\* algorithm decides them: gcra.py:53, "Mathematically equivalent to token bucket".
RB == INSTANCE RateBucket
        WITH level <- LevelAt(algorithm, bucket, decided_at), time <- decided_at

ImplementsRateBucket == RB!Spec

\* Of calls made one after the other, no interval admits more than the capacity and
\* what the interval refills.
BurstWithinCapacity ==
  (admitted - mark.admitted) * Window <= Capacity + (decided_at - mark.time) * Limit

\* However calls interleave, the stored bucket is worth at least what a bucket that
\* lost no charge would be: a lost update or a late store forgets charges, it
\* never charges a client twice.
NeverStricterThanIdeal == LevelAt(algorithm, bucket, now) >= ideal

\* A call is rejected only if the ideal bucket could not pay for it at the time the
\* call began.
RejectsOnlyWhenEmpty ==
  [][\A t \in Threads :
       pc[t] = "get" /\ pc'[t] # "get" /\ ~decision'[t].allowed =>
         ideal < Window + (now - clock[t]) * Limit]_vars

\* A client that comes back when its rejection told it to is admitted, if no other
\* call was admitted in between.
RetryAfterSuffices ==
  [][\A t \in Threads :
       pc[t] = "get" /\ pc'[t] # "get"
         /\ retry_at # NotRejected /\ clock[t] * Limit >= retry_at =>
           decision'[t].allowed]_vars
=============================================================================
