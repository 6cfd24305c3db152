--------------------------- MODULE CircuitBreaker ---------------------------
(***************************************************************************)
(* CircuitBreaker of src/app/resilience/circuit_breaker.py, shared by the  *)
(* threads whose storage operations it guards.  execute has three steps:   *)
(* it reads the state property, which may itself move an open circuit to   *)
(* half-open; it runs the operation, outside the lock; and it records the  *)
(* outcome.  The state may have changed any number of times in between, so *)
(* outcomes of calls that began in one state are recorded in another.      *)
(* The backend is outside the program: it goes down and comes up freely.   *)
(***************************************************************************)
EXTENDS Integers

CONSTANTS
  Threads,           \* the threads that call execute
  FailureThreshold,  \* failures in a row that open the circuit
  RecoveryTimeout,   \* ticks an open circuit waits before it tries again
  SuccessThreshold   \* successes in half-open that close it

ASSUME FailureAssumption == FailureThreshold \in Nat \ {0}
ASSUME RecoveryAssumption == RecoveryTimeout \in Nat
ASSUME SuccessAssumption == SuccessThreshold \in Nat \ {0}

VARIABLES
  state,          \* _state
  failure_count,  \* _failure_count; it is only compared with the threshold, and stops there
  success_count,  \* _success_count
  age,            \* time.time() - _last_failure_time, up to the recovery timeout
  pc,             \* where each thread is
  backend_up,     \* whether operations succeed
  since_opened,   \* history: time since the circuit last opened, up to the timeout
  probe_run       \* history: successes recorded since the circuit became half-open

vars == <<state, failure_count, success_count, age, pc, backend_up,
          since_opened, probe_run>>
breaker == <<state, failure_count, success_count>>
history == <<since_opened, probe_run>>

States == {"closed", "open", "half_open"}

TypeOK ==
  /\ state \in States
  /\ failure_count \in 0 .. FailureThreshold
  /\ success_count \in 0 .. SuccessThreshold
  /\ age \in 0 .. RecoveryTimeout
  /\ pc \in [Threads -> {"idle", "calling", "succeeded", "failed"}]
  /\ backend_up \in BOOLEAN
  /\ since_opened \in 0 .. RecoveryTimeout
  /\ probe_run \in Nat

\* _last_failure_time is 0.0 at first: the last failure is infinitely far away.
Init ==
  /\ state = "closed"
  /\ failure_count = 0
  /\ success_count = 0
  /\ age = RecoveryTimeout
  /\ pc = [t \in Threads |-> "idle"]
  /\ backend_up = TRUE
  /\ since_opened = RecoveryTimeout
  /\ probe_run = 0

-----------------------------------------------------------------------------
Saturated(n, limit) == IF n < limit THEN n ELSE limit

Tick ==
  /\ age' = Saturated(age + 1, RecoveryTimeout)
  /\ since_opened' = Saturated(since_opened + 1, RecoveryTimeout)
  /\ UNCHANGED <<breaker, pc, backend_up, probe_run>>

\* The storage goes down or comes back.
BackendChanges ==
  /\ backend_up' = ~backend_up
  /\ UNCHANGED <<breaker, age, pc, history>>

\* Reading the state property: an open circuit whose timeout is over becomes
\* half-open, and forgets the successes of earlier attempts.
TimeoutOver == state = "open" /\ age >= RecoveryTimeout

\* (a faulty variant that keeps counting the successes of the last attempt)
ReadStateKeepingSuccesses ==
  IF TimeoutOver
    THEN state' = "half_open" /\ success_count' = success_count /\ probe_run' = 0
    ELSE UNCHANGED <<state, success_count, probe_run>>

ReadState ==
  IF TimeoutOver
    THEN state' = "half_open" /\ success_count' = 0 /\ probe_run' = 0
    ELSE UNCHANGED <<state, success_count, probe_run>>

\* execute, up to the operation.  While the circuit stays open a call returns at once
\* with CircuitBreakerOpen and changes nothing.
Enter(t) ==
  /\ pc[t] = "idle"
  /\ ReadState
  /\ state' # "open"
  /\ pc' = [pc EXCEPT ![t] = "calling"]
  /\ UNCHANGED <<failure_count, age, backend_up, since_opened>>

\* is_closed, get_status and the health check read the state and do nothing else.
PollState ==
  /\ TimeoutOver
  /\ ReadState
  /\ UNCHANGED <<failure_count, age, pc, backend_up, since_opened>>

\* operation(...) returns or raises.
Operate(t) ==
  /\ pc[t] = "calling"
  /\ pc' = [pc EXCEPT ![t] = IF backend_up THEN "succeeded" ELSE "failed"]
  /\ UNCHANGED <<breaker, age, backend_up, history>>

\* (a faulty variant that leaves a recovering circuit half-open)
RecordSuccessWithoutClosing(t) ==
  /\ pc[t] = "succeeded"
  /\ pc' = [pc EXCEPT ![t] = "idle"]
  /\ failure_count' = 0
  /\ success_count' = IF state = "half_open"
                        THEN Saturated(success_count + 1, SuccessThreshold) ELSE success_count
  /\ UNCHANGED <<state, age, backend_up, history>>

\* _record_success
RecordSuccess(t) ==
  /\ pc[t] = "succeeded"
  /\ pc' = [pc EXCEPT ![t] = "idle"]
  /\ failure_count' = 0
  /\ IF state = "half_open"
       THEN /\ success_count' = success_count + 1
            /\ probe_run' = probe_run + 1
            /\ state' = IF success_count' >= SuccessThreshold THEN "closed" ELSE state
       ELSE UNCHANGED <<state, success_count, probe_run>>
  /\ UNCHANGED <<age, backend_up, since_opened>>

\* (faulty variants: the time of a failed test request is not noted; the circuit
\* opens one failure late; the failure count is not limited by the threshold)
RecordFailureKeepingTime(t) ==
  /\ pc[t] = "failed"
  /\ pc' = [pc EXCEPT ![t] = "idle"]
  /\ failure_count' = Saturated(failure_count + 1, FailureThreshold)
  /\ age' = IF state = "half_open" THEN age ELSE 0
  /\ state' = IF state = "half_open" \/ failure_count' >= FailureThreshold THEN "open" ELSE state
  /\ since_opened' = IF state # "open" /\ state' = "open" THEN 0 ELSE since_opened
  /\ UNCHANGED <<success_count, backend_up, probe_run>>

RecordFailureOneLate(t) ==
  /\ pc[t] = "failed"
  /\ pc' = [pc EXCEPT ![t] = "idle"]
  /\ failure_count' = Saturated(failure_count + 1, FailureThreshold)
  /\ age' = 0
  /\ state' = IF state = "half_open" \/ failure_count >= FailureThreshold THEN "open" ELSE state
  /\ since_opened' = IF state # "open" /\ state' = "open" THEN 0 ELSE since_opened
  /\ UNCHANGED <<success_count, backend_up, probe_run>>

RecordFailureUnlimited(t) ==
  /\ pc[t] = "failed"
  /\ pc' = [pc EXCEPT ![t] = "idle"]
  /\ failure_count' = failure_count + 1
  /\ age' = 0
  /\ state' = IF state = "half_open" THEN "open" ELSE state
  /\ since_opened' = IF state # "open" /\ state' = "open" THEN 0 ELSE since_opened
  /\ UNCHANGED <<success_count, backend_up, probe_run>>

\* _record_failure: a failure in half-open opens the circuit at once, any other when
\* the threshold is reached; each moves the time of the last failure.
RecordFailure(t) ==
  /\ pc[t] = "failed"
  /\ pc' = [pc EXCEPT ![t] = "idle"]
  /\ failure_count' = Saturated(failure_count + 1, FailureThreshold)
  /\ age' = 0
  /\ state' = IF state = "half_open" \/ failure_count' >= FailureThreshold THEN "open" ELSE state
  /\ since_opened' = IF state # "open" /\ state' = "open" THEN 0 ELSE since_opened
  /\ UNCHANGED <<success_count, backend_up, probe_run>>

\* reset, by hand.
Reset ==
  /\ state' = "closed"
  /\ failure_count' = 0
  /\ success_count' = 0
  /\ since_opened' = RecoveryTimeout
  /\ UNCHANGED <<age, pc, backend_up, probe_run>>

Call(t) == Enter(t) \/ Operate(t) \/ RecordSuccess(t) \/ RecordFailure(t)

Next ==
  \/ Tick
  \/ BackendChanges
  \/ PollState
  \/ Reset
  \/ \E t \in Threads : Call(t)

\* Time passes, threads go on calling, and a started call returns: every storage
\* client in the repositories either answers or raises.
Fairness == WF_vars(Tick) /\ \A t \in Threads : WF_vars(Call(t))

Spec == Init /\ [][Next]_vars
FairSpec == Spec /\ Fairness

-----------------------------------------------------------------------------
\* The counters never lag behind the state: a closed circuit is below the failure
\* threshold and a half-open one below the success threshold, whatever outcomes of
\* earlier calls are recorded late.
CountersMatchState ==
  /\ state = "closed" => failure_count < FailureThreshold
  /\ state = "half_open" => success_count < SuccessThreshold

\* A circuit that has opened does not open again before its timeout has passed, so a
\* backend that stays down is tried once per timeout and not by every request.
OpeningsAreSpaced ==
  [][state # "open" /\ state' = "open" => since_opened >= RecoveryTimeout]_vars

\* A half-open circuit closes, unless it is reset by hand, only after the successes
\* it asks for have been recorded since it became half-open.
ClosesAfterEnoughSuccesses ==
  [][(\E t \in Threads : pc[t] = "succeeded" /\ pc'[t] = "idle")
       /\ state = "half_open" /\ state' = "closed" =>
         probe_run' >= SuccessThreshold]_vars

\* Once the backend is up for good, the circuit closes for good: no late failure, no
\* stale count and no lost transition keeps it bypassed, as long as calls go on.
RecoversWithBackend == <>[]backend_up => <>[](state = "closed")
=============================================================================
