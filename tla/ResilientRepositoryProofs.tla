---------------------- MODULE ResilientRepositoryProofs ----------------------
(***************************************************************************)
(* Safety of the circuit breaker, for every number of threads and every    *)
(* value of its three parameters.  The resilient repository uses its       *)
(* circuit breaker as CircuitBreaker says, so what is proved of that holds *)
(* inside it; and what failing open costs and does not cost, for every     *)
(* limit and any number of threads.                                        *)
(***************************************************************************)
EXTENDS ResilientRepository, TLAPS

-----------------------------------------------------------------------------
\* The circuit breaker.

\* While the circuit is open the last failure is no older than the opening; in any
\* other state the last opening lies a whole timeout back.
OpeningLiesBack ==
  /\ state = "open" => age <= since_opened
  /\ state # "open" => since_opened >= RecoveryTimeout

\* The successes a half-open circuit counts are those of its present attempt.
CountsThisAttempt == state = "half_open" => probe_run = success_count

IInv == TypeOK /\ CountersMatchState /\ OpeningLiesBack /\ CountsThisAttempt

USE DEF States

LEMMA InitIInv == Init => IInv
  BY FailureAssumption, RecoveryAssumption, SuccessAssumption
  DEF Init, IInv, TypeOK, CountersMatchState, OpeningLiesBack, CountsThisAttempt

LEMMA SaturatedBounds ==
  ASSUME NEW limit \in Nat, NEW n \in 0 .. limit
  PROVE  Saturated(n + 1, limit) \in 0 .. limit /\ Saturated(n + 1, limit) >= n
  BY DEF Saturated

\* Both clocks advance alike and stop at the same bound.
LEMMA TickIInv == IInv /\ Tick => IInv'
  <1> SUFFICES ASSUME IInv, Tick PROVE IInv'
    OBVIOUS
  <1>1. /\ age' \in 0 .. RecoveryTimeout /\ since_opened' \in 0 .. RecoveryTimeout
        /\ since_opened' >= since_opened
        /\ age <= since_opened => age' <= since_opened'
    BY RecoveryAssumption DEF Tick, IInv, TypeOK, Saturated
  <1>2. TypeOK' /\ CountersMatchState' /\ CountsThisAttempt'
    BY <1>1 DEF IInv, TypeOK, CountersMatchState, CountsThisAttempt, Tick, breaker
  <1>3. OpeningLiesBack'
    BY <1>1, RecoveryAssumption DEF IInv, TypeOK, OpeningLiesBack, Tick, breaker
  <1> QED
    BY <1>2, <1>3 DEF IInv

\* An open circuit becomes half-open only when the timeout has passed since it opened.
LEMMA ReadStateIInv ==
  ASSUME IInv, ReadState,
         UNCHANGED <<failure_count, age, backend_up, since_opened>>,
         pc' \in [Threads -> {"idle", "calling", "succeeded", "failed"}]
  PROVE  IInv'
  <1>1. CASE TimeoutOver
    BY <1>1, FailureAssumption, RecoveryAssumption, SuccessAssumption
    DEF ReadState, TimeoutOver, IInv, TypeOK, CountersMatchState, OpeningLiesBack, CountsThisAttempt
  <1>2. CASE ~TimeoutOver
    BY <1>2 DEF ReadState, IInv, TypeOK, CountersMatchState, OpeningLiesBack, CountsThisAttempt
  <1> QED
    BY <1>1, <1>2

LEMMA EnterIInv == \A t \in Threads : IInv /\ Enter(t) => IInv'
  <1> SUFFICES ASSUME NEW t \in Threads, IInv, Enter(t) PROVE IInv'
    OBVIOUS
  <1>1. pc' \in [Threads -> {"idle", "calling", "succeeded", "failed"}]
    BY DEF Enter, IInv, TypeOK
  <1> QED
    BY <1>1, ReadStateIInv DEF Enter

LEMMA PollIInv == IInv /\ PollState => IInv'
  <1> SUFFICES ASSUME IInv, PollState PROVE IInv'
    OBVIOUS
  <1>1. pc' \in [Threads -> {"idle", "calling", "succeeded", "failed"}]
    BY DEF PollState, IInv, TypeOK
  <1> QED
    BY <1>1, ReadStateIInv DEF PollState

LEMMA OperateIInv == \A t \in Threads : IInv /\ Operate(t) => IInv'
  BY DEF Operate, breaker, history, IInv, TypeOK, CountersMatchState, OpeningLiesBack,
         CountsThisAttempt

LEMMA BackendIInv == IInv /\ BackendChanges => IInv'
  BY DEF BackendChanges, breaker, history, IInv, TypeOK, CountersMatchState, OpeningLiesBack,
         CountsThisAttempt

LEMMA ResetIInv == IInv /\ Reset => IInv'
  BY FailureAssumption, RecoveryAssumption, SuccessAssumption
  DEF Reset, IInv, TypeOK, CountersMatchState, OpeningLiesBack, CountsThisAttempt

\* A success clears the failures, and closes a half-open circuit at the threshold.
LEMMA SuccessIInv == \A t \in Threads : IInv /\ RecordSuccess(t) => IInv'
  <1> SUFFICES ASSUME NEW t \in Threads, IInv, RecordSuccess(t) PROVE IInv'
    OBVIOUS
  <1>1. CASE state = "half_open"
    <2>1. /\ success_count' = success_count + 1 /\ probe_run' = probe_run + 1
          /\ success_count < SuccessThreshold /\ probe_run = success_count
          /\ state' = (IF success_count' >= SuccessThreshold THEN "closed" ELSE "half_open")
          /\ failure_count' = 0 /\ since_opened >= RecoveryTimeout
      BY <1>1 DEF RecordSuccess, IInv, CountersMatchState, CountsThisAttempt, OpeningLiesBack
    <2>2. TypeOK'
      BY <2>1, FailureAssumption, SuccessAssumption DEF RecordSuccess, IInv, TypeOK
    <2>3. CountersMatchState' /\ OpeningLiesBack' /\ CountsThisAttempt'
      BY <2>1, FailureAssumption, SuccessAssumption
      DEF RecordSuccess, IInv, TypeOK, CountersMatchState, OpeningLiesBack, CountsThisAttempt
    <2> QED
      BY <2>2, <2>3 DEF IInv
  <1>2. CASE state # "half_open"
    BY <1>2, FailureAssumption
    DEF RecordSuccess, IInv, TypeOK, CountersMatchState, OpeningLiesBack, CountsThisAttempt
  <1> QED
    BY <1>1, <1>2

\* A failure leaves the circuit open, or closed and below the threshold.
LEMMA FailureIInv == \A t \in Threads : IInv /\ RecordFailure(t) => IInv'
  <1> SUFFICES ASSUME NEW t \in Threads, IInv, RecordFailure(t) PROVE IInv'
    OBVIOUS
  <1>1. failure_count' \in 0 .. FailureThreshold /\ age' = 0
    BY SaturatedBounds, FailureAssumption DEF RecordFailure, IInv, TypeOK
  <1>2. /\ state' = "open" \/ (state' = state /\ state # "half_open" /\ failure_count' < FailureThreshold)
        /\ state' # "half_open"
    BY <1>1, FailureAssumption DEF RecordFailure, IInv, TypeOK
  <1>3. /\ since_opened' \in 0 .. RecoveryTimeout
        /\ state' # "open" => since_opened' = since_opened
    BY <1>2, RecoveryAssumption DEF RecordFailure, IInv, TypeOK
  <1>4. TypeOK'
    BY <1>1, <1>2, <1>3, RecoveryAssumption DEF RecordFailure, IInv, TypeOK
  <1>5. CountersMatchState' /\ OpeningLiesBack' /\ CountsThisAttempt'
    BY <1>1, <1>2, <1>3, RecoveryAssumption
    DEF IInv, TypeOK, CountersMatchState, OpeningLiesBack, CountsThisAttempt
  <1> QED
    BY <1>4, <1>5 DEF IInv

-----------------------------------------------------------------------------
\* The inductive invariant of the breaker, however late calls record their results.
THEOREM Invariance == Spec => []IInv
  <1>1. IInv /\ [Next]_vars => IInv'
    <2>1. IInv /\ UNCHANGED vars => IInv'
      BY DEF vars, IInv, TypeOK, CountersMatchState, OpeningLiesBack, CountsThisAttempt
    <2> QED
      BY <2>1, TickIInv, EnterIInv, PollIInv, OperateIInv, BackendIInv, ResetIInv, SuccessIInv,
         FailureIInv DEF Next, Call
  <1> QED
    BY <1>1, InitIInv, PTL DEF Spec

\* Type correctness of the breaker and its history.
THEOREM TypeCorrect == Spec => []TypeOK
  <1>1. IInv => TypeOK
    BY DEF IInv
  <1> QED
    BY <1>1, Invariance, PTL

\* The counters never lag behind the state.
THEOREM CountersFollowState == Spec => []CountersMatchState
  <1>1. IInv => CountersMatchState
    BY DEF IInv
  <1> QED
    BY <1>1, Invariance, PTL

\* A dead backend is tried at most once per recovery timeout and opening.
THEOREM OpeningsKeepTheirDistance == Spec => OpeningsAreSpaced
  <1>1. IInv => (state # "open" => since_opened >= RecoveryTimeout)
    BY DEF IInv, OpeningLiesBack
  <1>2. IInv /\ [Next]_vars =>
          [state # "open" /\ state' = "open" => since_opened >= RecoveryTimeout]_vars
    BY <1>1
  <1> QED
    BY <1>2, Invariance, PTL DEF Spec, OpeningsAreSpaced

\* Only the successes of the present attempt close a half-open circuit.
THEOREM ClosingIsEarned == Spec => ClosesAfterEnoughSuccesses
  <1> DEFINE Earned ==
        (\E t \in Threads : pc[t] = "succeeded" /\ pc'[t] = "idle")
          /\ state = "half_open" /\ state' = "closed" =>
            probe_run' >= SuccessThreshold
  <1>1. IInv /\ [Next]_vars => [Earned]_vars
    <2> SUFFICES ASSUME IInv, [Next]_vars, NEW t \in Threads,
                        pc[t] = "succeeded", pc'[t] = "idle",
                        state = "half_open", state' = "closed"
                 PROVE  probe_run' >= SuccessThreshold
      OBVIOUS
    <2>1. PICK u \in Threads : RecordSuccess(u)
      <3>1. ASSUME NEW u \in Threads, Call(u) PROVE RecordSuccess(u)
        <4>1. ~Enter(u)
          BY DEF Enter, ReadState, TimeoutOver, IInv, TypeOK
        <4>2. ~Operate(u) /\ ~RecordFailure(u)
          BY DEF Operate, RecordFailure, breaker
        <4> QED
          BY <3>1, <4>1, <4>2 DEF Call
      <3>2. ~Reset /\ ~Tick /\ ~BackendChanges /\ ~PollState /\ ~UNCHANGED vars
        BY DEF Reset, Tick, BackendChanges, PollState, vars
      <3> QED
        BY <3>1, <3>2 DEF Next
    <2>2. /\ success_count' = success_count + 1 /\ probe_run' = probe_run + 1
          /\ success_count' >= SuccessThreshold /\ probe_run = success_count
      BY <2>1 DEF RecordSuccess, IInv, CountsThisAttempt
    <2> QED
      BY <2>2, SuccessAssumption DEF IInv, TypeOK
  <1> QED
    BY <1>1, Invariance, PTL DEF Spec, ClosesAfterEnoughSuccesses

-----------------------------------------------------------------------------
\* The breaker inside the repository.

LEMMA BypassIsNoStep == ReadState /\ state' = "open" =>
    UNCHANGED <<state, success_count, probe_run>>
  BY DEF ReadState, TimeoutOver

LEMMA StepIsABreakerStep == RepositoryNext => [Next]_vars
  <1> SUFFICES ASSUME RepositoryNext PROVE [Next]_vars
    OBVIOUS
  <1>1. CASE WindowPasses
    BY <1>1 DEF WindowPasses, Next
  <1>2. CASE Operator
    BY <1>2 DEF Operator, Next
  <1>3. CASE Clear
    BY <1>3 DEF Clear
  <1>4. CASE ClientStep
    <2>1. CASE Begin
      BY <2>1 DEF Begin
    <2>2. CASE ClientBypassed
      BY <2>2, BypassIsNoStep DEF ClientBypassed, vars
    <2>3. CASE ClientEnter \/ ClientOperate \/ ClientSucceeded \/ ClientFailed
      BY <2>3, ClientAssumption
      DEF ClientEnter, ClientOperate, ClientSucceeded, ClientFailed, Next, Call
    <2> QED
      BY <1>4, <2>1, <2>2, <2>3 DEF ClientStep
  <1>5. CASE \E t \in Threads \ {Client} : OtherCall(t)
    BY <1>5 DEF OtherCall, Next
  <1> QED
    BY <1>1, <1>2, <1>3, <1>4, <1>5 DEF RepositoryNext

\* Whatever the requests of a client and the threads of others do through the
\* repository, the breaker they share behaves as CircuitBreaker says.
THEOREM RepositoryUsesBreaker == RepositorySpec => Spec
  <1>1. RepositoryInit => Init
    BY DEF RepositoryInit
  <1>2. [RepositoryNext]_repository_vars => [Next]_vars
    BY StepIsABreakerStep DEF repository_vars
  <1> QED
    BY <1>1, <1>2, PTL DEF RepositorySpec, Spec

-----------------------------------------------------------------------------
\* n admissions are covered by what the store would still hold against the client, up
\* to its limit, and by what is known to have leaked.
Covered(n, stored) == n <= leaked + stored /\ n <= leaked + Limit

\* What an operation has stored already pays for the admission that follows it.
Unpaid == pc[Client] \in {"idle", "calling"}
Pays ==
  request = "current" =>
    /\ Covered(admitted, used)
    /\ step = "increment" /\ pc[Client] = "succeeded" /\ seen <= Limit => Covered(admitted + 1, used)
    /\ step = "count" /\ pc[Client] = "succeeded" => seen = used
    /\ step = "get" /\ pc[Client] = "succeeded" => Covered(admitted, seen)
    /\ step = "add" /\ seen < Limit => Covered(admitted + 1, used + 1)
    /\ step = "set" => Covered(admitted, seen)
    /\ step \in Writes /\ ~ Unpaid /\ seen < Limit => Covered(admitted + 1, used)

LEMMA MoreMayLeak ==
  \A n, s, l, m \in Nat : n <= l + s /\ l <= m => n <= m + s
  OBVIOUS

LEMMA LeakPaysForOne ==
  \A n, s, l, m \in Nat : n <= l + s /\ m >= l + 1 => n + 1 <= m + s /\ n + 1 <= m + (s + 1)
  OBVIOUS

LEMMA RoomForOne ==
  \A n, s, l, m \in Nat :
    n <= l + s /\ s < Limit /\ l <= m => n + 1 <= m + (s + 1) /\ n + 1 <= m + Limit
  BY LimitAssumption

LEMMA LeakPaysForBucket ==
  \A n, l, m \in Nat : n <= l + Limit /\ m >= l + Limit => n <= m + 0 /\ n <= m + Limit
  BY LimitAssumption

\* Nothing is stored that has not been sent.
Sent ==
  request # "past" =>
    /\ used <= attempts
    /\ step \in {"remove", "count", "get"} => used < attempts
    /\ step \in {"increment", "add", "set"} /\ Unpaid => used < attempts
    /\ step = "increment" /\ pc[Client] = "succeeded" => seen <= attempts
    /\ step \in {"count", "get"} /\ pc[Client] = "succeeded" => seen < attempts
    /\ step \in Writes => seen < attempts

Scope ==
  /\ step = "idle" => request = "current" /\ pc[Client] = "idle"
  /\ request # "current" => admitted = 0
  /\ request = "past" => used = 0

RepositoryIInv == RepositoryTypeOK /\ Scope /\ Pays /\ Sent

LEMMA InitRepositoryIInv == RepositoryInit /\ TypeOK => RepositoryIInv
  BY ClientAssumption, LimitAssumption, AttemptsAssumption
  DEF RepositoryInit, Init, RepositoryIInv, RepositoryTypeOK, Scope, Pays, Sent, Covered, Unpaid,
      Reads, Writes

\* Steps that leave the client's thread where it is and change nothing of its own.
LEMMA OthersKeepIt ==
  ASSUME RepositoryIInv, TypeOK', pc'[Client] = pc[Client], UNCHANGED <<algorithm, client>>
  PROVE  RepositoryIInv'
  BY DEF client, RepositoryIInv, RepositoryTypeOK, Scope, Pays, Sent, Covered, Unpaid, Reads, Writes

LEMMA OtherCallKeepsIt ==
  ASSUME RepositoryIInv, TypeOK', NEW t \in Threads \ {Client}, OtherCall(t)
  PROVE  RepositoryIInv'
  <1>1. pc'[Client] = pc[Client]
    BY ClientAssumption DEF OtherCall, Call, Enter, Operate, RecordSuccess, RecordFailure,
       RepositoryIInv, RepositoryTypeOK, TypeOK
  <1> QED
    BY <1>1, OthersKeepIt DEF OtherCall

LEMMA OperatorKeepsIt == RepositoryIInv /\ TypeOK' /\ Operator => RepositoryIInv'
  <1> SUFFICES ASSUME RepositoryIInv, TypeOK', Operator PROVE RepositoryIInv'
    OBVIOUS
  <1>1. pc' = pc
    BY DEF Operator, BackendChanges, PollState, Reset
  <1> QED
    BY <1>1, OthersKeepIt DEF Operator

\* A clear and the end of a window start the history again.
LEMMA FreshStartKeepsIt == RepositoryIInv /\ TypeOK' /\ (Clear \/ WindowPasses) => RepositoryIInv'
  <1> SUFFICES ASSUME RepositoryIInv, TypeOK', Clear \/ WindowPasses PROVE RepositoryIInv'
    OBVIOUS
  <1>1. pc' = pc /\ step' = step /\ seen' = seen /\ algorithm' = algorithm
        /\ used' = 0 /\ admitted' = 0 /\ leaked' = 0
    BY DEF Clear, WindowPasses, Tick, vars
  <1>2. RepositoryTypeOK' /\ Scope'
    BY <1>1, AttemptsAssumption DEF Clear, WindowPasses, RepositoryIInv, RepositoryTypeOK, Scope
  <1>3. Pays'
    <2>1. request' = "current" => step = "idle"
      BY DEF Clear, WindowPasses, InWindow, RepositoryIInv, Scope
    <2> QED
      BY <1>1, <2>1, LimitAssumption DEF Pays, Covered, Writes
  <1>4. Sent'
    <2>1. request' # "past" => step = "idle" \/ (request # "past" /\ attempts' = attempts)
      BY DEF Clear, WindowPasses, InWindow, RepositoryIInv, Scope
    <2> QED
      BY <1>1, <1>2, <2>1 DEF RepositoryIInv, RepositoryTypeOK, Sent, Unpaid, Writes
  <1> QED
    BY <1>2, <1>3, <1>4 DEF RepositoryIInv

LEMMA BeginKeepsIt == RepositoryIInv /\ TypeOK' /\ Begin => RepositoryIInv'
  <1> SUFFICES ASSUME RepositoryIInv, TypeOK', Begin PROVE RepositoryIInv'
    OBVIOUS
  <1>1. /\ step' \in {"increment", "remove", "get"} /\ attempts' = attempts + 1
        /\ attempts < MaxAttempts /\ request = "current" /\ pc[Client] = "idle"
        /\ UNCHANGED <<pc, algorithm, used, seen, request, admitted, leaked>>
    BY DEF Begin, FirstOperation, vars, Algorithms, RepositoryIInv, RepositoryTypeOK, Scope
  <1> QED
    BY <1>1, AttemptsAssumption
    DEF RepositoryIInv, RepositoryTypeOK, Scope, Pays, Sent, Covered, Unpaid, Reads, Writes

LEMMA EnterKeepsIt == RepositoryIInv /\ TypeOK' /\ ClientEnter => RepositoryIInv'
  <1> SUFFICES ASSUME RepositoryIInv, TypeOK', ClientEnter PROVE RepositoryIInv'
    OBVIOUS
  <1>1. /\ step # "idle" /\ pc[Client] = "idle" /\ pc'[Client] = "calling"
        /\ UNCHANGED <<algorithm, client>>
    BY ClientAssumption DEF ClientEnter, Enter, RepositoryIInv, RepositoryTypeOK, TypeOK
  <1> QED
    BY <1>1
    DEF client, RepositoryIInv, RepositoryTypeOK, Scope, Pays, Sent, Covered, Unpaid, Reads, Writes

-----------------------------------------------------------------------------
\* The operation itself.

LEMMA StoredBounds ==
  ASSUME RepositoryIInv
  PROVE  /\ Stored \in Nat
         /\ request = "past" => Stored = used
         /\ request # "past" /\ step \in {"increment", "add"} => Stored = used + 1
         /\ request # "past" /\ step = "set" => Stored = (IF seen < Limit THEN seen + 1 ELSE seen)
         /\ step \notin {"increment", "add", "set"} => Stored = used
  <1>1. used \in Nat /\ seen \in Nat
    BY DEF RepositoryIInv, RepositoryTypeOK
  <1>2. CASE request = "past"
    BY <1>1, <1>2 DEF Stored
  <1>3. CASE request # "past" /\ step \in {"increment", "add"}
    BY <1>1, <1>3 DEF Stored
  <1>4. CASE request # "past" /\ step = "set"
    BY <1>1, <1>4 DEF Stored
  <1>5. CASE request # "past" /\ step \notin {"increment", "add", "set"}
    BY <1>1, <1>5 DEF Stored
  <1> QED
    BY <1>2, <1>3, <1>4, <1>5

\* What has been carried out, answered or not, pays for its request.
LEMMA ServedPays ==
  ASSUME RepositoryIInv, request = "current", pc[Client] = "calling"
  PROVE  /\ Covered(admitted, Stored)
         /\ step = "add" /\ seen < Limit => Covered(admitted + 1, Stored + 1)
         /\ step = "increment" /\ Stored <= Limit => Covered(admitted + 1, Stored)
         /\ step \in Writes /\ seen < Limit => Covered(admitted + 1, Stored)
  BY StoredBounds, LimitAssumption
  DEF RepositoryIInv, RepositoryTypeOK, Pays, Sent, Covered, Unpaid, Writes

LEMMA ServedWasSent ==
  ASSUME RepositoryIInv, request # "past", pc[Client] = "calling"
  PROVE  Stored <= attempts /\ (step \in {"remove", "count", "get"} => Stored < attempts)
  <1>1. used \in Nat /\ seen \in Nat /\ attempts \in Nat /\ used <= attempts
    BY AttemptsAssumption DEF RepositoryIInv, RepositoryTypeOK, Sent
  <1>2. CASE step \in {"increment", "add"}
    BY <1>1, <1>2, StoredBounds DEF RepositoryIInv, Sent, Unpaid
  <1>3. CASE step = "set"
    BY <1>1, <1>3, StoredBounds, LimitAssumption DEF RepositoryIInv, Sent, Writes
  <1>4. CASE step \notin {"increment", "add", "set"}
    BY <1>1, <1>4, StoredBounds DEF RepositoryIInv, Sent
  <1> QED
    BY <1>2, <1>3, <1>4

LEMMA OperateKeepsIt == RepositoryIInv /\ TypeOK' /\ ClientOperate => RepositoryIInv'
  <1> SUFFICES ASSUME RepositoryIInv, TypeOK', ClientOperate PROVE RepositoryIInv'
    OBVIOUS
  <1>1. /\ pc[Client] = "calling" /\ step # "idle"
        /\ pc'[Client] = IF backend_up THEN "succeeded" ELSE "failed"
        /\ UNCHANGED <<algorithm, step, request, admitted>>
    BY ClientAssumption DEF ClientOperate, Operate, RepositoryIInv, RepositoryTypeOK, TypeOK, Scope
  <1>2. RepositoryTypeOK
    BY DEF RepositoryIInv
  <1>3. CASE Served
    <2>1. /\ pc'[Client] = "succeeded" /\ used' = Stored /\ UNCHANGED <<attempts, leaked>>
          /\ step \in Reads /\ request # "past" => seen' = Stored
          /\ step \notin Reads => seen' = seen
          /\ seen' \in Nat
      BY <1>1, <1>2, <1>3, StoredBounds, LimitAssumption DEF Served, Answers, RepositoryTypeOK
    <2>2. RepositoryTypeOK' /\ Scope'
      BY <1>1, <1>2, <2>1, StoredBounds DEF RepositoryIInv, RepositoryTypeOK, Scope
    <2>3. Pays'
      BY <1>1, <2>1, ServedPays DEF RepositoryIInv, Pays, Covered, Unpaid, Reads, Writes
    <2>4. Sent'
      BY <1>1, <1>2, <2>1, <2>2, ServedWasSent
      DEF RepositoryIInv, RepositoryTypeOK, Scope, Sent, Unpaid, Reads, Writes
    <2> QED
      BY <2>2, <2>3, <2>4 DEF RepositoryIInv
  <1>4. CASE ServedTwice \/ FailedTwice
    <2>1. /\ step = "increment" /\ request # "past" /\ leaked' = leaked
          /\ attempts < MaxAttempts /\ attempts' = attempts + 1
          /\ used' = used + 2 /\ used < attempts
      BY <1>1, <1>2, <1>4, StoredBounds
      DEF ServedTwice, FailedTwice, Repeated, RepositoryIInv, RepositoryTypeOK, Sent, Unpaid
    <2>2. \/ pc'[Client] = "succeeded" /\ seen' = used'
          \/ pc'[Client] = "failed" /\ seen' = seen
      BY <1>1, <1>4 DEF ServedTwice, FailedTwice
    <2>3. RepositoryTypeOK' /\ Scope'
      BY <1>1, <1>2, <2>1, <2>2, AttemptsAssumption DEF RepositoryIInv, RepositoryTypeOK, Scope
    <2>4. Pays'
      <3> SUFFICES ASSUME request = "current" PROVE Pays'
        BY <1>1 DEF Pays
      <3>1. Covered(admitted, used) /\ used \in Nat /\ admitted \in Nat /\ leaked \in Nat
        BY <1>2 DEF RepositoryIInv, RepositoryTypeOK, Pays
      <3>2. Covered(admitted, used)'
        BY <1>1, <2>1, <3>1 DEF Covered
      <3>3. used' <= Limit => Covered(admitted + 1, used)'
        BY <1>1, <2>1, <3>1, LimitAssumption DEF Covered
      <3> QED
        BY <1>1, <2>1, <2>2, <3>2, <3>3 DEF Pays, Writes
    <2>5. Sent'
      BY <1>1, <1>2, <2>1, <2>2, AttemptsAssumption
      DEF RepositoryIInv, RepositoryTypeOK, Sent, Unpaid, Reads, Writes
    <2> QED
      BY <2>3, <2>4, <2>5 DEF RepositoryIInv
  <1>5. CASE FailedUnserved
    <2>1. /\ pc'[Client] = "failed" /\ UNCHANGED <<used, seen, attempts>>
          /\ leaked' \in Nat /\ leaked' >= leaked
          /\ request = "current" /\ step \in Writes /\ seen < Limit => leaked' = leaked + 1
      BY <1>1, <1>2, <1>5 DEF FailedUnserved, LostWrite, Counted, InWindow, RepositoryTypeOK
    <2>2. RepositoryTypeOK' /\ Scope'
      BY <1>1, <1>2, <2>1 DEF RepositoryIInv, RepositoryTypeOK, Scope
    <2>3. Pays'
      <3> SUFFICES ASSUME request = "current" PROVE Pays'
        BY <1>1 DEF Pays
      <3>1. /\ used \in Nat /\ seen \in Nat /\ admitted \in Nat /\ leaked \in Nat /\ leaked' \in Nat
            /\ Limit \in Nat /\ leaked' >= leaked
            /\ used' = used /\ seen' = seen /\ admitted' = admitted /\ step' = step
        BY <1>1, <1>2, <2>1, LimitAssumption DEF RepositoryTypeOK
      <3>2. /\ Covered(admitted, used)
            /\ step = "add" /\ seen < Limit => Covered(admitted + 1, used + 1)
            /\ step = "set" => Covered(admitted, seen)
        BY DEF RepositoryIInv, Pays
      <3>3. Covered(admitted, used)'
        BY <3>1, <3>2, MoreMayLeak DEF Covered
      <3>4. step = "add" /\ seen < Limit => Covered(admitted + 1, used + 1)'
        <4>1. admitted + 1 \in Nat /\ used + 1 \in Nat /\ Limit \in Nat
          BY <3>1
        <4>2. Covered(admitted + 1, used + 1) =>
                admitted + 1 <= leaked' + (used + 1) /\ admitted + 1 <= leaked' + Limit
          BY <3>1, <4>1, MoreMayLeak DEF Covered
        <4> QED
          BY <3>1, <3>2, <4>2 DEF Covered
      <3>5. step = "set" => Covered(admitted, seen)'
        BY <3>1, <3>2, MoreMayLeak DEF Covered
      <3>6. step \in Writes /\ seen < Limit => Covered(admitted + 1, used)'
        BY <1>1, <2>1, <3>1, <3>2 DEF Covered
      <3> QED
        BY <1>1, <2>1, <3>3, <3>4, <3>5, <3>6 DEF Pays
    <2>4. Sent'
      BY <1>1, <1>2, <2>1 DEF RepositoryIInv, Sent, Unpaid, Reads, Writes
    <2> QED
      BY <2>2, <2>3, <2>4 DEF RepositoryIInv
  <1>6. CASE FailedAfterwards
    <2>1. /\ pc'[Client] = "failed" /\ used' = Stored /\ UNCHANGED <<seen, attempts, leaked>>
      BY <1>1, <1>6 DEF FailedAfterwards
    <2>2. RepositoryTypeOK' /\ Scope'
      BY <1>1, <1>2, <2>1, StoredBounds DEF RepositoryIInv, RepositoryTypeOK, Scope
    <2>3. Pays'
      BY <1>1, <2>1, ServedPays DEF RepositoryIInv, Pays, Covered, Unpaid, Reads, Writes
    <2>4. Sent'
      BY <1>1, <1>2, <2>1, <2>2, ServedWasSent
      DEF RepositoryIInv, RepositoryTypeOK, Scope, Sent, Unpaid, Reads, Writes
    <2> QED
      BY <2>2, <2>3, <2>4 DEF RepositoryIInv
  <1> QED
    BY <1>3, <1>4, <1>5, <1>6 DEF ClientOperate

-----------------------------------------------------------------------------
\* After it: the algorithm goes on with the answer, or with the default.  What leaked
\* meanwhile pays for the request where the store does not.
LEMMA ContinueKeepsIt ==
  ASSUME RepositoryIInv, TypeOK', NEW value \in Nat, Continue(value),
         step # "idle", pc'[Client] = "idle",
         UNCHANGED <<algorithm, used, attempts>>,
         leaked' \in Nat, leaked' >= leaked,
         step \in Reads /\ request = "current" =>
           \/ value = 0 /\ leaked' >= leaked + LeakedBy(step)
           \/ value = seen /\ pc[Client] = "succeeded",
         step \in Writes /\ request = "current" => ~ Unpaid \/ leaked' >= leaked + LostWrite,
         step \in Reads /\ request # "past" => value = 0 \/ (value = seen /\ pc[Client] = "succeeded")
  PROVE  RepositoryIInv'
  <1>1. RepositoryTypeOK
    BY DEF RepositoryIInv
  <1>2. CASE step = "increment"
    <2>1. Finish(value <= Limit)
      BY <1>2 DEF Continue, Writes
    <2>2. step' = "idle" /\ seen' = 0 /\ request' = "current"
      BY <2>1 DEF Finish
    <2>3. /\ admitted' \in Nat
          /\ admitted' = admitted \/ (request = "current" /\ value <= Limit /\ admitted' = admitted + 1)
      BY <1>1, <2>1 DEF Finish, Counted, InWindow, RepositoryTypeOK
    <2>4. Covered(admitted, used)' /\ used <= attempts
      BY <1>1, <1>2, <2>3, LimitAssumption
      DEF RepositoryIInv, RepositoryTypeOK, Scope, Pays, Sent, Covered, Reads, LeakedBy
    <2> QED
      BY <1>1, <2>2, <2>3, <2>4
      DEF RepositoryIInv, RepositoryTypeOK, Scope, Pays, Sent, Unpaid, Writes
  <1>3. CASE step = "remove"
    <2>1. /\ step' = "count" /\ seen' = 0 /\ UNCHANGED <<request, admitted>>
      BY <1>3 DEF Continue, Proceed, Writes
    <2>2. request = "current" => Covered(admitted, used)'
      BY <1>1, <2>1, MoreMayLeak, LimitAssumption DEF RepositoryIInv, RepositoryTypeOK, Pays, Covered
    <2>3. request # "past" => used < attempts
      BY <1>3 DEF RepositoryIInv, Sent
    <2> QED
      BY <1>1, <2>1, <2>2, <2>3
      DEF RepositoryIInv, RepositoryTypeOK, Scope, Pays, Sent, Unpaid, Reads, Writes
  <1>4. CASE step = "count"
    <2>1. request # "past" => value < attempts /\ used < attempts
      BY <1>1, <1>4, AttemptsAssumption DEF RepositoryIInv, RepositoryTypeOK, Sent, Reads
    <2>2. CASE value < Limit
      <3>1. /\ step' = "add" /\ seen' = value /\ UNCHANGED <<request, admitted>>
        BY <1>4, <2>2 DEF Continue, Proceed, Writes
      <3>2. request = "current" => Covered(admitted, used)'
        BY <1>1, <3>1, MoreMayLeak, LimitAssumption DEF RepositoryIInv, RepositoryTypeOK, Pays, Covered
      <3>3. request = "current" => Covered(admitted + 1, used + 1)'
        <4> SUFFICES ASSUME request = "current" PROVE Covered(admitted + 1, used + 1)'
          OBVIOUS
        <4>1. CASE value = 0 /\ leaked' >= leaked + 1
          <5>1. Covered(admitted, used)
            BY DEF RepositoryIInv, Pays
          <5>2. admitted \in Nat /\ used \in Nat /\ leaked \in Nat /\ leaked' \in Nat /\ Limit \in Nat
            BY <1>1, LimitAssumption DEF RepositoryTypeOK
          <5>3. admitted + 1 <= leaked' + (used + 1) /\ admitted + 1 <= leaked' + Limit
            <6>1. leaked' >= leaked + 1 /\ admitted <= leaked + used /\ admitted <= leaked + Limit
              BY <4>1, <5>1 DEF Covered
            <6>2. admitted + 1 <= leaked' + (used + 1)
              BY <5>2, <6>1, LeakPaysForOne
            <6>3. admitted + 1 <= leaked' + Limit
              BY <5>2, <6>1, LeakPaysForOne
            <6> QED
              BY <6>2, <6>3
          <5> QED
            BY <1>1, <3>1, <5>3 DEF Covered
        <4>2. CASE value = used
          BY <1>1, <2>2, <3>1, <4>2, RoomForOne, LimitAssumption
          DEF RepositoryIInv, RepositoryTypeOK, Pays, Covered
        <4> QED
          BY <1>4, <4>1, <4>2 DEF LeakedBy, Reads, RepositoryIInv, Pays
      <3> QED
        BY <1>1, <2>1, <3>1, <3>2, <3>3
        DEF RepositoryIInv, RepositoryTypeOK, Scope, Pays, Sent, Unpaid, Reads, Writes
    <2>3. CASE value >= Limit
      <3>1. /\ step' = "idle" /\ seen' = 0 /\ request' = "current" /\ admitted' = admitted
        BY <1>1, <1>4, <2>3, LimitAssumption
        DEF Continue, Finish, Counted, Writes, RepositoryTypeOK
      <3>2. Covered(admitted, used)'
        BY <1>1, <3>1, MoreMayLeak, LimitAssumption
        DEF RepositoryIInv, RepositoryTypeOK, Scope, Pays, Covered
      <3> QED
        BY <1>1, <2>1, <3>1, <3>2
        DEF RepositoryIInv, RepositoryTypeOK, Scope, Pays, Sent, Unpaid, Writes
    <2> QED
      BY <2>2, <2>3, LimitAssumption
  <1>5. CASE step = "get"
    <2>1. /\ step' = "set" /\ seen' = value /\ UNCHANGED <<request, admitted>>
      BY <1>5 DEF Continue, Proceed, Writes
    <2>2. request # "past" => value < attempts /\ used < attempts
      BY <1>1, <1>5, AttemptsAssumption DEF RepositoryIInv, RepositoryTypeOK, Sent, Reads
    <2>3. request = "current" => Covered(admitted, used)'
      BY <1>1, <2>1, MoreMayLeak, LimitAssumption DEF RepositoryIInv, RepositoryTypeOK, Pays, Covered
    <2>4. request = "current" => Covered(admitted, seen)'
      <3> SUFFICES ASSUME request = "current" PROVE Covered(admitted, seen)'
        OBVIOUS
      <3>1. CASE value = 0 /\ leaked' >= leaked + Limit
        BY <1>1, <2>1, <3>1, LeakPaysForBucket, LimitAssumption
        DEF RepositoryIInv, RepositoryTypeOK, Pays, Covered
      <3>2. CASE value = seen /\ pc[Client] = "succeeded"
        BY <1>1, <1>5, <2>1, <3>2, MoreMayLeak, LimitAssumption
        DEF RepositoryIInv, RepositoryTypeOK, Pays, Covered
      <3> QED
        BY <1>5, <3>1, <3>2 DEF LeakedBy, Reads
    <2> QED
      BY <1>1, <2>1, <2>2, <2>3, <2>4
      DEF RepositoryIInv, RepositoryTypeOK, Scope, Pays, Sent, Unpaid, Reads, Writes
  <1>6. CASE step \in Writes
    <2>1. Finish(seen < Limit)
      BY <1>6 DEF Continue, Writes
    <2>2. step' = "idle" /\ seen' = 0 /\ request' = "current"
      BY <2>1 DEF Finish
    <2>3. /\ admitted' \in Nat
          /\ admitted' = admitted \/ (request = "current" /\ seen < Limit /\ admitted' = admitted + 1)
      BY <1>1, <2>1 DEF Finish, Counted, InWindow, RepositoryTypeOK
    <2>4. Covered(admitted, used)'
      <3>1. CASE admitted' = admitted
        <4>1. Covered(admitted, used)
          BY <1>1, LimitAssumption DEF RepositoryIInv, RepositoryTypeOK, Scope, Pays, Covered
        <4> QED
          BY <1>1, <3>1, <4>1, MoreMayLeak, LimitAssumption DEF RepositoryTypeOK, Covered
      <3>2. CASE request = "current" /\ seen < Limit /\ admitted' = admitted + 1 /\ ~ Unpaid
        BY <1>1, <1>6, <3>2, MoreMayLeak, LimitAssumption
        DEF RepositoryIInv, RepositoryTypeOK, Pays, Covered
      <3>3. CASE request = "current" /\ seen < Limit /\ admitted' = admitted + 1 /\ Unpaid
        <4>1. leaked' >= leaked + 1
          BY <1>1, <1>6, <3>3 DEF LostWrite, RepositoryTypeOK
        <4> QED
          BY <1>1, <3>3, <4>1, LeakPaysForOne, LimitAssumption DEF RepositoryIInv, RepositoryTypeOK, Pays, Covered
      <3> QED
        BY <2>3, <3>1, <3>2, <3>3
    <2>5. used <= attempts
      BY <1>1, AttemptsAssumption DEF RepositoryIInv, RepositoryTypeOK, Scope, Sent
    <2> QED
      BY <1>1, <2>2, <2>3, <2>4, <2>5
      DEF RepositoryIInv, RepositoryTypeOK, Scope, Pays, Sent, Unpaid, Writes
  <1> QED
    BY <1>1, <1>2, <1>3, <1>4, <1>5, <1>6 DEF RepositoryTypeOK, Reads

LEMMA ClientAnswerKeepsIt ==
  RepositoryIInv /\ TypeOK' /\ (ClientBypassed \/ ClientSucceeded \/ ClientFailed) => RepositoryIInv'
  <1> SUFFICES ASSUME RepositoryIInv, TypeOK', ClientBypassed \/ ClientSucceeded \/ ClientFailed
               PROVE  RepositoryIInv'
    OBVIOUS
  <1>1. /\ step \in {"remove"} \cup Reads \cup Writes => LeakedBy(step) \in Nat
        /\ LostWrite \in Nat
        /\ leaked \in Nat /\ seen \in Nat /\ Default \in Nat
    BY LimitAssumption
    DEF LeakedBy, LostWrite, Default, Reads, Writes, RepositoryIInv, RepositoryTypeOK
  <1>2. CASE ClientBypassed
    <2>1. /\ Continue(Default) /\ step # "idle" /\ UNCHANGED <<pc, algorithm, used, attempts>>
          /\ leaked' = leaked + Counted(LeakedBy(step) + LostWrite) /\ pc[Client] = "idle"
      BY <1>2 DEF ClientBypassed
    <2>2. /\ leaked' \in Nat /\ leaked' >= leaked
          /\ request = "current" => leaked' >= leaked + LeakedBy(step) /\ leaked' >= leaked + LostWrite
      <3>1. LeakedBy(step) \in Nat /\ LostWrite \in Nat /\ leaked \in Nat
        BY <1>1, <2>1 DEF RepositoryIInv, RepositoryTypeOK, Reads, Writes
      <3>2. CASE request = "current"
        <4>1. leaked' = leaked + (LeakedBy(step) + LostWrite)
          BY <2>1, <3>2 DEF Counted, InWindow
        <4> QED
          BY <3>1, <4>1
      <3>3. CASE request # "current"
        BY <2>1, <3>1, <3>3 DEF Counted, InWindow
      <3> QED
        BY <3>2, <3>3
    <2> QED
      BY <1>1, <2>1, <2>2, ContinueKeepsIt DEF Default
  <1>3. CASE ClientSucceeded
    <2>1. /\ Continue(seen) /\ UNCHANGED <<algorithm, used, attempts, leaked>>
          /\ pc[Client] = "succeeded" /\ pc'[Client] = "idle"
      BY <1>3, ClientAssumption DEF ClientSucceeded, RecordSuccess, RepositoryIInv, RepositoryTypeOK, TypeOK
    <2>2. step # "idle" /\ ~ Unpaid
      BY <2>1 DEF RepositoryIInv, Scope, Unpaid
    <2> QED
      BY <1>1, <2>1, <2>2, ContinueKeepsIt
  <1>4. CASE ClientFailed
    <2>1. /\ Continue(Default) /\ UNCHANGED <<algorithm, used, attempts>>
          /\ leaked' = leaked + Counted(LeakedBy(step))
          /\ pc[Client] = "failed" /\ pc'[Client] = "idle"
      BY <1>4, ClientAssumption DEF ClientFailed, RecordFailure, RepositoryIInv, RepositoryTypeOK, TypeOK
    <2>2. step # "idle" /\ ~ Unpaid
      BY <2>1 DEF RepositoryIInv, Scope, Unpaid
    <2>3. /\ leaked' \in Nat /\ leaked' >= leaked
          /\ request = "current" => leaked' >= leaked + LeakedBy(step)
      BY <1>1, <2>1, <2>2 DEF Counted, InWindow, RepositoryIInv, RepositoryTypeOK
    <2> QED
      BY <1>1, <2>1, <2>2, <2>3, ContinueKeepsIt DEF Default
  <1> QED
    BY <1>2, <1>3, <1>4

\* The inductive invariant of the wrapper: at every step of a request, between a read and
\* the write that follows it too, what was admitted is covered.
THEOREM RepositoryInvariance == RepositorySpec => []RepositoryIInv
  <1>1. RepositorySpec => []TypeOK
    BY RepositoryUsesBreaker, TypeCorrect, PTL
  <1>2. RepositoryIInv /\ TypeOK' /\ [RepositoryNext]_repository_vars => RepositoryIInv'
    <2> SUFFICES ASSUME RepositoryIInv, TypeOK', [RepositoryNext]_repository_vars
                 PROVE  RepositoryIInv'
      OBVIOUS
    <2>1. CASE UNCHANGED repository_vars
      BY <2>1, OthersKeepIt DEF repository_vars, vars
    <2> QED
      BY <2>1, OtherCallKeepsIt, OperatorKeepsIt, FreshStartKeepsIt, BeginKeepsIt, EnterKeepsIt,
         OperateKeepsIt, ClientAnswerKeepsIt DEF RepositoryNext, ClientStep
  <1> QED
    BY <1>1, <1>2, InitRepositoryIInv, PTL DEF RepositorySpec

\* Type correctness of the repository, the breaker included.
THEOREM RepositoryTypeCorrect == RepositorySpec => []RepositoryTypeOK
  <1>1. RepositoryIInv => RepositoryTypeOK
    BY DEF RepositoryIInv
  <1> QED
    BY <1>1, RepositoryInvariance, PTL

\* Beyond its limit a client gets one request for each answer or write that was lost,
\* and one bucket for each bucket that could not be read.
THEOREM FailingOpenIsBounded == RepositorySpec => []FailOpenIsBounded
  <1>1. RepositoryIInv => FailOpenIsBounded
    BY LimitAssumption
    DEF RepositoryIInv, RepositoryTypeOK, Scope, Pays, Covered, FailOpenIsBounded
  <1> QED
    BY <1>1, RepositoryInvariance, PTL

\* No failure, no lost answer and no repeated increment makes a limit stricter than
\* what was sent.
THEOREM FailuresNeverReject == RepositorySpec => RejectionsAreEarned
  <1>1. RepositoryIInv /\ [RepositoryNext]_repository_vars =>
          [(step \in Reads /\ InWindow) /\ (step' = "idle" \/ (step' = "set" /\ seen' >= Limit))
             /\ admitted' = admitted => attempts > Limit]_repository_vars
    <2> SUFFICES ASSUME RepositoryIInv, RepositoryNext, step \in Reads, InWindow,
                        step' = "idle" \/ (step' = "set" /\ seen' >= Limit),
                        admitted' = admitted
                 PROVE  attempts > Limit
      OBVIOUS
    <2>1. /\ used \in Nat /\ seen \in Nat /\ attempts \in Nat /\ Limit \in Nat
          /\ request = "current" /\ step # "idle" /\ step # "set"
      BY LimitAssumption, AttemptsAssumption
      DEF RepositoryIInv, RepositoryTypeOK, InWindow, Reads
    <2>2. step' # step
      BY <2>1
    <2>3. PICK value \in Nat :
            /\ Continue(value)
            /\ value = 0 \/ (value = seen /\ pc[Client] = "succeeded")
      <3>1. ClientBypassed \/ ClientSucceeded \/ ClientFailed
        BY <2>1, <2>2 DEF RepositoryNext, ClientStep, WindowPasses, Operator, Clear, Begin, client,
           ClientEnter, ClientOperate, OtherCall
      <3> QED
        BY <2>1, <3>1 DEF ClientBypassed, ClientSucceeded, ClientFailed, RecordSuccess, Default
    <2>4. value > Limit \/ (value >= Limit /\ step \in {"count", "get"})
      <3>1. CASE step = "increment"
        <4>1. Finish(value <= Limit) /\ admitted \in Nat
          BY <2>3, <3>1 DEF Continue, Writes, RepositoryIInv, RepositoryTypeOK
        <4>2. ~ (value <= Limit)
          BY <2>1, <4>1 DEF Finish, Counted, InWindow
        <4> QED
          BY <2>1, <4>2
      <3>2. CASE step \in {"count", "get"}
        <4>1. CASE step = "count"
          <5>1. CASE value < Limit
            <6>1. Proceed("add", value)
              BY <2>3, <4>1, <5>1 DEF Continue, Writes
            <6> QED
              BY <6>1 DEF Proceed
          <5>2. CASE ~ (value < Limit)
            BY <2>1, <4>1, <5>2
          <5> QED
            BY <5>1, <5>2
        <4>2. CASE step = "get"
          BY <2>1, <2>3, <4>2 DEF Continue, Proceed, Writes
        <4> QED
          BY <3>2, <4>1, <4>2
      <3> QED
        BY <3>1, <3>2 DEF Reads
    <2>5. value <= attempts /\ (step \in {"count", "get"} => value < attempts)
      BY <2>1, <2>3 DEF RepositoryIInv, Sent, Reads
    <2> QED
      BY <2>1, <2>4, <2>5
  <1> QED
    BY <1>1, RepositoryInvariance, PTL DEF RepositorySpec, RejectionsAreEarned
=============================================================================
