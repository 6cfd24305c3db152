------------------------- MODULE ResilientRepository -------------------------
(***************************************************************************)
(* ResilientRepository (src/app/repositories/resilient_repository.py): a   *)
(* repository each of whose operations goes through the circuit breaker    *)
(* and, if it fails or is bypassed, answers as if nothing were stored.     *)
(* One thread serves the requests of one client, by the algorithm of its   *)
(* endpoint; the others serve other clients, and meet it in the breaker    *)
(* they share.  An operation that fails may have taken effect, and the     *)
(* Redis client sends an operation again whose answer did not come.        *)
(*                                                                         *)
(* A tick of the breaker's clock is longer than a window of the algorithm: *)
(* what was stored before it no longer counts, and a bucket is full.       *)
(***************************************************************************)
EXTENDS CircuitBreaker

CONSTANTS
  Client,      \* the thread that serves the client
  Limit,       \* its requests in a window, or the capacity of its bucket
  MaxAttempts  \* bound of the model: increments, or other requests, sent in a window

ASSUME ClientAssumption == Client \in Threads
ASSUME LimitAssumption == Limit \in Nat \ {0}
ASSUME AttemptsAssumption == MaxAttempts \in Nat

VARIABLES
  algorithm,  \* that of the client's endpoint
  used,       \* what the store holds: the counter, the log's length, or the tokens spent
  step,       \* the repository operation its request is at
  seen,       \* what the request has read
  request,    \* "past" if it began before the last tick, "cleared" if before the last clear
  attempts,   \* history: requests of the window, and increments sent again
  admitted,   \* history: requests of the window that were let in
  leaked      \* history: how many of them failures may have let in

client == <<used, step, seen, request, attempts, admitted, leaked>>
repository_vars == <<vars, algorithm, client>>

Algorithms == {"fixed_window", "sliding_window_log", "token_bucket"}
Reads == {"increment", "count", "get"}   \* an increment returns the new count
Writes == {"add", "set"}

RepositoryTypeOK ==
  /\ TypeOK
  /\ algorithm \in Algorithms
  /\ used \in Nat
  /\ step \in {"idle", "remove"} \cup Reads \cup Writes
  /\ seen \in Nat
  /\ request \in {"current", "cleared", "past"}
  /\ attempts \in 0 .. MaxAttempts
  /\ admitted \in Nat
  /\ leaked \in Nat

RepositoryInit ==
  /\ Init
  /\ algorithm \in Algorithms
  /\ used = 0 /\ step = "idle" /\ seen = 0 /\ request = "current"
  /\ attempts = 0 /\ admitted = 0 /\ leaked = 0

-----------------------------------------------------------------------------
\* The first repository operation of a request.
FirstOperation ==
  CASE algorithm = "fixed_window" -> "increment"
    [] algorithm = "sliding_window_log" -> "remove"
    [] algorithm = "token_bucket" -> "get"

Begin ==
  /\ step = "idle" /\ attempts < MaxAttempts
  /\ step' = FirstOperation
  /\ attempts' = attempts + 1
  /\ UNCHANGED <<vars, algorithm, used, seen, request, admitted, leaked>>

InWindow == request = "current"
Counted(n) == IF InWindow THEN n ELSE 0

Finish(allowed) ==
  /\ step' = "idle" /\ seen' = 0 /\ request' = "current"
  /\ admitted' = admitted + Counted(IF allowed THEN 1 ELSE 0)

Proceed(operation, value) ==
  /\ step' = operation /\ seen' = value
  /\ UNCHANGED <<request, admitted>>

\* What the algorithm does when the operation has answered.  A bucket is stored
\* whether the request is allowed or not.
Continue(value) ==
  \/ step = "increment" /\ Finish(value <= Limit)
  \/ step = "remove" /\ Proceed("count", 0)
  \/ step = "count" /\ IF value < Limit THEN Proceed("add", value) ELSE Finish(FALSE)
  \/ step = "get" /\ Proceed("set", value)
  \/ step \in Writes /\ Finish(seen < Limit)

\* The answer of an operation that failed or was bypassed, and what that may let in:
\* a request, or after get_token_bucket a whole bucket.  (The faulty variant closes
\* where the code opens.)
DefaultClosed == Limit + 1
Default == 0

LeakedBy(operation) ==
  CASE operation \in {"increment", "count"} -> 1
    [] operation = "get" -> Limit
    [] OTHER -> 0

\* A write that is lost lets in the next request instead.
LostWrite == IF step \in Writes /\ seen < Limit THEN 1 ELSE 0

-----------------------------------------------------------------------------
\* What the store holds once the operation has taken effect.  (Faulty variant: the
\* bucket is stored as it was found.)
StoredUnspent ==
  IF request = "past" THEN used ELSE
  CASE step \in {"increment", "add"} -> used + 1
    [] step = "set" -> seen
    [] OTHER -> used

Stored ==
  IF request = "past" THEN used ELSE
  CASE step \in {"increment", "add"} -> used + 1
    [] step = "set" -> IF seen < Limit THEN seen + 1 ELSE seen
    [] OTHER -> used

\* What it answers; of an earlier window's key, anything.
Answers(stored) == IF request = "past" THEN 0 .. Limit + 1 ELSE {stored}

Served ==
  /\ backend_up
  /\ used' = Stored
  /\ seen' \in IF step \in Reads THEN Answers(used') ELSE {seen}
  /\ UNCHANGED <<attempts, leaked>>

\* retry_on_timeout: the answer did not come in time, and the increment is repeated.
Repeated ==
  /\ step = "increment" /\ request # "past"
  /\ attempts < MaxAttempts /\ attempts' = attempts + 1
  /\ used' = Stored + 1
  /\ UNCHANGED leaked

ServedTwice == backend_up /\ Repeated /\ seen' = used'

FailedUnserved ==
  /\ ~ backend_up
  /\ leaked' = leaked + Counted(LostWrite)
  /\ UNCHANGED <<used, seen, attempts>>

FailedAfterwards ==
  /\ ~ backend_up
  /\ used' = Stored
  /\ UNCHANGED <<seen, attempts, leaked>>

\* The second answer did not come either, and both increments took effect.
FailedTwice == ~ backend_up /\ Repeated /\ UNCHANGED seen

\* self._repository.<operation>(...), between the breaker's two looks at its state.
ClientOperate ==
  /\ Operate(Client)
  /\ Served \/ ServedTwice \/ FailedUnserved \/ FailedAfterwards \/ FailedTwice
  /\ UNCHANGED <<algorithm, step, request, admitted>>

\* execute begins ...
ClientEnter ==
  /\ step # "idle"
  /\ Enter(Client)
  /\ UNCHANGED <<algorithm, client>>

\* ... or raises CircuitBreakerOpen, and the wrapper answers with the default.
ClientBypassed ==
  /\ step # "idle" /\ pc[Client] = "idle"
  /\ ReadState /\ state' = "open"
  /\ Continue(Default)
  /\ leaked' = leaked + Counted(LeakedBy(step) + LostWrite)
  /\ UNCHANGED <<failure_count, age, pc, backend_up, since_opened, algorithm, used, attempts>>

ClientSucceeded ==
  /\ RecordSuccess(Client)
  /\ Continue(seen)
  /\ UNCHANGED <<algorithm, used, attempts, leaked>>

\* except Exception: the default as well.
ClientFailed ==
  /\ RecordFailure(Client)
  /\ Continue(Default)
  /\ leaked' = leaked + Counted(LeakedBy(step))
  /\ UNCHANGED <<algorithm, used, attempts>>

ClientStep ==
  Begin \/ ClientEnter \/ ClientBypassed \/ ClientOperate \/ ClientSucceeded \/ ClientFailed

\* clear goes past the breaker; if it fails that is logged, and nothing else.  A
\* request underway may bring back what it has read, so the history only starts
\* again if there is none.
Clear ==
  /\ backend_up
  /\ used' = 0 /\ admitted' = 0 /\ leaked' = 0
  /\ request' = IF step # "idle" /\ InWindow THEN "cleared" ELSE request
  /\ attempts' = IF step = "idle" THEN 0 ELSE attempts
  /\ UNCHANGED <<vars, algorithm, step, seen>>

WindowPasses ==
  /\ Tick
  /\ used' = 0 /\ attempts' = 0 /\ admitted' = 0 /\ leaked' = 0
  /\ request' = IF step # "idle" THEN "past" ELSE request
  /\ UNCHANGED <<algorithm, step, seen>>

\* The breaker's other users: threads of other clients, /health and /admin.
OtherCall(t) == Call(t) /\ UNCHANGED <<algorithm, client>>
Operator == (BackendChanges \/ PollState \/ Reset) /\ UNCHANGED <<algorithm, client>>

RepositoryNext ==
  \/ WindowPasses
  \/ Operator
  \/ Clear
  \/ ClientStep
  \/ \E t \in Threads \ {Client} : OtherCall(t)

RepositoryFairness ==
  /\ WF_repository_vars(WindowPasses)
  /\ WF_repository_vars(ClientStep)
  /\ \A t \in Threads \ {Client} : WF_repository_vars(OtherCall(t))

RepositorySpec == RepositoryInit /\ [][RepositoryNext]_repository_vars
FairRepositorySpec == RepositorySpec /\ RepositoryFairness

-----------------------------------------------------------------------------
\* Failing open has a price that is known: beyond its limit a client gets one request
\* for each answer or write that was lost, and one bucket for each bucket that could
\* not be read, because the fresh one that is stored in its place forgets the old.
FailOpenIsBounded == admitted <= Limit + leaked

\* No failure makes a limit stricter: a client is rejected only if it sent more than
\* its limit, the increments its storage client repeated included.
RejectionsAreEarned ==
  [][(step \in Reads /\ InWindow) /\ (step' = "idle" \/ (step' = "set" /\ seen' >= Limit))
       /\ admitted' = admitted =>
         attempts > Limit]_repository_vars
=============================================================================
