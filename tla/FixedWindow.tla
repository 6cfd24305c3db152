---------------------------- MODULE FixedWindow ----------------------------
(***************************************************************************)
(* FixedWindowAlgorithm.allow_request over a MemoryRepository, called by   *)
(* several threads for one client and endpoint.  A call has two steps: it  *)
(* reads the clock and derives the window it will charge, and later it     *)
(* increments the counter of that window, under the repository's lock and  *)
(* with a second reading of the clock.  Anything may happen in between:    *)
(* other calls, the passing of any number of window boundaries, and an     *)
(* administrator's POST /admin/reset, which empties the repository.        *)
(***************************************************************************)
EXTENDS CounterStore, FiniteSets

CONSTANTS
  Threads,      \* the server threads that call allow_request
  Limit,        \* requests allowed in one window
  Window,       \* length of a window, in ticks of the clock
  MaxTime,      \* bound of the model: the clock stops here
  MaxRequests   \* bound of the model: calls that may be started

ASSUME ThreadsAssumption == IsFiniteSet(Threads)
ASSUME LimitAssumption == Limit \in Nat \ {0}
ASSUME WindowAssumption == Window \in Nat \ {0}
ASSUME BoundsAssumption == MaxTime \in Nat /\ MaxRequests \in Nat

VARIABLES
  now,              \* time.time()
  counters,         \* MemoryRepository._counters, by window index
  pc,               \* where each thread is: "idle", or about to increment
  current_window,   \* the local variable of each running call
  requests,         \* calls started so far
  admitted_in,      \* history: admissions charged to the entry a window's key has now
  on_time,          \* history: admissions charged to a window while it lasted
  admits            \* history: admissions decided while each window lasted

vars == <<now, counters, pc, current_window, requests, admitted_in, on_time, admits>>

Times == 0 .. MaxTime
WindowOf(t) == t \div Window
Windows == {WindowOf(t) : t \in Times}

TypeOK ==
  /\ now \in Times
  /\ counters \in [Windows -> Counter]
  /\ pc \in [Threads -> {"idle", "increment"}]
  /\ current_window \in [Threads -> Windows]
  /\ requests \in 0 .. MaxRequests
  /\ admitted_in \in [Windows -> Nat]
  /\ on_time \in [Windows -> Nat]
  /\ admits \in [Windows -> Nat]

Init ==
  /\ now = 0
  /\ counters = [w \in Windows |-> Missing]
  /\ pc = [t \in Threads |-> "idle"]
  /\ current_window = [t \in Threads |-> WindowOf(0)]
  /\ requests = 0
  /\ admitted_in = [w \in Windows |-> 0]
  /\ on_time = [w \in Windows |-> 0]
  /\ admits = [w \in Windows |-> 0]

-----------------------------------------------------------------------------
Tick ==
  /\ now < MaxTime
  /\ now' = now + 1
  /\ UNCHANGED <<counters, pc, current_window, requests, admitted_in, on_time, admits>>

\* now = time.time(); current_window = int(now // window)
ReadClock(t) ==
  /\ pc[t] = "idle"
  /\ requests < MaxRequests
  /\ requests' = requests + 1
  /\ current_window' = [current_window EXCEPT ![t] = WindowOf(now)]
  /\ pc' = [pc EXCEPT ![t] = "increment"]
  /\ UNCHANGED <<now, counters, admitted_in, on_time, admits>>

\* allowed = count <= limit (and a faulty variant that rejects the last one)
AllowedBelowLimit(count) == count < Limit
Allowed(count) == count <= Limit

\* The entry that charging window w at this instant leaves behind.
Charged(w) == Incremented(counters[w], Window, now)

\* count = repository.increment_counter(window_key, window), and the decision.
IncrementCounter(t) ==
  LET w == current_window[t]
      ok == IF Allowed(Charged(w).count) THEN 1 ELSE 0
      same_entry == Live(counters[w], now)
  IN  /\ pc[t] = "increment"
      /\ counters' = [counters EXCEPT ![w] = Charged(w)]
      /\ pc' = [pc EXCEPT ![t] = "idle"]
      /\ admitted_in' = [admitted_in EXCEPT ![w] = IF same_entry THEN @ + ok ELSE ok]
      /\ on_time' = [on_time EXCEPT ![w] = IF WindowOf(now) = w THEN @ + ok ELSE @]
      /\ admits' = [admits EXCEPT ![WindowOf(now)] = @ + ok]
      /\ UNCHANGED <<now, current_window, requests>>

\* repository.clear(), as POST /admin/reset calls it.  The history starts again:
\* what was admitted before a reset no longer counts.
Clear ==
  /\ counters' = [w \in Windows |-> Missing]
  /\ admitted_in' = [w \in Windows |-> 0]
  /\ on_time' = [w \in Windows |-> 0]
  /\ admits' = [w \in Windows |-> 0]
  /\ UNCHANGED <<now, pc, current_window, requests>>

Next ==
  \/ Tick
  \/ Clear
  \/ \E t \in Threads : ReadClock(t) \/ IncrementCounter(t)

Spec == Init /\ [][Next]_vars

-----------------------------------------------------------------------------
\* The entry of a window never expires while the window lasts, whichever thread
\* created it and when, because its life (ttl = window) is counted from its first
\* increment and no thread can charge a window before it begins.
EntryOutlivesItsWindow ==
  \A w \in Windows :
    counters[w] # Missing => counters[w].expires_at >= (w + 1) * Window

\* No window admits more than the limit while it lasts, however the calls of the
\* threads interleave and however long each waits between its two clock readings.
OnTimeWithinLimit == \A w \in Windows : on_time[w] <= Limit

\* A live counter and the decisions made from it agree: exactly the first Limit
\* requests it counted were admitted, so no rejection came early and none late.
RejectionsAreEarned ==
  \A w \in Windows :
    Live(counters[w], now) =>
      admitted_in[w] = (IF Allowed(counters[w].count) THEN counters[w].count ELSE Limit)

\* Requests decided while a window lasts exceed the limit by at most one per
\* thread: a call that straddles a boundary is charged to the window before,
\* whose key may have expired and started again.
OverrunBoundedByThreads ==
  \A w \in Windows : admits[w] <= Limit + Cardinality(Threads)
=============================================================================
