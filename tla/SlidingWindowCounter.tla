------------------------ MODULE SlidingWindowCounter ------------------------
(***************************************************************************)
(* SlidingWindowCounterAlgorithm.allow_request over a MemoryRepository,    *)
(* called by several threads for one client and endpoint.  A call reads    *)
(* the clock, then the counter of the current window, then the counter of  *)
(* the previous one; it decides, and if it admits it increments the        *)
(* current counter.  The repository takes its lock, and reads the clock,   *)
(* once for each of those operations, so calls interleave between them.    *)
(* The limit is an argument, and may differ from call to call.             *)
(***************************************************************************)
EXTENDS CounterStore, FiniteSets

CONSTANTS
  Threads,      \* the server threads that call allow_request
  Limits,       \* the limits a call may be given for one window
  Window,       \* length of a window, in ticks of the clock
  MaxTime,      \* bound of the model: the clock stops here
  MaxRequests   \* bound of the model: calls that may be started

ASSUME LimitsAssumption == Limits \subseteq Nat
ASSUME ThreadsAssumption == IsFiniteSet(Threads) /\ Threads # {}
ASSUME WindowAssumption == Window \in Nat \ {0}
ASSUME BoundsAssumption == MaxTime \in Nat /\ MaxRequests \in Nat

VARIABLES
  now,            \* time.time()
  counters,       \* MemoryRepository._counters, by window index
  pc,             \* where each thread is
  clock,          \* the local variable `now` of each call
  limit,          \* the limit it is called with
  current_count,  \* the local variable of each call
  requests,       \* calls started so far
  charged,        \* history: increments made to a window's key, ever
  on_time,        \* history: those of them made while the window lasted
  largest         \* history: the largest limit a call of the window was admitted with

calls == <<pc, clock, limit, current_count>>
counts == <<charged, on_time, largest>>
vars == <<now, counters, calls, requests, counts>>

Times == 0 .. MaxTime
WindowOf(t) == t \div Window
\* Window -1 stands before the first one: its key is read but never charged.
Windows == -1 .. WindowOf(MaxTime)

TypeOK ==
  /\ now \in Times
  /\ counters \in [Windows -> Counter]
  /\ pc \in [Threads -> {"idle", "current", "previous", "increment"}]
  /\ clock \in [Threads -> Times]
  /\ limit \in [Threads -> Nat]
  /\ current_count \in [Threads -> Nat]
  /\ requests \in 0 .. MaxRequests
  /\ charged \in [Windows -> Nat]
  /\ on_time \in [Windows -> Nat]
  /\ largest \in [Windows -> Nat]

Init ==
  /\ now = 0
  /\ counters = [w \in Windows |-> Missing]
  /\ pc = [t \in Threads |-> "idle"]
  /\ clock = [t \in Threads |-> 0]
  /\ limit = [t \in Threads |-> 0]
  /\ current_count = [t \in Threads |-> 0]
  /\ requests = 0
  /\ charged = [w \in Windows |-> 0]
  /\ on_time = [w \in Windows |-> 0]
  /\ largest = [w \in Windows |-> 0]

-----------------------------------------------------------------------------
\* What a call computes from its own reading of the clock.
CurrentWindow(t) == WindowOf(clock[t])
PreviousWindow(t) == CurrentWindow(t) - 1
Elapsed(t) == clock[t] - CurrentWindow(t) * Window

\* int(previous_count * (1 - elapsed / window) + current_count); the faulty variant
\* rounds up.
EstimateRoundedUp(previous, current, elapsed) ==
  (previous * (Window - elapsed) + Window - 1) \div Window + current

Estimate(previous, current, elapsed) ==
  (previous * (Window - elapsed)) \div Window + current

\* allowed = estimated_count < limit, and an off-by-one variant
AllowedAtLimit(estimated_count, t) == estimated_count <= limit[t]
Allowed(estimated_count, t) == estimated_count < limit[t]

Move(t, from, to) == pc[t] = from /\ pc' = [pc EXCEPT ![t] = to]

\* A call that has returned leaves nothing behind.
Locals(t, clock_, limit_, count) ==
  /\ clock' = [clock EXCEPT ![t] = clock_]
  /\ limit' = [limit EXCEPT ![t] = limit_]
  /\ current_count' = [current_count EXCEPT ![t] = count]

Tick ==
  /\ now < MaxTime
  /\ now' = now + 1
  /\ UNCHANGED <<counters, calls, requests, counts>>

\* now = time.time().  (The faulty variant takes the end of the window for it.)
BeginAtReset(t, l) ==
  /\ Move(t, "idle", "current")
  /\ requests < MaxRequests
  /\ requests' = requests + 1
  /\ Locals(t, now + Window, l, 0)
  /\ UNCHANGED <<now, counters, counts>>

Begin(t, l) ==
  /\ Move(t, "idle", "current")
  /\ requests < MaxRequests
  /\ requests' = requests + 1
  /\ Locals(t, now, l, 0)
  /\ UNCHANGED <<now, counters, counts>>

\* current_count = repository.get_counter(current_key)
GetCurrent(t) ==
  LET w == CurrentWindow(t)
  IN  /\ Move(t, "current", "previous")
      /\ Locals(t, clock[t], limit[t], ValueAt(counters[w], now))
      /\ counters' = [counters EXCEPT ![w] = AfterRead(@, now)]
      /\ UNCHANGED <<now, requests, counts>>

\* previous_count = repository.get_counter(previous_key), and the decision
GetPreviousAndDecide(t) ==
  LET w == PreviousWindow(t)
      estimated_count == Estimate(ValueAt(counters[w], now), current_count[t], Elapsed(t))
  IN  /\ \/ /\ Allowed(estimated_count, t)
             /\ Move(t, "previous", "increment")
             /\ UNCHANGED <<clock, limit, current_count>>
          \/ /\ ~ Allowed(estimated_count, t)
             /\ Move(t, "previous", "idle") /\ Locals(t, 0, 0, 0)
      /\ counters' = [counters EXCEPT ![w] = AfterRead(@, now)]
      /\ UNCHANGED <<now, requests, counts>>

\* if allowed: repository.increment_counter(current_key, window)
IncrementCurrent(t) ==
  LET w == CurrentWindow(t)
  IN  /\ Move(t, "increment", "idle") /\ Locals(t, 0, 0, 0)
      /\ counters' = [counters EXCEPT ![w] = Incremented(@, Window, now)]
      /\ charged' = [charged EXCEPT ![w] = @ + 1]
      /\ on_time' = [on_time EXCEPT ![w] = IF WindowOf(now) = w THEN @ + 1 ELSE @]
      /\ largest' = [largest EXCEPT ![w] = IF limit[t] > @ THEN limit[t] ELSE @]
      /\ UNCHANGED <<now, requests>>

\* repository.clear(), as POST /admin/reset calls it.  What was charged stays
\* charged in the history; the window starts to count afresh.
Clear ==
  /\ counters' = [w \in Windows |-> Missing]
  /\ on_time' = [w \in Windows |-> 0]
  /\ UNCHANGED <<now, calls, requests, charged, largest>>

CallStep(t) == GetCurrent(t) \/ GetPreviousAndDecide(t) \/ IncrementCurrent(t)

Next ==
  \/ Tick
  \/ Clear
  \/ \E t \in Threads : CallStep(t) \/ \E l \in Limits : Begin(t, l)

Spec == Init /\ [][Next]_vars

-----------------------------------------------------------------------------
\* A window admits, while it lasts, at most one request per concurrent thread beyond
\* the largest limit it admitted one with: counting and charging are separate steps,
\* so every thread but one may decide on a count the others are about to raise.  A
\* limit that is lowered meanwhile takes nothing back.
OvershootBoundedByThreads ==
  \A w \in Windows : on_time[w] <= largest[w] + Cardinality(Threads) - 1

\* A call is rejected only if the exact weighted count of what was charged to its
\* two windows has reached the limit it was given: an expired or stale reading can
\* only make the algorithm more permissive, never stricter.
RejectsOnlyAtTheLimit ==
  [][\A t \in Threads :
       pc[t] = "previous" /\ pc'[t] = "idle" =>
         charged[PreviousWindow(t)] * (Window - Elapsed(t)) + charged[CurrentWindow(t)] * Window
           >= limit[t] * Window]_vars
=============================================================================
