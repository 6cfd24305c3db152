-------------------------- MODULE SlidingWindowLog --------------------------
(***************************************************************************)
(* SlidingWindowLogAlgorithm.allow_request, called by several threads for  *)
(* one client and endpoint, over a request log.  A call reads the clock,   *)
(* removes the entries that left its window, counts the others, decides,   *)
(* and if it admits adds the timestamp it began with.  Each repository     *)
(* operation is atomic and nothing joins them.                             *)
(*                                                                         *)
(* The log is a list of timestamps in MemoryRepository and a table of them *)
(* in SQLiteRepository.  In RedisRepository it is a sorted set whose       *)
(* members are the timestamps: two requests of the same instant are one    *)
(* member.  A tick of the model holds many instants, so requests of one    *)
(* tick may or may not be of the same.                                     *)
(***************************************************************************)
EXTENDS Integers, FiniteSets, Functions

CONSTANTS
  Threads,      \* the server threads that call allow_request
  Limit,        \* requests allowed in the sliding window
  Window,       \* length of the window, in ticks of the clock
  MaxTime,      \* bound of the model: the clock stops here
  MaxRequests   \* bound of the model: calls that may be started

ASSUME ThreadsAssumption == IsFiniteSet(Threads) /\ Threads # {}
ASSUME LimitAssumption == Limit \in Nat \ {0}
ASSUME WindowAssumption == Window \in Nat \ {0}
ASSUME BoundsAssumption == MaxTime \in Nat /\ MaxRequests \in Nat

VARIABLES
  store,     \* how the repository keeps the log: "list" or "sorted_set"
  now,       \* time.time()
  log,       \* the entries of the log, as their number at each timestamp
  pc,        \* where each thread is
  clock,     \* the local variable `now` of each call
  requests,  \* calls started so far
  admits,    \* history: the requests admitted with each timestamp
  merged     \* history: those of them that became one entry with another

vars == <<store, now, log, pc, clock, requests, admits, merged>>

Times == 0 .. MaxTime
Empty == [ts \in Times |-> 0]

TypeOK ==
  /\ store \in {"list", "sorted_set"}
  /\ now \in Times
  /\ log \in [Times -> Nat]
  /\ pc \in [Threads -> {"idle", "remove", "count", "add"}]
  /\ clock \in [Threads -> Times]
  /\ requests \in 0 .. MaxRequests
  /\ admits \in [Times -> Nat]
  /\ merged \in [Times -> Nat]

Init ==
  /\ store \in {"list", "sorted_set"}
  /\ now = 0
  /\ log = Empty
  /\ pc = [t \in Threads |-> "idle"]
  /\ clock = [t \in Threads |-> 0]
  /\ requests = 0
  /\ admits = Empty
  /\ merged = Empty

-----------------------------------------------------------------------------
\* The operations of the log: add_request_timestamp, remove_expired_entries and
\* get_request_count.
Added(l, ts) == [l EXCEPT ![ts] = @ + 1]

\* zremrangebyscore takes the start of the window with it, the others do not.  (The
\* faulty variant does so for every store.)
ExpiredInclusive(ts, window_start) == ts <= window_start
Expired(ts, window_start) ==
  IF store = "sorted_set" THEN ts <= window_start ELSE ts < window_start

WithoutExpired(l, window_start) ==
  [ts \in Times |-> IF Expired(ts, window_start) THEN 0 ELSE l[ts]]

CountFrom(l, window_start) == SumFunctionOnSet(l, {ts \in Times : ts >= window_start})

WindowStart(t) == clock[t] - Window

\* allowed = count < limit, and an off-by-one variant
AllowedAtLimit(count) == count <= Limit
Allowed(count) == count < Limit

Move(t, from, to) == pc[t] = from /\ pc' = [pc EXCEPT ![t] = to]

Tick ==
  /\ now < MaxTime
  /\ now' = now + 1
  /\ UNCHANGED <<store, log, pc, clock, requests, admits, merged>>

\* (a faulty variant that takes the end of the window for the time of the call)
ReadReset(t) ==
  /\ Move(t, "idle", "remove")
  /\ requests < MaxRequests
  /\ requests' = requests + 1
  /\ clock' = [clock EXCEPT ![t] = now + Window]
  /\ UNCHANGED <<store, now, log, admits, merged>>

\* now = time.time()
ReadClock(t) ==
  /\ Move(t, "idle", "remove")
  /\ requests < MaxRequests
  /\ requests' = requests + 1
  /\ clock' = [clock EXCEPT ![t] = now]
  /\ UNCHANGED <<store, now, log, admits, merged>>

\* repository.remove_expired_entries(log_key, window_start)
RemoveExpired(t) ==
  /\ Move(t, "remove", "count")
  /\ log' = WithoutExpired(log, WindowStart(t))
  /\ UNCHANGED <<store, now, clock, requests, admits, merged>>

\* count = repository.get_request_count(log_key, window_start), and the decision
CountAndDecide(t) ==
  /\ Move(t, "count", IF Allowed(CountFrom(log, WindowStart(t))) THEN "add" ELSE "idle")
  /\ UNCHANGED <<store, now, log, clock, requests, admits, merged>>

\* if allowed: repository.add_request_timestamp(log_key, now)
AddTimestamp(t) ==
  /\ Move(t, "add", "idle")
  /\ log' = Added(log, clock[t])
  /\ admits' = Added(admits, clock[t])
  /\ UNCHANGED <<store, now, clock, requests, merged>>

\* zadd of a timestamp that is a member already
AddSameTimestamp(t) ==
  /\ store = "sorted_set" /\ log[clock[t]] > 0
  /\ Move(t, "add", "idle")
  /\ admits' = Added(admits, clock[t])
  /\ merged' = Added(merged, clock[t])
  /\ UNCHANGED <<store, now, log, clock, requests>>

\* repository.clear(), as POST /admin/reset calls it; the history starts again.
Clear ==
  /\ log' = Empty
  /\ admits' = Empty
  /\ merged' = Empty
  /\ UNCHANGED <<store, now, pc, clock, requests>>

Next ==
  \/ Tick
  \/ Clear
  \/ \E t \in Threads :
       \/ ReadClock(t) \/ RemoveExpired(t) \/ CountAndDecide(t)
       \/ AddTimestamp(t) \/ AddSameTimestamp(t)

Spec == Init /\ [][Next]_vars

-----------------------------------------------------------------------------
\* What a call at time s + Window still counts: in the sorted set the timestamp at the
\* very start of the window has been removed.
InWindowFrom(s) == {ts \in Times : (s < ts \/ (s = ts /\ store = "list")) /\ ts <= s + Window}

\* The promise of the log is that no window holds more than Limit requests.  What
\* concurrent calls keep of it, however long each takes: counting and adding are
\* separate steps, so each thread but one may add a request that another's count has
\* not seen at either end of the window.  In Redis the requests that fell on the same
\* instant as another come on top, and nothing else.
WindowBoundedByThreads ==
  \A s \in Times :
    SumFunctionOnSet(admits, InWindowFrom(s)) <=
      Limit + 2 * (Cardinality(Threads) - 1) + SumFunctionOnSet(merged, InWindowFrom(s))

\* base.py:70, "Remove entries older than the window start.": whatever removals calls
\* that began long ago still do, every request admitted with a timestamp in the last
\* window has its entry in the log, or shares it; the one exactly at the window's start
\* included unless the store is Redis.
RemovalKeepsTheWindow ==
  \A ts \in InWindowFrom(now - Window) : admits[ts] = log[ts] + merged[ts]

=============================================================================
