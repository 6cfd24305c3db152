-------------------------- MODULE RequestCoalescer --------------------------
(***************************************************************************)
(* RequestCoalescer (src/app/services/coalescing.py), driven the way       *)
(* RateLimiterService drives it: a call asks for a cached result, and if   *)
(* there is none it makes the check itself and caches what it got.  The    *)
(* clock is read before the lock is taken (get_cached) or under it         *)
(* (cache_result); the check is somebody else's and may take any time.     *)
(***************************************************************************)
EXTENDS Integers, FiniteSets, Functions

CONSTANTS
  Threads,          \* the server threads
  Keys,             \* "client:endpoint:METHOD:cost"
  CoalescingWindow, \* window_ms, in ticks of the clock
  MaxCoalesce,      \* max_coalesce: requests one result may answer
  MaxTime,          \* bound of the model: the clock stops here
  MaxRequests       \* bound of the model: calls that may be started

ASSUME CoalescerAssumption ==
  Keys # {} /\ CoalescingWindow \in Nat /\ MaxCoalesce \in Nat \ {0} /\ MaxTime \in Nat /\ MaxRequests \in Nat

VARIABLES
  now,      \* time.time()
  cache,    \* _cache
  stats,    \* _stats
  pc,       \* where each thread is
  key,      \* the key of each running call
  clock,    \* the local variable `now` of get_cached
  checked,  \* the result each running call has computed: its `allowed`
  requests, \* calls started so far
  stored,   \* history: results cached, by key and decision
  reused    \* history: answers given from the cache, by key and decision

vars == <<now, cache, stats, pc, key, clock, checked, requests, stored, reused>>

Times == 0 .. MaxTime
\* A key that is not in the dictionary; CoalescedResult otherwise.
NoEntry == [request_count |-> 0]
CoalescedResult == [result : BOOLEAN, timestamp : Times, request_count : 1 .. MaxCoalesce]

Tally == [Keys -> [BOOLEAN -> Nat]]

TypeOK ==
  /\ now \in Times
  /\ cache \in [Keys -> CoalescedResult \cup {NoEntry}]
  /\ stats \in [hits : Nat, misses : Nat, evictions : Nat]
  /\ pc \in [Threads -> {"idle", "get", "check", "store"}]
  /\ key \in [Threads -> Keys]
  /\ clock \in [Threads -> Times]
  /\ checked \in [Threads -> BOOLEAN]
  /\ requests \in 0 .. MaxRequests
  /\ stored \in Tally
  /\ reused \in Tally

Init ==
  /\ now = 0
  /\ cache = [k \in Keys |-> NoEntry]
  /\ stats = [hits |-> 0, misses |-> 0, evictions |-> 0]
  /\ pc = [t \in Threads |-> "idle"]
  /\ key = [t \in Threads |-> CHOOSE k \in Keys : TRUE]
  /\ clock = [t \in Threads |-> 0]
  /\ checked = [t \in Threads |-> FALSE]
  /\ requests = 0
  /\ stored = [k \in Keys |-> [b \in BOOLEAN |-> 0]]
  /\ reused = [k \in Keys |-> [b \in BOOLEAN |-> 0]]

-----------------------------------------------------------------------------
Move(t, from, to) == pc[t] = from /\ pc' = [pc EXCEPT ![t] = to]

Tick ==
  /\ now < MaxTime
  /\ now' = now + 1
  /\ UNCHANGED <<cache, stats, pc, key, clock, checked, requests, stored, reused>>

\* now = time.time(), before the lock
Arrive(t, k) ==
  /\ Move(t, "idle", "get")
  /\ requests < MaxRequests
  /\ requests' = requests + 1
  /\ key' = [key EXCEPT ![t] = k]
  /\ clock' = [clock EXCEPT ![t] = now]
  /\ UNCHANGED <<now, cache, stats, checked, stored, reused>>

\* The entry may answer a request that came at time t: it is neither expired nor
\* saturated.  Faulty variants: saturation found one request late, and never.
UsableOnceMore(e, t) == e # NoEntry /\ t - e.timestamp <= CoalescingWindow /\ e.request_count <= MaxCoalesce
UsableForever(e, t) == e # NoEntry /\ t - e.timestamp <= CoalescingWindow

Usable(e, t) ==
  /\ e # NoEntry
  /\ t - e.timestamp <= CoalescingWindow
  /\ e.request_count < MaxCoalesce

\* get_cached finds a result it may reuse.
Hit(t) ==
  LET e == cache[key[t]]
  IN  /\ Move(t, "get", "idle")
      /\ Usable(e, clock[t])
      /\ cache' = [cache EXCEPT ![key[t]].request_count = @ + 1]
      /\ stats' = [stats EXCEPT !.hits = @ + 1]
      /\ reused' = [reused EXCEPT ![key[t]][e.result] = @ + 1]
      /\ UNCHANGED <<now, key, clock, checked, requests, stored>>

\* get_cached finds nothing, or an entry it deletes because it is expired or
\* saturated.  (The faulty variant counts an eviction and leaves the entry.)
MissLeavingTheEntry(t) ==
  LET e == cache[key[t]]
  IN  /\ Move(t, "get", "check")
      /\ ~ Usable(e, clock[t])
      /\ stats' = [stats EXCEPT !.misses = @ + 1,
                                !.evictions = @ + IF e = NoEntry THEN 0 ELSE 1]
      /\ UNCHANGED <<now, cache, key, clock, checked, requests, stored, reused>>

Miss(t) ==
  LET e == cache[key[t]]
  IN  /\ Move(t, "get", "check")
      /\ ~ Usable(e, clock[t])
      /\ cache' = [cache EXCEPT ![key[t]] = NoEntry]
      /\ stats' = [stats EXCEPT !.misses = @ + 1,
                                !.evictions = @ + IF e = NoEntry THEN 0 ELSE 1]
      /\ UNCHANGED <<now, key, clock, checked, requests, stored, reused>>

\* The caller's own check comes to a decision ...
Decide(t, allowed) ==
  /\ Move(t, "check", "store")
  /\ checked' = [checked EXCEPT ![t] = allowed]
  /\ UNCHANGED <<now, cache, stats, key, clock, requests, stored, reused>>

\* ... or ends without a result to cache (the pool is empty, or a ValueError).
Abandon(t) ==
  /\ Move(t, "check", "idle")
  /\ UNCHANGED <<now, cache, stats, key, clock, checked, requests, stored, reused>>

\* cache_result: the new entry replaces whatever is there.  Faulty variants: the
\* entry answers none but later requests, or is stamped with the time of arrival.
StoreUncounted(t) ==
  /\ Move(t, "store", "idle")
  /\ cache' = [cache EXCEPT ![key[t]] =
       [result |-> checked[t], timestamp |-> now, request_count |-> 0]]
  /\ stored' = [stored EXCEPT ![key[t]][checked[t]] = @ + 1]
  /\ UNCHANGED <<now, stats, key, clock, checked, requests, reused>>

Store(t) ==
  /\ Move(t, "store", "idle")
  /\ cache' = [cache EXCEPT ![key[t]] =
       [result |-> checked[t], timestamp |-> now, request_count |-> 1]]
  /\ stored' = [stored EXCEPT ![key[t]][checked[t]] = @ + 1]
  /\ UNCHANGED <<now, stats, key, clock, checked, requests, reused>>

\* clear
Clear ==
  /\ cache' = [k \in Keys |-> NoEntry]
  /\ UNCHANGED <<now, stats, pc, key, clock, checked, requests, stored, reused>>

Call(t) ==
  \/ \E k \in Keys : Arrive(t, k)
  \/ Hit(t) \/ Miss(t) \/ Abandon(t) \/ Store(t)
  \/ \E allowed \in BOOLEAN : Decide(t, allowed)

Next == Tick \/ Clear \/ \E t \in Threads : Call(t)

Spec == Init /\ [][Next]_vars

-----------------------------------------------------------------------------
\* How many later requests the result in the cache has answered, and whether it is
\* one of those stored with decision b.
ReusedFromEntry(k, b) ==
  IF cache[k] # NoEntry /\ cache[k].result = b THEN cache[k].request_count - 1 ELSE 0

Spent(k, b) == IF cache[k] # NoEntry /\ cache[k].result = b THEN 1 ELSE 0

\* Every admission (and every rejection) given from the cache is backed by one
\* that was really made: a result answers at most max_coalesce requests, its own
\* included, however late it is stored, whatever it overwrites and however often
\* the cache is cleared.
ReuseIsBacked ==
  \A k \in Keys : \A b \in BOOLEAN :
    reused[k][b] <= (MaxCoalesce - 1) * (stored[k][b] - Spent(k, b)) + ReusedFromEntry(k, b)

\* The statistics agree with the cache: every hit gave one answer, and every result
\* ever stored was evicted at most once, and not if it is still in the cache.
StatsMatchTheCache ==
  /\ stats.hits = SumFunctionOnSet([k \in Keys |-> reused[k][TRUE] + reused[k][FALSE]], Keys)
  /\ stats.evictions + Cardinality({k \in Keys : cache[k] # NoEntry})
       <= SumFunctionOnSet([k \in Keys |-> stored[k][TRUE] + stored[k][FALSE]], Keys)
=============================================================================
