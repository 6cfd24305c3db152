------------------------- MODULE RateLimiterService -------------------------
(***************************************************************************)
(* RateLimiterService.check_rate_limit (src/app/services/rate_limiter.py): *)
(* what one request meets on its way, for several server threads.  A live  *)
(* call asks the coalescer, then charges the shared pool, then consumes    *)
(* its cost from the algorithm one unit at a time, caches the result and   *)
(* records its metrics; a shadow call only consumes units, of a repository *)
(* of its own.  Every component takes its own lock, so calls interleave    *)
(* between any two of those steps, and an administrator's POST             *)
(* /admin/reset comes in two steps as well.                                *)
(*                                                                         *)
(* The coalescer is the module RequestCoalescer, step for step; the pool   *)
(* is QuotaPool.  The algorithm is the fixed window, one step for a unit:  *)
(* what may happen between its two clock readings is FixedWindow's matter. *)
(***************************************************************************)
EXTENDS CounterStore, QuotaPool, FiniteSetsExt, Functions

CONSTANTS
  Threads,
  Clients,          \* the authenticated clients, all members of one pool
  Configured,       \* those of them with a limit for the endpoint
  Costs,            \* the weights of the requests
  Limit, Window,    \* of the endpoint, for every configured client
  Tiers,            \* the limits of its time-of-day policy
  Multipliers,      \* those the adaptive limiter may have, in tenths
  PoolLimit, PoolWindow,
  CoalescingWindow, MaxCoalesce,
  MaxTime,          \* bound of the model: the clock stops here
  MaxRequests,      \* bound of the model: calls that may be started
  MaxResets         \* bound of the model: resets by the administrator

ASSUME ServiceAssumption ==
  /\ Clients # {} /\ Configured \subseteq Clients /\ Costs # {} /\ Costs \subseteq Nat \ {0}
  /\ {Limit, Window, PoolLimit, PoolWindow} \cup Multipliers \subseteq Nat \ {0}
  /\ Tiers \subseteq Int /\ Multipliers # {}
  /\ {CoalescingWindow, MaxTime, MaxRequests, MaxResets} \subseteq Nat /\ MaxCoalesce \in Nat \ {0}
  /\ IsFiniteSet(Threads) /\ IsFiniteSet(Clients) /\ IsFiniteSet(Costs)

VARIABLES
  now, cache, stats, pc, key, clock, checked, requests, stored, reused,  \* the coalescer's
  stage,      \* where each call is
  shadow,     \* whether it is a shadow call
  limit,      \* its effective_limit
  left,       \* the units it has still to consume
  answer,     \* its result.allowed
  pool,       \* the pool of all clients
  live, dry,  \* the counters of the two repositories, by client and window
  metrics,    \* RateLimiterMetrics: decisions counted
  resets, admin,
  paid, taken, admitted,  \* history: units the pool granted, the algorithm consumed, the answers let in
  answers     \* history: answers given since the metrics were reset

coalescer_vars == <<now, cache, stats, pc, key, clock, checked, requests, stored, reused>>
call_vars == <<stage, shadow, limit, left, answer>>
history == <<paid, taken, admitted, answers>>
vars == <<coalescer_vars, call_vars, pool, live, dry, metrics, resets, admin, history>>

\* The coalescing key `endpoint:METHOD:cost` of a client, for one endpoint.
Request == [client : Clients, cost : Costs]
Coalescer == INSTANCE RequestCoalescer WITH Keys <- Request

Windows == 0 .. MaxTime \div Window
Counters == [Clients -> [Windows -> Counter]]

\* A live call's limit is the tier of the hour or, if none applies, the configured
\* one; the adaptive limiter then scales it to the load of the moment, and never
\* below 1.  A call computes it once, whatever changes while it consumes its units.
TierLimits == Tiers \cup {Limit}
Adapted(l) == {Max({1, (l * m) \div 10}) : m \in Multipliers}
EffectiveLimits == UNION {Adapted(l) : l \in TierLimits}

Decisions == [allowed : Nat, rejected : Nat]
None == [allowed |-> 0, rejected |-> 0]

TypeOK ==
  /\ Coalescer!TypeOK
  /\ stage \in [Threads -> {"idle", "coalesce", "pool", "algorithm", "store", "record"}]
  /\ shadow \in [Threads -> BOOLEAN]
  /\ limit \in [Threads -> EffectiveLimits \cup {Limit}]
  /\ left \in [Threads -> 0 .. Max(Costs)]
  /\ answer \in [Threads -> BOOLEAN]
  /\ pool \in [total_limit : {PoolLimit}, used : 0 .. PoolLimit, last_reset : -PoolWindow .. MaxTime]
  /\ live \in Counters /\ dry \in Counters
  /\ metrics \in Decisions
  /\ resets \in 0 .. MaxResets
  /\ admin \in {"idle", "metrics"}
  /\ \A h \in {paid, taken, admitted} : h \in Nat
  /\ answers \in Decisions

\* (The clock starts at 0; the new pool's last reset, the epoch, lies before it.)
Init ==
  /\ Coalescer!Init
  /\ stage = [t \in Threads |-> "idle"]
  /\ shadow = [t \in Threads |-> FALSE]
  /\ limit = [t \in Threads |-> Limit]
  /\ left = [t \in Threads |-> 0]
  /\ answer = [t \in Threads |-> FALSE]
  /\ pool = [NewPool(PoolLimit) EXCEPT !.last_reset = -PoolWindow]
  /\ live = [c \in Clients |-> [w \in Windows |-> Missing]]
  /\ dry = live
  /\ metrics = None
  /\ resets = 0 /\ admin = "idle"
  /\ paid = 0 /\ taken = 0 /\ admitted = 0
  /\ answers = None

-----------------------------------------------------------------------------
Go(t, from, to) == stage[t] = from /\ stage' = [stage EXCEPT ![t] = to]

Counted(d, allowed) ==
  IF allowed THEN [d EXCEPT !.allowed = @ + 1] ELSE [d EXCEPT !.rejected = @ + 1]

\* The answer a live call gives, and what the history keeps of it.
Answers(t, allowed) ==
  LET units == IF allowed THEN key[t].cost ELSE 0
  IN  /\ answer' = [answer EXCEPT ![t] = allowed]
      /\ answers' = Counted(answers, allowed)
      /\ admitted' = admitted + units

Tick ==
  /\ Coalescer!Tick
  /\ UNCHANGED <<call_vars, pool, live, dry, metrics, resets, admin, history>>

\* check_rate_limit(shadow=False): the cost is known, the coalescer is asked.
Begin(t, r) ==
  /\ Go(t, "idle", "coalesce")
  /\ Coalescer!Arrive(t, r)
  /\ shadow' = [shadow EXCEPT ![t] = FALSE]
  /\ UNCHANGED <<limit, left, answer, pool, live, dry, metrics, resets, admin, history>>

\* check_rate_limit(shadow=True) goes straight to the algorithm.
BeginShadow(t, r) ==
  /\ Go(t, "idle", "algorithm")
  /\ requests < MaxRequests /\ requests' = requests + 1
  /\ shadow' = [shadow EXCEPT ![t] = TRUE]
  /\ key' = [key EXCEPT ![t] = r]
  /\ limit' = [limit EXCEPT ![t] = Limit]
  /\ left' = [left EXCEPT ![t] = r.cost]
  /\ UNCHANGED <<now, cache, stats, pc, clock, checked, stored, reused,
                 answer, pool, live, dry, metrics, resets, admin, history>>

\* A cached result is the answer: no pool and no algorithm.  (The faulty variant
\* returns before the metrics are recorded.)
ReuseUnrecorded(t) ==
  /\ Go(t, "coalesce", "idle")
  /\ Coalescer!Hit(t)
  /\ Answers(t, cache[key[t]].result)
  /\ UNCHANGED <<shadow, limit, left, pool, live, dry, metrics, resets, admin, paid, taken>>

Reuse(t) ==
  /\ Go(t, "coalesce", "record")
  /\ Coalescer!Hit(t)
  /\ Answers(t, cache[key[t]].result)
  /\ UNCHANGED <<shadow, limit, left, pool, live, dry, metrics, resets, admin, paid, taken>>

NoReuse(t) ==
  /\ Go(t, "coalesce", "pool")
  /\ Coalescer!Miss(t)
  /\ UNCHANGED <<shadow, limit, left, answer, pool, live, dry, metrics, resets, admin, history>>

\* check_pool_quota grants the whole cost at once ...  (Faulty variant: it
\* charges one unit whatever the cost.)
PoolGrantsOne(t) ==
  LET cost == key[t].cost
  IN  /\ Go(t, "pool", "algorithm")
      /\ Grants(pool, PoolWindow, cost, now)
      /\ pool' = AfterCheck(pool, PoolWindow, 1, now)
      /\ \E l \in EffectiveLimits : limit' = [limit EXCEPT ![t] = l]
      /\ left' = [left EXCEPT ![t] = cost]
      /\ paid' = paid + 1
      /\ UNCHANGED <<coalescer_vars, shadow, answer, live, dry, metrics, resets, admin,
                     taken, admitted, answers>>

PoolGrants(t) ==
  LET cost == key[t].cost
  IN  /\ Go(t, "pool", "algorithm")
      /\ Grants(pool, PoolWindow, cost, now)
      /\ pool' = AfterCheck(pool, PoolWindow, cost, now)
      /\ \E l \in EffectiveLimits : limit' = [limit EXCEPT ![t] = l]
      /\ left' = [left EXCEPT ![t] = cost]
      /\ paid' = paid + cost
      /\ UNCHANGED <<coalescer_vars, shadow, answer, live, dry, metrics, resets, admin,
                     taken, admitted, answers>>

\* ... or the call is rejected, and nothing is cached.
PoolRejects(t) ==
  /\ Go(t, "pool", "record")
  /\ ~ Grants(pool, PoolWindow, key[t].cost, now)
  /\ pool' = AfterCheck(pool, PoolWindow, key[t].cost, now)
  /\ Coalescer!Abandon(t)
  /\ answer' = [answer EXCEPT ![t] = FALSE]
  /\ answers' = Counted(answers, FALSE)
  /\ UNCHANGED <<shadow, limit, left, live, dry, metrics, resets, admin, paid, taken, admitted>>

\* ValueError: no configuration for this client.  The pool keeps what it charged.
Fail(t) ==
  /\ Go(t, "algorithm", "idle")
  /\ key[t].client \notin Configured
  /\ IF shadow[t] THEN UNCHANGED coalescer_vars ELSE Coalescer!Abandon(t)
  /\ UNCHANGED <<shadow, limit, left, answer, pool, live, dry, metrics, resets, admin, history>>

\* One allow_request of the algorithm: the entry it leaves and its decision.
UnitEntry(repository, c) == Incremented(repository[c][now \div Window], Window, now)
UnitAllowed(repository, c, l) == UnitEntry(repository, c).count <= l
AfterUnit(repository, c) == [repository EXCEPT ![c][now \div Window] = UnitEntry(repository, c)]

\* The loop goes on while units are left and all were allowed ...
LastUnit(t, allowed) == ~ allowed \/ left[t] = 1

\* The loop counter; with its last unit the call is done with it and with its limit.
Consumed(t, last) ==
  /\ left' = [left EXCEPT ![t] = IF last THEN 0 ELSE @ - 1]
  /\ limit' = [limit EXCEPT ![t] = IF last THEN Limit ELSE @]

ConsumeUnit(t) ==
  LET c == key[t].client
      allowed == UnitAllowed(live, c, limit[t])
  IN  /\ ~ shadow[t] /\ c \in Configured
      /\ Go(t, "algorithm", IF LastUnit(t, allowed) THEN "store" ELSE "algorithm")
      /\ live' = AfterUnit(live, c)
      /\ Consumed(t, LastUnit(t, allowed))
      /\ taken' = taken + 1
      /\ IF LastUnit(t, allowed)
           THEN Coalescer!Decide(t, allowed) /\ Answers(t, allowed)
           ELSE UNCHANGED <<coalescer_vars, answer, answers, admitted>>
      /\ UNCHANGED <<shadow, pool, dry, metrics, resets, admin, paid>>

\* ... and so it does for a shadow call, which then is over.  (Faulty variant: the
\* first unit goes to the live repository.)
ConsumeShadowUnitLive(t) ==
  LET c == key[t].client
      allowed == UnitAllowed(live, c, limit[t])
  IN  /\ shadow[t] /\ c \in Configured
      /\ Go(t, "algorithm", IF LastUnit(t, allowed) THEN "idle" ELSE "algorithm")
      /\ live' = AfterUnit(live, c)
      /\ Consumed(t, LastUnit(t, allowed))
      /\ answer' = [answer EXCEPT ![t] = allowed]
      /\ UNCHANGED <<coalescer_vars, shadow, pool, dry, metrics, resets, admin, history>>

ConsumeShadowUnit(t) ==
  LET c == key[t].client
      allowed == UnitAllowed(dry, c, limit[t])
  IN  /\ shadow[t] /\ c \in Configured
      /\ Go(t, "algorithm", IF LastUnit(t, allowed) THEN "idle" ELSE "algorithm")
      /\ dry' = AfterUnit(dry, c)
      /\ Consumed(t, LastUnit(t, allowed))
      /\ answer' = [answer EXCEPT ![t] = allowed]
      /\ UNCHANGED <<coalescer_vars, shadow, pool, live, metrics, resets, admin, history>>

CacheResult(t) ==
  /\ Go(t, "store", "record")
  /\ Coalescer!Store(t)
  /\ UNCHANGED <<shadow, limit, left, answer, pool, live, dry, metrics, resets, admin, history>>

RecordMetrics(t) ==
  /\ Go(t, "record", "idle")
  /\ metrics' = Counted(metrics, answer[t])
  /\ UNCHANGED <<coalescer_vars, shadow, limit, left, answer, pool, live, dry, resets, admin, history>>

\* POST /admin/reset: repository.clear(), then metrics.reset()
ResetRepository ==
  /\ admin = "idle" /\ resets < MaxResets
  /\ admin' = "metrics" /\ resets' = resets + 1
  /\ live' = [c \in Clients |-> [w \in Windows |-> Missing]]
  /\ UNCHANGED <<coalescer_vars, call_vars, pool, dry, metrics, paid, taken, admitted, answers>>

\* Calls that have answered and not recorded it yet.
Unrecorded(allowed) == Cardinality({t \in Threads : stage[t] \in {"store", "record"} /\ answer[t] = allowed})

ResetMetrics ==
  /\ admin = "metrics" /\ admin' = "idle"
  /\ metrics' = None
  /\ answers' = [allowed |-> Unrecorded(TRUE), rejected |-> Unrecorded(FALSE)]
  /\ UNCHANGED <<coalescer_vars, call_vars, pool, live, dry, resets, paid, taken, admitted>>

Call(t) ==
  \/ \E r \in Request : Begin(t, r) \/ BeginShadow(t, r)
  \/ Reuse(t) \/ NoReuse(t)
  \/ PoolGrants(t) \/ PoolRejects(t)
  \/ Fail(t) \/ ConsumeUnit(t) \/ ConsumeShadowUnit(t)
  \/ CacheResult(t) \/ RecordMetrics(t)

Next == Tick \/ ResetRepository \/ ResetMetrics \/ \E t \in Threads : Call(t)

Spec == Init /\ [][Next]_vars

-----------------------------------------------------------------------------
\* The algorithm never consumes a unit the pool has not granted before, whatever
\* calls are underway; what calls that failed or were rejected leave is lost.
UnitsArePaid ==
  LET underway == {t \in Threads : stage[t] = "algorithm" /\ ~ shadow[t]}
  IN  taken + SumFunctionOnSet(left, underway) <= paid

\* The units of the requests let in are at most max_coalesce times the units that
\* went through the algorithm: this is how far coalescing can stretch a limit,
\* across resets, windows, late results and partial consumption.
AdmissionsAreBacked == admitted <= MaxCoalesce * taken

\* Every answer of a live call is counted once by the metrics, by its decision,
\* even if a reset of the metrics comes between the answer and its record.
EveryAnswerIsCounted ==
  /\ metrics.allowed + Unrecorded(TRUE) = answers.allowed
  /\ metrics.rejected + Unrecorded(FALSE) = answers.rejected

\* No step of a shadow call is visible to live traffic.
ShadowLeavesNoTrace ==
  [][\A t \in Threads :
       shadow[t] /\ stage[t] = "algorithm" /\ (left'[t] # left[t] \/ stage'[t] # stage[t]) =>
         UNCHANGED <<cache, stats, pool, live, metrics>>]_vars
=============================================================================
