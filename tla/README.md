# A verification of the rate limiter

TLA+ models of the rate limiting service under `src/app`, the TLC runs that check them
on small instances, and proofs, checked by TLAPS, of the properties that carry the
design. Every definition is translated from the source; `PROJECT.json` maps each one to
the lines it stands for.

    tlasany M.tla                        # parse a module
    tlc -config FixedWindow.cfg MCFixedWindow
    tlapm FixedWindowProofs.tla

## 1. The system

A Flask application answers `/foo` and `/bar` for authenticated clients and decides, for
every request, whether it is within its client's limit. It can be deployed in two ways:
`run.py` starts Flask's own server, one process with a thread for each request, and the
Dockerfile starts gunicorn with four worker processes (line 35), which without `--threads`
serve one request at a time each. The models take both: threads meet in what a process
keeps in memory, processes in Redis, the database and the file. Within a process the
components are shared by all threads, and each takes its own lock for each operation.
**No lock spans two operations**, so a request is a sequence of steps that other
requests, an administrator and the clock may come between. That is where the models look.

| Component | State it keeps | Operations | What makes it correct |
|---|---|---|---|
| `services/rate_limiter.py` service | metrics, references to everything below | `check_rate_limit` (live, shadow), updates at run time | no unit is consumed that the pool has not granted; every answer is counted; shadow calls leave no trace |
| `algorithms/fixed_window.py` | none (counters in the repository) | `allow_request` | at most the limit in a window; no early rejection |
| `algorithms/sliding_window_counter.py` | none | `allow_request`: clock, two reads, increment | overshoot limited by concurrency; rejections earned |
| `algorithms/sliding_window_log.py` | none | `allow_request`: clock, remove, count, append | a sliding window holds the limit, up to concurrency; removal never takes what must be counted |
| `algorithms/token_bucket.py`, `leaky_bucket.py`, `gcra.py` | none | `allow_request`: clock, get, decide, set | burst plus rate; the three agree; `Retry-After` is enough |
| `repositories/memory_repository.py` | counters with expiry, logs, buckets | one critical section each | (checked through the algorithms that use it) |
| `repositories/sqlite_repository.py` | tables in a file shared by the workers | the same | increments of all workers count |
| `repositories/redis_repository.py` | keys in a server shared by all workers; the log is a sorted set | one command or script each, repeated by the client on timeout | a repeated increment admits nobody extra; the log holds what a count needs |
| `repositories/resilient_repository.py` | a breaker and a repository | every operation through the breaker, failing open | what an outage lets in is bounded by what it lost; it rejects nobody |
| `repositories/async_memory_repository.py`, `services/async_rate_limiter.py` | the same as in memory | the same | not modelled: nothing calls them |
| `resilience/circuit_breaker.py` | state, two counts, time of last failure | `execute`, `state`, `reset` | opens no more than once per timeout, closes only on successes, recovers |
| `services/coalescing.py` | cached decisions, statistics | `get_cached`, `cache_result`, `clear` | a decision is reused at most `max_coalesce - 1` times |
| `services/quota_sharing.py` | pools, members, client-to-pool | `create_pool`, `add_member`, `check_pool_quota`, resets | a pool's grants in an interval are bounded |
| `services/adaptive.py` | factor, time of the last sample | `get_effective_limit`, which may sample | samples an interval apart; limits follow what was sampled |
| `services/time_of_day.py` | schedules | `set_policy`, `get_effective_limit` | a rule is in force until its end comes round |
| `services/weighted.py` | costs | cost of a request | (an input of the service) |
| `services/dynamic_config.py`, `config_cache.py` | file, cache, the service's tables | `apply_update`, `get_config`, start-up | a restart finds an accepted update; the cache shows what runs; every limit in force can be served |
| `services/audit_log.py`, `metrics.py`, `api/`, `auth/`, `config/`, `logging/` | ring buffer, uptime | | not modelled (no decision depends on them) |

How they interact: the middleware authenticates, computes the cost for a header and calls
`check_rate_limit`, which asks the coalescer, charges the shared pool, computes the
effective limit (time-of-day tier, then adaptive multiplier), calls the algorithm once per
unit of cost, stores the result in the coalescer and records the metrics. The algorithm
calls the repository, which in production is wrapped in the circuit breaker.
`POST /admin/reset` clears the repository and then the metrics; `POST /admin/config`
applies an update to the worker that receives it and writes it to a file.

What is hard to test here: calls that read, decide and store in separate steps; clocks
read twice, or read long before they are used; results recorded in a state other than the
one they were produced in; one entry of an update, or one unit of a request, failing
after others have taken effect; crashes around a truncated file. `PROJECT.json` lists these
hazards line by line, each with the properties that would catch it going wrong.

## 2. Modules

| Module | Models | State ↔ code |
|---|---|---|
| `CounterStore` | an entry of `MemoryRepository._counters` | a record of `count` and `expires_at`; operators for increment and read |
| `FixedWindow` | `FixedWindowAlgorithm.allow_request` by several threads | `counters` by window; `pc` between the reading of the clock for the key and the increment, which reads it again |
| `SlidingWindowCounter` | the same for its algorithm, with a limit that is an argument of each call | `pc` between clock, two reads, increment |
| `SlidingWindowLog` | the same for its algorithm, over the store of any repository | `log`: how many timestamps of each tick; `store`: a list, or Redis' sorted set with its inclusive removal, where equal timestamps are one member |
| `LimitPolicy` | steps in which a call works out its limit: tier of the hour, interval check, check and measurement under the lock, product | `schedule`, `multiplier` (hundredths), `last_sample`, and each call's locals |
| `LimitedWindow` | composition: `LimitPolicy` (by `INSTANCE`) hands its limit to `SlidingWindowCounter` | the clock is shared; a call is in one of the two |
| `Rate` | limit and window of a bucket, scaled to integers | a request costs `Window`, a tick brings `Limit` |
| `BucketAlgorithms` | the three decisions as functions of stored bucket and clock | exact arithmetic, no rounding |
| `BucketLimiter` | threads that get, decide and set | `bucket`, `decision`; any of the three algorithms |
| `RateBucket` | **abstract specification**: one bucket that fills at a rate and admits while it can pay | what all three algorithms promise |
| `CircuitBreaker` | `execute` as three steps, and a backend that fails and recovers | `age` is the time since the last failure, up to the timeout |
| `ResilientRepository` | composition: a client's requests by an algorithm, each repository operation through `CircuitBreaker`, other users of the breaker, a storage that fails before or after an operation takes effect, Redis' repeated increment | `step` is the repository operation under way, `seen` what the request has read; `used` what the store holds |
| `RequestCoalescer` | the cache and its statistics, with the caller's decision in between | `checked` is the decision a call has made and not stored |
| `QuotaPool`, `QuotaManager` | a pool record; the manager | `pools`, `members`, `client_to_pool` |
| `RateLimiterService` | composition: a call through `RequestCoalescer` (by `INSTANCE`), `QuotaPool`, `CounterStore` and the metrics | `stage` is the line of `check_rate_limit` |
| `DynamicConfig` | several workers over one file | `running` per worker (entries of the tables of its service), `update` and `entry` it is at, `file` |
| `SqliteCounter` | `increment_counter` of several workers | `row`, what each call's `SELECT` returned |
| `MC*` | each of the above on a small instance | |
| `*Proofs` | the theorems; `SharedStateProofs` is about what outlives a call, `DynamicConfig`, `SqliteCounter` and `QuotaManager`; `ResilientRepositoryProofs` is also about `CircuitBreaker`, and `LimitedWindowProofs` also about `SlidingWindowCounter` | |

Conventions. One action per step the code takes between two places where another thread
may run. Variables marked *history* are not the program's; no guard of a modelled step
reads them (only bounds do), and they exist to state properties. Operators commented as
faulty variants are not part of the specification: each is a plausible bug in the definition after it,
kept to show that a property notices it. `MaxTime`, `MaxRequests`, `MaxResets`,
`MaxUpdates`, `MaxIncrements`, `MaxAttempts`, `MaxGrants`, `MaxRenewals` only bound the models.

Abstractions. Time is a count of ticks. Client, endpoint and key are one model value, or a
few. In the service the effective limit is any the time-of-day tiers and the multipliers
can give (the order *tier, then multiplier, then at least 1* is kept; how hour and load
choose them is the subject of `LimitPolicy`), and the algorithm is the fixed window with one step per unit; what can
happen between its two clock readings is checked in `FixedWindow`. A configuration is
a few settings, each an entry of one section (limits of clients at endpoints, algorithms of
endpoints; weights and time policies are entries that nothing depends on), which an update
sets in one fixed order, clients before algorithms as the code has it. The adaptive factor is
a number of hundredths, rounded to the nearest after each sample; like the program's
doubles it approaches its goal and stops a little before. What the machine's load is
belongs to the outside, so a sample may find any. In `ResilientRepository` a tick of the
clock is longer than a window, so that what was stored before it no longer counts, and a
request that is under way when it passes may read anything. Redis' increment may be
repeated, with either answer lost.

## 3. Runs

| Run | Question | Bounds, and why they are enough |
|---|---|---|
| `FixedWindow` | What does a window admit when calls are late? | 2 threads, limit 2, 3 windows of 2 ticks, 6 calls: a call can straddle one or two boundaries and another can refill the window it left |
| `LimitedWindow` | Which limit does a call get, and how far do check-then-increment races go when limits differ? | 2 threads, 3 calls (those whose limit is still being worked out included), windows of 3 ticks so that an old window has three weights; days of 4 ticks and a rule over midnight with a tier of 0, and a tier of 20 that one relaxing sample raises and one tightening sample lowers; an interval of 3 ticks, so that it is due twice and both threads can find it so at once |
| `SlidingWindowLog` | The same for the log, in both kinds of store | 3 threads, because the bound grows with the threads; 4 ticks, two windows; a call may take as long as the run, so that it adds to a window others have begun to remove |
| `BucketSerial` | Do the three algorithms implement one bucket? | one thread, calls of any duration, two windows: fill, empty, refill, a pause longer than a full refill |
| `BucketConcurrent` | What do races and resets do to a bucket? | 2 threads, 5 calls, resets at any step |
| `ResilientRepository` | What does failing open admit, do late results break the breaker, and does it recover? | limit 2 and 3 attempts in a window, so that a rejection and an excess both happen; 3 threads (a late failure and a late success beside the client's), thresholds of 2, no bound on time or on the others' calls |
| `RequestCoalescer` | How often is one decision reused? | 2 threads, 2 keys, up to 3 answers per result, 5 calls, 4 instants around a window of 1 |
| `QuotaManager` | What can a pool grant in one window's time? | 2 pools, 2 clients that move, limit 2, costs 1 and 2, two windows |
| `RateLimiterService` | What survives the interleaving of all steps? | 2 threads, 3 calls live or shadow, costs 1 and 2, a configured and an unconfigured client, effective limits 1 and 2, one reset |
| `DynamicConfig` | What can a restart find, and can what is in force be served? | 2 workers, 2 updates, crashes at every step; a client's limits at `foo`, which the environment knows, and at `baz`, which it does not until an update gives it an algorithm: the second update may be accepted because of the first and replaces it in the file, and the other worker, or a new process, may not know the first |
| `DynamicConfigRestart` (violation) | Does every accepted update survive a restart? | two updates are enough |
| `SqliteCounterWorkers` (violation) | Does every increment count? | two workers are enough |

`CHECK_DEADLOCK FALSE` stands only where the bound on the clock and on calls ends every
behaviour; the breaker and the configuration go on for ever and are checked for deadlock.
Every property of a passing run is also broken by a mutation of the code it is about
(`PROJECT.json`, "mutants").

What the runs show:

* *Fixed window.* On time, a window never exceeds its limit; a late call is charged to the
  window in which it read the clock, so requests *decided* in a window exceed the limit
  by at most one per thread (`OverrunBoundedByThreads`).
* *Sliding windows.* Both check first and charge later. The excess is bounded by the number
  of threads, not by the traffic and not by how long a call takes; rejections are always earned.
* *Buckets.* Called one after the other, the three algorithms are one bucket, which is
  what `gcra.py:53` claims; asked the same requests, they give the same verdicts
  (`AlgorithmsAgree`). Interleaved, they lose charges but never charge twice
  (`NeverStricterThanIdeal`); a reset counts as one only if no call is between get and set.
* *Limits.* However many threads find the interval over, one samples the load: by the
  clocks of the calls that took them, any two samples are an interval apart (a call that
  waited for the lock samples later than its clock says, so in real time two may be closer).
  A limit is below its tier only after a sample of more than normal load, and above it only
  after one of less; with an adaptive limiter no limit is 0. Rules go round midnight. With
  limits that change between calls the window still overshoots only by its threads, so that
  what it admits is bounded by the tiers (`PolicyBoundsAdmissions`).
* *Redis' log.* Requests that share a timestamp come on top of the bound, and the one at the
  very start of a window is forgotten a moment early; nothing else differs from a list.
* *Failing open.* A client gets, beyond its limit, one request for every answer or write
  that was lost and one bucket for every bucket that could not be read
  (`FailOpenIsBounded`), and is rejected only if it sent more than the limit, counting the
  increments its storage client repeated (`RejectionsAreEarned`).
* *Circuit breaker.* Whatever is recorded late, it opens at most once per timeout and closes
  only after the successes of the current half-open period; when the backend stays up, it
  closes for good.
* *Coalescer.* A decision answers at most `max_coalesce` requests, also when it is stored
  late or over a newer one.
* *Pools.* At most twice the limit in a window's time, plus one limit per reset or re-creation.
* *Service.* Units consumed are paid, units admitted are at most `max_coalesce` times the
  units consumed, metrics equal answers once calls have finished, shadow calls change
  nothing live. From end to end, over any stretch of time from the start, what all requests
  are let in for is bounded twice, by the pool and by the endpoint's limits, each times
  `max_coalesce` (`ServiceAdmitsWithinThePool`, `ServiceAdmitsWithinTheLimits`).
* *Configuration.* A worker starts from its environment, or from an update that was once
  accepted to the end, never from a refused one, even with torn files. It may take only the
  **beginning** of that update: the entries are checked again, and one that limits a client
  at an endpoint the new process has no algorithm for ends the loading, with a message in
  the log. (A first update gives `baz` an algorithm; a second, for clients at `foo` and
  `baz`, is accepted and replaces it in the file; after a restart `foo` is applied and `baz`
  refused.) `RestartsFromAnAcceptedUpdate` says that this is the only reason. The second
  check is what keeps every limit in force servable (`LimitsHaveAnAlgorithm`): loading what
  was once saved without it breaks that property. A worker does not restart from *all*
  accepted updates: the first violation.

Fairness is used in one run, `ResilientRepository` (`FairRepositorySpec`): weak fairness of
the clock, of the client's next step and of each other thread's. Traffic goes on (an idle breaker need not recover: only
a reader of `state` moves it to half-open), and a started storage call returns, because
every storage client either answers or raises (Redis has socket timeouts, SQLite a busy
timeout). The backend's own changes are not fair: the property only speaks of backends
that stay up.

### Where the source's words and its behaviour differ

Two statements of the repository are refuted by a run:

1. `README.md:187` says an update "is persisted ... and re-applied on the next startup".
   `_save` writes only the latest update (`dynamic_config.py:180`), so a restart
   after two updates runs without the first (`DynamicConfigRestart`).
2. `sqlite_repository.py:70` says "Increment counter atomically in SQLite". The `SELECT`
   precedes the write's transaction and the lock is the process's, so two workers lose an
   increment (`SqliteCounterWorkers`; with one worker it is proved not to happen).

Others were met while modelling. No run is spent on them, since a passing
property says how far each goes:

* `fixed_window.py:22`, "up to 2x burst at window boundaries": calls that straddle a
  boundary add one per thread (`OverrunBoundedByThreads`).
* `sliding_window_counter.py:18`, "weighted average of current and previous window": a
  counter expires one window after its *first* request (line 74), so part of the previous
  window may be missing (`OvershootBoundedByThreads` is about the current one only).
* `tests/unit/test_concurrency.py:74` and `:101`, "must not exceed": the tests pass because
  threads rarely interleave there; the code allows the excess the properties bound.
* `crl-architecture.md:221`, the leaky bucket allows "no bursts": it admits its whole
  capacity at once, as a token bucket does (`ImplementsRateBucket`).
* `circuit_breaker.py:49`, "a single test request": every thread passes while half open.
* `coalescing.py:36` on thundering herds: all calls that miss before the first result
  is stored go through.
* `quota_sharing.py:55`, usage "cannot exceed 1000": twice that within one window's time,
  at the seam of two (`GrantsBounded`), and more through coalesced answers, which no pool
  sees (`AdmissionsAreBacked`).
* `routes.py:156`, "Reset all rate limit state": pools and coalescer keep theirs, and a
  call between get and set restores the old bucket.
* `base.py:70`, "older than the window start": Redis removes the entry exactly at it too,
  and `zadd` of a timestamp that is there already adds nothing
  (`RemovalKeepsTheWindow` and `WindowBoundedByThreads` say what is left of the promise).
* `adaptive.py:49`, "NORMAL load: 1.0x (no change)": the average comes near 1 and stops
  before it, and the product is truncated. After any high load a limit of 100 stays 99
  until a sample of low load (`AdjustmentsAreEarned`).
* `adaptive.py:57`, "Active concurrent request count" among the metrics considered: nothing
  calls `record_request_start`, and `_classify_load` does not look at the count.
* `time_of_day.py:19`, "Defaults to local system time": the hour is that of UTC, whatever
  the offset. Line 85, "exact single instant": such a rule is always in force.
* `dynamic_config.py:5`, "any saved dynamic config is loaded and applied": a restarted
  worker may apply the beginning of it only, as said above, and go on with that
  (`RestartsFromAnAcceptedUpdate`).
* `config_cache.py:4`, "explicit invalidation so updates are reflected immediately": an
  update refused half way has changed the configuration and does not invalidate the cache,
  which is wrong until its entry expires (`CacheShowsWhatRuns` leaves such a worker out).
* `routes.py:118`: a body that is no JSON is taken for an update without entries, which is
  accepted, and saved over the last one.
* `rate_limiter.py:262` on the storage self-test of `/health`, "can persist and read a probe
  value": while the storage is down the wrapper answers 0 and the test passes.
* `audit_log.py`, `get_log` "newest first": the list it returns is oldest first.

## 4. Proofs

For every value of the constants that satisfies the named assumptions:

| Module | Theorems | Argument |
|---|---|---|
| `FixedWindowProofs` | `TypeCorrect`, `EntriesOutliveWindows`, `WindowLimitHolds`, `NoEarlyRejection` | `IInv` adds that no call's window lies in the future and that a current window has admitted only through its entry. The limit alone is not inductive: an entry that expired early would start again at 1, so its life must be in the invariant |
| | `OverrunBounded` | what is decided in a window but charged to an earlier one comes from a straggler, a call that began before the window. `StragglersOnce`: requests admitted by stragglers so far and stragglers still underway are together no more than the threads, since each thread had one call underway when the window began |
| `LimitedWindowProofs` | `TypeCorrect`, `SamplesSpaced`, `AdjustmentsEarned`, `RulesRoundTheClock` | `PolicyInv`: the last sample lies behind the clock, every earlier one before it, and all of them an interval apart; a factor below or above 1 says which load was sampled. Hours are arithmetic modulo the day |
| | `OvershootBounded`, `RejectionsAreEarned` | `WindowInv`. An excess is decided on stale readings, so the invariant counts them: for every `n` from the largest limit so far to what the window has admitted, its admissions and the calls that have read less than `n` are together at most `n` and one for each thread but one (`StaleReadersFit`). The limit alone will not do for `n`, because the next call may bring a larger one |
| | `FactorBounded`, `PolicyBoundsAdmissions` | `WithinInv`: every limit handed over is at most the ceiling of the tiers (the highest, relaxed by a fifth), for any number that bounds the tiers, because smoothing keeps the factor between its extremes. With the overshoot above, that bounds what a window admits by what was configured, and no longer by whatever limit was computed |
| `SlidingWindowLogProofs` | `RemovalsKeepTheWindow`, `LogOvershootBounded` | a removal takes from the log what the bound speaks of, so there are two cases for each window. Until something was removed, its entries and the calls about to add one stay within `Limit + N - 1` (`Whole`, `N` the number of threads). The first removal is by a call that began after the window ended, and then only the calls underway may still add, one each, the remover none (`Trimmed`) |
| `BucketProofs` | `TypeCorrect`, `RacesNeverOvercharge`, `RejectionsAreEarned` | `IInv` adds `PendingWorth`: a bucket about to be stored is worth what the ideal one will be after its charge. Each algorithm's decision is monotone in the level and in the clock, which the lemmas state once per algorithm |
| | `SerialCallsImplementRateBucket` | one thread and no resets: the decision in flight is still the one the stored bucket gives, so a set is one step of the abstract bucket |
| | `LevelWithinCapacity`, `EveryIntervalBounded`, `SerialBurstsBounded` | the first two are about `RateBucket`: the interval bound is inductive with the level on its left side. The third follows through the refinement |
| | `RejectedMayComeBack` | `RetryInv`: the level and the time a rejected client was told make a request's worth. It stays true while the bucket only refills |
| | `AlgorithmsAgree`, `RejectionsNameTheTime` | the three algorithms side by side (`SideBySide`), each with a bucket of its own, asked the same requests one after the other. `SideInv`: the three buckets are always worth the same, though they are stored as a level, a level the other way up and a time, and the token bucket is stored on rejections too |
| `ResilientRepositoryProofs` | `TypeCorrect`, `CountersFollowState`, `OpeningsKeepTheirDistance`, `ClosingIsEarned` | about the breaker: `IInv` adds that a failure recorded late can only postpone the next attempt, and that the success count belongs to the current half-open period |
| | `RepositoryUsesBreaker` | every step of the composition is a step or a stutter of `CircuitBreaker`, so the theorems above hold of the breaker in it |
| | `RepositoryTypeCorrect`, `FailingOpenIsBounded`, `FailuresNeverReject` | `Pays` says what covers `admitted` at every step of a request, also between a read and the write that follows it: the store holds it, or it is among what leaked. `Sent` says that nothing is stored or read that was not sent, and `Scope` which request the history speaks of |
| `RequestCoalescerProofs` | `TypeCorrect`, `ReusesAreBacked`, `StatisticsAgree` | the first invariant is inductive because it keeps apart what the cached entry has spent. The last is about sums over the keys |
| `RateLimiterServiceProofs` | `TypeCorrect`, `UnitsPaidFirst`, `AnswersAreCounted`, `ShadowIsInvisible` | every step of the service is one of `RequestCoalescer` or a stutter of it (`StepIsACoalescerStep`), but for the beginning of a shadow call, which passes it by; its invariants are taken over by `INSTANCE` of its proofs. `CallsAreSound` says what a call holds at each stage. Units that were paid and are not consumed, and answers that are not recorded, belong to calls underway, which are counted |
| | `StretchIsBounded` | the bound is not inductive: a unit consumed now may admit much later. `StretchBounded` adds what the cached results may still let in (their remaining reuses times their cost) and what the calls underway may still let in, two sums that a step moves units between |
| | `ServiceRespectsCoalescer`, `PromisesCarryOver` | that the service uses its coalescer as `RequestCoalescer`'s own callers do: each of its steps is one of the coalescer, a shadow call that passes it by (a shadow call never looks in the cache), or a stutter. `PlacesAgree` says that a thread is always where the coalescer's module has it, so the service is not held up by guards that only the model has |
| | `ServiceAdmitsWithinThePool` | from end to end, by the pool: `PoolPays`, every window of the pool but the present one has granted its limit at most and they lie a window apart; what is let in is then paid by the two bounds above |
| | `ServiceAdmitsWithinTheLimits` | from end to end, by the endpoint's limit: `LimitsInv` bounds the same two sums by the units that the algorithm granted, and these by an allowance of one largest limit per configured client for every window that is over or was reset, and for the present window by what its entries hold. It needs that an entry lasts as long as its window |
| `SharedStateProofs` | `QuotaTypeCorrect`, `PoolGrantsBounded` | of `QuotaManager`, by `Budget`: grants since the mark are paid by renewals, at most one window change, and the present usage |
| | `TypeCorrect`, `CacheIsTruthful`, `LimitsAreServed`, `RestartsAreAccepted` | of `DynamicConfig`: nothing is written to the file but an update accepted to the end, because a worker saves after its last entry; so loading it can stop only at an entry that depends on what the worker knows. A limit comes into force only where the worker has an algorithm, be it from an update or from the file, and an algorithm once known stays (`AlgorithmsStay`) |
| | `OneWorkerCountsEveryIncrement` | of `SqliteCounter`: with one worker, what a call has read is what is there when it writes |

Sums (`SumFunctionOnSet` is a fold over a set) are reasoned about without induction over data:
`RequestCoalescerProofs` shows that the fold exists on the subsets of a finite set, and
then that a fact about sums has no smallest finite counterexample. The lemmas are stated
once there and used by instance elsewhere.

Assumed are only the named `ASSUME`s of the modules; TLC evaluates them in the runs. They
say what the settings enforce (limits, windows and thresholds positive), that bounds are
numbers, and that the sets which are counted or summed over are finite: a server has a
fixed number of threads, clients are the configured API keys, costs come from a table, and
the coalescer's keys are pairs of these. The history variables do not restrict the
behaviours. Theorems that need more say so: those on serial calls assume one thread and no
administrator's reset. `AlgorithmsAgree` and `RejectionsNameTheTime` are of a specification
that is stated with them, in which the calls of one client follow one another.

The attempt to prove the log's bound showed that it needs no limit on how long a call
takes, which the property assumed before; the model has none any more.

Only model-checked: `RecoversWithBackend`, which is liveness under fairness and so out of
the prover's reach, as are `ENABLED` and induction over data. Every other property of a
passing run is stated by a theorem; the two violations are counterexamples and need none.
No module that is proved about has a recursive operator.

## 5. Not modelled, and why

* Floating point: the buckets are exact. Rounding may shift a decision by one tick.
* Bearer tokens, headers, response bodies, OpenAPI, logging: no state that decides.
* How CPU, memory and latency are measured and put into bands: a sample finds any load.
  `record_request_end` only feeds that measurement.
* The asynchronous repository and service: no route and no algorithm calls them. Their locks
  contain no `await`, so each operation is one step, as in `MemoryRepository`.
* Redis' `clear`, which scans and deletes in several round trips, is one step, and its
  connection pool is left out. `get_counter` through the wrapper answers as
  `get_request_count` does.
* SQLite's buckets: single statements, like the memory repository's operations, but shared
  by workers; the races are those of `BucketLimiter`.
* A limit of 0 without an adaptive limiter, which a time-of-day tier may set and nothing
  prevents: `LimitPolicy` produces it and the sliding window takes it; the bucket modules
  take limits of at least 1, because with 0 the source divides by zero
  (`token_bucket.py:90`) and no decision is left to model. No property speaks of it.
* The audit log: a bounded list under one lock, which no decision reads.

## 6. Plan

Done, in this order: the algorithms over the memory repository (fixed window first, then
the buckets with their abstract specification, then the sliding windows); breaker,
coalescer and pools as modules of their own; the service that composes them; the
configuration; SQLite across workers; the resilient wrapper around the breaker, with its
proofs; Redis' sorted set and repeated increment; the limit's policy, and its composition
with the sliding window.

Proved since: the types, the safety and the action properties of every module (section 4);
that the service respects its coalescer; and what all of them amount to from end to end, for
the service by its pool and by its limits, and for a window by its tiers.

Left, with the reasons:

1. That `LimitedWindow`'s steps are steps of `LimitPolicy` and of `SlidingWindowCounter`
   taken for themselves: the composition is written with their actions, so this would say
   little that the definitions do not.
2. A bound on what interleaved bucket calls admit. There is none in the size of the bucket
   alone: each of `n` threads may decide on the same full bucket, and a late set brings back
   an old one. `NeverStricterThanIdeal` is the side that holds.
3. A bound on the increments SQLite loses by the number of late writes. There is none: one
   late `INSERT OR REPLACE` undoes all that was counted since its `SELECT`.
