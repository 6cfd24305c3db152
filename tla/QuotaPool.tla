------------------------------ MODULE QuotaPool ------------------------------
(***************************************************************************)
(* A QuotaPool record of src/app/services/quota_sharing.py and what        *)
(* check_pool_quota does to it.  Each operation of the manager runs under  *)
(* its lock and reads the clock inside, so it is one operator of the pool  *)
(* and of that reading t.                                                  *)
(***************************************************************************)
EXTENDS Integers

\* A pool just created: last_reset = 0.0, long before any reading of the clock,
\* so the first check of it starts its first window.
NewPool(limit) == [total_limit |-> limit, used |-> 0, last_reset |-> 0]

\* `now - last_reset >= window`
Due(pool, window, t) == t - pool.last_reset >= window

\* Reset pool if window has elapsed.  (Faulty variant: the time of the reset is not
\* kept.)
RenewedKeepingTime(pool, window, t) ==
  IF Due(pool, window, t) THEN [pool EXCEPT !.used = 0] ELSE pool

Renewed(pool, window, t) ==
  IF Due(pool, window, t) THEN [pool EXCEPT !.used = 0, !.last_reset = t] ELSE pool

Remaining(pool) == pool.total_limit - pool.used

\* `remaining >= cost`; the faulty variant asks only that something remains.
HasSome(pool, cost) == Remaining(pool) > 0
HasRoom(pool, cost) == Remaining(pool) >= cost

\* The pool after a check that came at time t, and whether it granted the cost.
Grants(pool, window, cost, t) == HasRoom(Renewed(pool, window, t), cost)
AfterCheck(pool, window, cost, t) ==
  LET renewed == Renewed(pool, window, t)
  IN  IF HasRoom(renewed, cost) THEN [renewed EXCEPT !.used = @ + cost] ELSE renewed

\* reset_pool: the usage is forgotten, the window goes on.
Emptied(pool) == [pool EXCEPT !.used = 0]
=============================================================================
