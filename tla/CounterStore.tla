---------------------------- MODULE CounterStore ----------------------------
(***************************************************************************)
(* The counters a repository keeps for the window algorithms               *)
(* (src/app/repositories/memory_repository.py).  One entry of the          *)
(* dictionary _counters is a record; a key that is not in the dictionary   *)
(* is Missing.  Each operation of the repository runs under one lock and   *)
(* reads the clock inside it, so it is one operator of the entry and of    *)
(* the time t of that inner clock read.                                    *)
(***************************************************************************)
EXTENDS Integers

\* A key that is not in the dictionary.  Time starts at 0, so it is never live.
Missing == [count |-> 0, expires_at |-> 0]

Counter == [count : Nat, expires_at : Nat]

\* `now < expires_at`
Live(c, t) == t < c.expires_at

\* Faulty variants of increment_counter: an expiry one tick short, an entry that
\* starts again on every increment, and a ttl taken off the clock.
IncrementedShortLived(c, ttl, t) ==
  IF Live(c, t) THEN [c EXCEPT !.count = @ + 1]
                ELSE [count |-> 1, expires_at |-> t + ttl - 1]

IncrementedAnew(c, ttl, t) == [count |-> 1, expires_at |-> t + ttl]

IncrementedBackwards(c, ttl, t) ==
  IF Live(c, t) THEN [c EXCEPT !.count = @ + 1]
                ELSE [count |-> 1, expires_at |-> t - ttl]

\* increment_counter: a live entry keeps its expiry, any other starts again at 1.
Incremented(c, ttl, t) ==
  IF Live(c, t) THEN [c EXCEPT !.count = @ + 1]
                ELSE [count |-> 1, expires_at |-> t + ttl]

\* What get_counter returns ...
ValueAt(c, t) == IF Live(c, t) THEN c.count ELSE 0

\* ... and what it leaves behind: an expired entry is deleted by the reader.
AfterRead(c, t) == IF Live(c, t) THEN c ELSE Missing
=============================================================================
