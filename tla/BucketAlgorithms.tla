-------------------------- MODULE BucketAlgorithms --------------------------
(***************************************************************************)
(* The decisions of TokenBucketAlgorithm, LeakyBucketAlgorithm and         *)
(* GCRAAlgorithm as functions of the stored bucket and the time of the     *)
(* call, in the units of Rate: a token, or a unit of water, is Window, so  *)
(* Limit of them arrive or leak in every tick.  A GCRA arrival time is     *)
(* multiplied by Limit, so the emission interval is Window as well.        *)
(* Rounding of floats is left out.                                         *)
(***************************************************************************)
EXTENDS Rate

Algorithms == {"token_bucket", "leaky_bucket", "gcra"}

Smaller(a, b) == IF a < b THEN a ELSE b
Larger(a, b) == IF a > b THEN a ELSE b

\* The pair (tokens, last_refill) of the bucket store, and the None of a key that
\* is not in it.  No clock reading is negative.
Bucket == [tokens : Int, last_refill : Int]
NoBucket == [tokens |-> 0, last_refill |-> -1]

\* What a call decides: the verdict, whether it stores a bucket and which, and the
\* time (times Limit) a rejected client is told to come back at (reset_at).
Decisions ==
  [allowed : BOOLEAN, stores : BOOLEAN, retry_at : Int, bucket : Bucket]

Admit(tokens, last_refill) ==
  [allowed |-> TRUE, stores |-> TRUE, retry_at |-> 0,
   bucket |-> [tokens |-> tokens, last_refill |-> last_refill]]

Reject(tokens, last_refill, retry_at) ==
  [allowed |-> FALSE, stores |-> TRUE, retry_at |-> retry_at,
   bucket |-> [tokens |-> tokens, last_refill |-> last_refill]]

\* (a faulty variant that forgets the capacity when it refills)
TokenBucketUncapped(b, t) ==
  LET tokens == b.tokens + (t - b.last_refill) * Limit
  IN  IF b = NoBucket THEN Admit(Capacity - Window, t)
      ELSE IF tokens >= Window THEN Admit(tokens - Window, t)
      ELSE Reject(tokens, t, t * Limit + Window)

TokenBucketDecision(b, t) ==
  LET tokens == Smaller(Capacity, b.tokens + (t - b.last_refill) * Limit)
  IN  IF b = NoBucket THEN Admit(Capacity - Window, t)
      ELSE IF tokens >= Window THEN Admit(tokens - Window, t)
      ELSE Reject(tokens, t, t * Limit + Window)

\* (faulty variants: a rejected request still fills the bucket; a rejected client
\* is told when the bucket stops overflowing, not when it has room)
LeakyBucketChargingRejects(b, t) ==
  LET current_water == Larger(0, b.tokens - (t - b.last_refill) * Limit)
  IN  IF b = NoBucket THEN Admit(Window, t)
      ELSE IF current_water + Window <= Capacity THEN Admit(current_water + Window, t)
      ELSE Reject(current_water + Window, t, t * Limit + current_water + Window - Capacity)

LeakyBucketComingBackEarly(b, t) ==
  LET current_water == Larger(0, b.tokens - (t - b.last_refill) * Limit)
  IN  IF b = NoBucket THEN Admit(Window, t)
      ELSE IF current_water + Window <= Capacity THEN Admit(current_water + Window, t)
      ELSE Reject(current_water, t, t * Limit + current_water - Capacity)

LeakyBucketDecision(b, t) ==
  LET current_water == Larger(0, b.tokens - (t - b.last_refill) * Limit)
  IN  IF b = NoBucket THEN Admit(Window, t)
      ELSE IF current_water + Window <= Capacity THEN Admit(current_water + Window, t)
      ELSE Reject(current_water, t, t * Limit + current_water + Window - Capacity)

\* The arrival time is stored as tokens, with 0 as last_refill; a rejection stores
\* nothing.
\* (faulty variants: one interval of tolerance too many; a strict comparison)
GCRATolerant(b, t) ==
  LET tat == b.tokens
      allow_at == tat - Capacity
  IN  IF b = NoBucket THEN Admit(t * Limit + Window, 0)
      ELSE IF t * Limit >= allow_at THEN Admit(Larger(tat, t * Limit) + Window, 0)
      ELSE [Reject(tat, 0, allow_at) EXCEPT !.stores = FALSE]

GCRAStrict(b, t) ==
  LET tat == b.tokens
      allow_at == tat - (Capacity - Window)
  IN  IF b = NoBucket THEN Admit(t * Limit + Window, 0)
      ELSE IF t * Limit > allow_at THEN Admit(Larger(tat, t * Limit) + Window, 0)
      ELSE [Reject(tat, 0, allow_at) EXCEPT !.stores = FALSE]

GCRADecision(b, t) ==
  LET tat == b.tokens
      allow_at == tat - (Capacity - Window)
  IN  IF b = NoBucket THEN Admit(t * Limit + Window, 0)
      ELSE IF t * Limit >= allow_at THEN Admit(Larger(tat, t * Limit) + Window, 0)
      ELSE [Reject(tat, 0, allow_at) EXCEPT !.stores = FALSE]

Decision(algorithm, b, t) ==
  CASE algorithm = "token_bucket" -> TokenBucketDecision(b, t)
    [] algorithm = "leaky_bucket" -> LeakyBucketDecision(b, t)
    [] algorithm = "gcra" -> GCRADecision(b, t)

\* What a stored bucket is worth at time t: the capacity a burst could use then.
LevelAt(algorithm, b, t) ==
  IF b = NoBucket THEN Capacity
  ELSE CASE algorithm = "token_bucket" ->
              Smaller(Capacity, b.tokens + (t - b.last_refill) * Limit)
         [] algorithm = "leaky_bucket" ->
              Capacity - Larger(0, b.tokens - (t - b.last_refill) * Limit)
         [] algorithm = "gcra" ->
              Capacity - Larger(0, b.tokens - t * Limit)
=============================================================================
