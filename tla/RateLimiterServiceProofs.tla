---------------------- MODULE RateLimiterServiceProofs ----------------------
(***************************************************************************)
(* Theorems about RateLimiterService, for every finite set of threads,     *)
(* clients and costs, every limit, tier and multiplier, any pool, window   *)
(* and coalescing parameters, and any number of requests and resets.       *)
(*                                                                         *)
(* AdmissionsAreBacked is not inductive: a unit consumed now may let a     *)
(* request in much later, and a result stored now several.  StretchBounded *)
(* adds what the calls underway and the results already cached may still   *)
(* let in, as two sums; that they cannot let in more is what the coalescer *)
(* promises (ReuseIsBacked).                                               *)
(***************************************************************************)
EXTENDS RateLimiterService, FiniteSetTheorems, TLAPS

CP == INSTANCE RequestCoalescerProofs WITH Keys <- Request

-----------------------------------------------------------------------------
LEMMA CostsArePositive == Costs \subseteq Nat /\ \A c \in Costs : c \in Int /\ 1 <= c
  BY ServiceAssumption

LEMMA RequestFacts ==
  /\ \A r \in Request : r.client \in Clients /\ r.cost \in Costs /\ r.cost \in Nat /\ 1 <= r.cost
  /\ Request # {}
  <1>1. PICK c \in Clients, d \in Costs : TRUE
    BY ServiceAssumption
  <1>2. [client |-> c, cost |-> d] \in Request
    BY DEF Request
  <1> QED
    BY <1>2, CostsArePositive DEF Request

LEMMA RequestIsFinite == IsFiniteSet(Request)
  <1> DEFINE P == Clients \X Costs
             f == [p \in P |-> [client |-> p[1], cost |-> p[2]]]
  <1>1. IsFiniteSet(P)
    BY FS_Product, ServiceAssumption
  <1>2. f \in Surjection(P, Request)
    <2>1. f \in [P -> Request]
      BY DEF Request
    <2>2. ASSUME NEW r \in Request PROVE \E p \in P : f[p] = r
      <3>1. <<r.client, r.cost>> \in P /\ r = [client |-> r.client, cost |-> r.cost]
        BY DEF Request
      <3> QED BY <3>1
    <2> QED BY <2>1, <2>2 DEF Surjection
  <1> QED
    BY <1>1, <1>2, FS_Surjection DEF ExistsSurjection

LEMMA CoalescerAssumed == CP!CoalescerAssumption
  BY ServiceAssumption, RequestFacts DEF CP!CoalescerAssumption

-----------------------------------------------------------------------------
(***************************************************************************)
(* The lemmas on sums, for the operators this module knows.                *)
(***************************************************************************)
LEMMA SameFinite == \A S : CP!IsFiniteSet(S) <=> IsFiniteSet(S)
  BY DEF IsFiniteSet, CP!IsFiniteSet

LEMMA SameCardinality == \A S : CP!Cardinality(S) = Cardinality(S)
  BY DEF Cardinality, CP!Cardinality

LEMMA SameSum == \A f, S : CP!SumFunctionOnSet(f, S) = SumFunctionOnSet(f, S)
  BY DEF CP!SumFunctionOnSet, CP!FoldFunctionOnSet, CP!MapThenFoldSet,
         SumFunctionOnSet, FoldFunctionOnSet, MapThenFoldSet

LEMMA SumEmpty == ASSUME NEW f PROVE SumFunctionOnSet(f, {}) = 0
  BY CoalescerAssumed, SameSum, CP!SumEmpty

LEMMA SumIsNat ==
  ASSUME NEW f, NEW S, IsFiniteSet(S), \A x \in S : f[x] \in Nat
  PROVE  SumFunctionOnSet(f, S) \in Nat
  BY CoalescerAssumed, SameSum, SameFinite, CP!SumIsNat

LEMMA SumNonempty ==
  ASSUME NEW f, NEW S, IsFiniteSet(S), \A x \in S : f[x] \in Int, NEW x \in S
  PROVE  SumFunctionOnSet(f, S) = f[x] + SumFunctionOnSet(f, S \ {x})
  BY CoalescerAssumed, SameSum, SameFinite, CP!SumNonempty

LEMMA SumCongruent ==
  ASSUME NEW f, NEW g, NEW S, IsFiniteSet(S), \A x \in S : f[x] = g[x]
  PROVE  SumFunctionOnSet(f, S) = SumFunctionOnSet(g, S)
  BY CoalescerAssumed, SameSum, SameFinite, CP!SumCongruent

LEMMA ZeroSum ==
  ASSUME NEW f, NEW S, IsFiniteSet(S), \A x \in S : f[x] = 0
  PROVE  SumFunctionOnSet(f, S) = 0
  BY CoalescerAssumed, SameSum, SameFinite, CP!ZeroSum

LEMMA SumOneChanged ==
  ASSUME NEW f, NEW g, NEW S, IsFiniteSet(S), NEW x \in S,
         \A y \in S : f[y] \in Int /\ g[y] \in Int,
         \A y \in S \ {x} : f[y] = g[y]
  PROVE  SumFunctionOnSet(g, S) - g[x] = SumFunctionOnSet(f, S) - f[x]
  BY CoalescerAssumed, SameSum, SameFinite, CP!SumOneChanged

\* A finite set of integers has a greatest member.
LEMMA MaxIsMax ==
  ASSUME NEW S, IsFiniteSet(S), S # {}, S \subseteq Int
  PROVE  Max(S) \in S /\ \A x \in S : x <= Max(S)
  <1> DEFINE C == {T \in SUBSET S : T # {} /\ ~ \E m \in T : \A x \in T : m >= x}
  <1>1. C = {}
    <2> SUFFICES ASSUME C # {} PROVE FALSE
      OBVIOUS
    <2>1. PICK T \in C : \A U \in SUBSET T : U # T => U \notin C
      <3>1. C \in SUBSET (SUBSET S)
        OBVIOUS
      <3> HIDE DEF C
      <3> QED BY <3>1, CoalescerAssumed, SameFinite, CP!MinimalSubset
    <2>2. PICK x \in T : TRUE
      OBVIOUS
    <2>3. T \ {x} \notin C
      BY <2>1, <2>2
    <2>4. CASE T \ {x} = {}
      BY <2>2, <2>4
    <2>5. CASE T \ {x} # {}
      <3>1. PICK m \in T \ {x} : \A y \in T \ {x} : m >= y
        BY <2>3, <2>5
      <3>2. m \in Int /\ x \in Int /\ T \subseteq Int
        BY <2>2
      <3>3. CASE m >= x
        BY <3>1, <3>2, <3>3
      <3>4. CASE ~ m >= x
        <4>1. \A y \in T : x >= y
          BY <3>1, <3>2, <3>4
        <4> QED BY <4>1, <2>2
      <3> QED BY <3>3, <3>4
    <2> QED BY <2>4, <2>5
  <1>2. \E m \in S : \A x \in S : m >= x
    BY <1>1
  <1> QED
    BY <1>2 DEF Max

-----------------------------------------------------------------------------
(***************************************************************************)
(* The coalescer inside the service.                                       *)
(***************************************************************************)
CoalescerInv == Coalescer!TypeOK /\ Coalescer!ReuseIsBacked

LEMMA SameInvariants ==
  /\ Coalescer!TypeOK <=> CP!TypeOK
  /\ Coalescer!ReuseIsBacked <=> CP!ReuseIsBacked
  /\ Coalescer!Init <=> CP!Init
PROOF
<1>1. Coalescer!TypeOK <=> CP!TypeOK
  BY DEF Coalescer!TypeOK, CP!TypeOK, Coalescer!Times, CP!Times, Coalescer!CoalescedResult,
         CP!CoalescedResult, Coalescer!NoEntry, CP!NoEntry, Coalescer!Tally, CP!Tally
<1>2. Coalescer!ReuseIsBacked <=> CP!ReuseIsBacked
  BY DEF Coalescer!ReuseIsBacked, CP!ReuseIsBacked, Coalescer!Spent, CP!Spent,
         Coalescer!ReusedFromEntry, CP!ReusedFromEntry, Coalescer!NoEntry, CP!NoEntry
<1>3. Coalescer!Init <=> CP!Init
  BY DEF Coalescer!Init, CP!Init, Coalescer!NoEntry, CP!NoEntry
<1> QED
  BY <1>1, <1>2, <1>3

\* Every step of the service is one of the coalescer or leaves it alone, but for the
\* beginning of a shadow call, which passes it by.
LEMMA StepIsACoalescerStep ==
  [Next]_vars => [CP!Next]_(CP!vars) \/ \E t \in Threads, r \in Request : BeginShadow(t, r)
PROOF
<1> SUFFICES ASSUME [Next]_vars,
                    ~ \E t \in Threads, r \in Request : BeginShadow(t, r)
             PROVE  [CP!Next]_(CP!vars)
  OBVIOUS
<1> USE DEF CP!Next, CP!Call, CP!Move, Coalescer!Move
<1>1. CASE Tick
  BY <1>1 DEF Tick, Coalescer!Tick, CP!Tick
<1>2. CASE ResetRepository \/ ResetMetrics
  BY <1>2 DEF ResetRepository, ResetMetrics, coalescer_vars, CP!vars
<1>3. ASSUME NEW t \in Threads, NEW r \in Request, Begin(t, r) PROVE [CP!Next]_(CP!vars)
  <2>1. CP!Arrive(t, r)
    BY <1>3 DEF Begin, Coalescer!Arrive, CP!Arrive
  <2> QED BY <2>1
<1>4. ASSUME NEW t \in Threads, Reuse(t) PROVE [CP!Next]_(CP!vars)
  <2>1. CP!Hit(t)
    BY <1>4 DEF Reuse, Coalescer!Hit, CP!Hit, Coalescer!Usable, CP!Usable, Coalescer!NoEntry, CP!NoEntry
  <2> QED BY <2>1
<1>5. ASSUME NEW t \in Threads, NoReuse(t) PROVE [CP!Next]_(CP!vars)
  <2>1. CP!Miss(t)
    BY <1>5 DEF NoReuse, Coalescer!Miss, CP!Miss, Coalescer!Usable, CP!Usable, Coalescer!NoEntry, CP!NoEntry
  <2> QED BY <2>1
<1>6. ASSUME NEW t \in Threads, PoolGrants(t) PROVE [CP!Next]_(CP!vars)
  BY <1>6 DEF PoolGrants, coalescer_vars, CP!vars
<1>7. ASSUME NEW t \in Threads, PoolRejects(t) PROVE [CP!Next]_(CP!vars)
  <2>1. CP!Abandon(t)
    BY <1>7 DEF PoolRejects, Coalescer!Abandon, CP!Abandon
  <2> QED BY <2>1
<1>8. ASSUME NEW t \in Threads, Fail(t) PROVE [CP!Next]_(CP!vars)
  <2>1. CP!Abandon(t) \/ UNCHANGED CP!vars
    BY <1>8 DEF Fail, Coalescer!Abandon, CP!Abandon, coalescer_vars, CP!vars
  <2> QED BY <2>1
<1>9. ASSUME NEW t \in Threads, ConsumeUnit(t) PROVE [CP!Next]_(CP!vars)
  <2> DEFINE a == UnitAllowed(live, key[t].client, limit[t])
  <2>1. a \in BOOLEAN
    BY DEF UnitAllowed
  <2>2. CP!Decide(t, a) \/ UNCHANGED CP!vars
    BY <1>9 DEF ConsumeUnit, Coalescer!Decide, CP!Decide, coalescer_vars, CP!vars
  <2> HIDE DEF a
  <2> QED BY <2>1, <2>2
<1>10. ASSUME NEW t \in Threads, ConsumeShadowUnit(t) PROVE [CP!Next]_(CP!vars)
  BY <1>10 DEF ConsumeShadowUnit, coalescer_vars, CP!vars
<1>11. ASSUME NEW t \in Threads, CacheResult(t) PROVE [CP!Next]_(CP!vars)
  <2>1. CP!Store(t)
    BY <1>11 DEF CacheResult, Coalescer!Store, CP!Store
  <2> QED BY <2>1
<1>12. ASSUME NEW t \in Threads, RecordMetrics(t) PROVE [CP!Next]_(CP!vars)
  BY <1>12 DEF RecordMetrics, coalescer_vars, CP!vars
<1>13. CASE UNCHANGED vars
  BY <1>13 DEF vars, coalescer_vars, CP!vars
<1> QED
  BY <1>1, <1>2, <1>3, <1>4, <1>5, <1>6, <1>7, <1>8, <1>9, <1>10, <1>11, <1>12, <1>13 DEF Next, Call

LEMMA CoalescerInit == Coalescer!Init => CoalescerInv
PROOF BY CoalescerAssumed, SameInvariants, CP!TypeInit, CP!BackedInit DEF CoalescerInv

LEMMA CoalescerStep == CoalescerInv /\ [Next]_vars => CoalescerInv'
PROOF
<1> SUFFICES ASSUME CoalescerInv, [Next]_vars PROVE CoalescerInv'
  OBVIOUS
<1>0. CP!TypeOK /\ CP!ReuseIsBacked
  BY SameInvariants DEF CoalescerInv
<1>1. CASE [CP!Next]_(CP!vars)
  <2>1. CP!TypeOK' /\ CP!ReuseIsBacked'
    BY <1>0, <1>1, CoalescerAssumed, CP!TypeStep, CP!BackedStep
  <2>2. Coalescer!TypeOK' /\ Coalescer!ReuseIsBacked'
    <3>1. (CP!TypeOK => Coalescer!TypeOK)'
      BY SameInvariants, PTL
    <3>2. (CP!ReuseIsBacked => Coalescer!ReuseIsBacked)'
      BY SameInvariants, PTL
    <3> QED BY <2>1, <3>1, <3>2
  <2> QED BY <2>2 DEF CoalescerInv
<1>2. ASSUME NEW t \in Threads, NEW r \in Request, BeginShadow(t, r) PROVE CoalescerInv'
  <2>1. Coalescer!TypeOK'
    BY <1>2, ServiceAssumption DEF CoalescerInv, BeginShadow, Coalescer!TypeOK
  <2>2. Coalescer!ReuseIsBacked'
    BY <1>2 DEF CoalescerInv, BeginShadow, Coalescer!ReuseIsBacked, Coalescer!Spent, Coalescer!ReusedFromEntry
  <2> QED BY <2>1, <2>2 DEF CoalescerInv
<1> QED
  BY <1>1, <1>2, StepIsACoalescerStep

-----------------------------------------------------------------------------
(***************************************************************************)
(* Types.                                                                  *)
(***************************************************************************)
PoolType == [total_limit : {PoolLimit}, used : 0 .. PoolLimit, last_reset : -PoolWindow .. MaxTime]

LEMMA TypeFacts ==
  ASSUME TypeOK
  PROVE  /\ now \in 0 .. MaxTime /\ now \in Nat
         /\ checked \in [Threads -> BOOLEAN] /\ key \in [Threads -> Request]
         /\ \A t \in Threads :
              /\ key[t].client \in Clients /\ key[t].cost \in Costs
              /\ key[t].cost \in Nat /\ 1 <= key[t].cost
PROOF BY RequestFacts, ServiceAssumption DEF TypeOK, Coalescer!TypeOK, Coalescer!Times

LEMMA CostWithinMax == \A c \in Costs : c \in 0 .. Max(Costs) /\ Max(Costs) \in Nat
PROOF
<1>1. Max(Costs) \in Costs /\ \A c \in Costs : c <= Max(Costs)
  BY MaxIsMax, ServiceAssumption, CostsArePositive
<1> DEFINE m == Max(Costs)
<1>2. m \in Costs /\ \A c \in Costs : c <= m
  BY <1>1
<1> HIDE DEF m
<1>3. m \in Nat /\ \A c \in Costs : c \in 0 .. m
  BY <1>2, CostsArePositive
<1> QED
  BY <1>3 DEF m

\* The window of a reading of the clock, and the last one before the clock stops.
LEMMA NowInWindows == \A t \in 0 .. MaxTime : t \div Window \in Windows
PROOF
<1> SUFFICES ASSUME NEW t \in 0 .. MaxTime PROVE t \div Window \in Windows
  OBVIOUS
<1> DEFINE a == t \div Window
           b == MaxTime \div Window
<1>0. Window \in Nat \ {0} /\ MaxTime \in Nat /\ t \in Nat /\ t <= MaxTime
  BY ServiceAssumption
<1>1. a \in Nat /\ a * Window <= t
  <2>1. t = Window * (t \div Window) + (t % Window) /\ t % Window \in 0 .. Window - 1
    BY <1>0
  <2>2. t \div Window \in Nat
    BY <1>0
  <2> QED BY <1>0, <2>1, <2>2
<1>2. b \in Nat /\ MaxTime < (b + 1) * Window
  <2>1. MaxTime = Window * (MaxTime \div Window) + (MaxTime % Window) /\ MaxTime % Window \in 0 .. Window - 1
    BY <1>0
  <2>2. MaxTime \div Window \in Nat
    BY <1>0
  <2> QED BY <1>0, <2>1, <2>2
<1>3. a <= b
  <2> HIDE DEF a, b
  <2> SUFFICES ASSUME b + 1 <= a PROVE FALSE
    BY <1>1, <1>2
  <2>1. (b + 1) * Window <= a * Window
    BY <1>0, <1>1, <1>2
  <2> QED BY <1>0, <1>1, <1>2, <2>1
<1> QED
  BY <1>1, <1>2, <1>3 DEF Windows

LEMMA UnitKeepsCounters ==
  ASSUME TypeOK, NEW r \in Counters, NEW c \in Clients
  PROVE  /\ AfterUnit(r, c) \in Counters
         /\ \A l : UnitAllowed(r, c, l) \in BOOLEAN
PROOF
<1> DEFINE w == now \div Window
<1>1. w \in Windows
  BY NowInWindows, TypeFacts
<1>2. r[c][w] \in Counter
  BY <1>1 DEF Counters
<1>3. Incremented(r[c][w], Window, now) \in Counter
  <2>1. now \in Nat /\ Window \in Nat
    BY TypeFacts, ServiceAssumption
  <2> QED
    BY <1>2, <2>1 DEF Incremented, Counter
<1>4. AfterUnit(r, c) = [r EXCEPT ![c] = [r[c] EXCEPT ![w] = Incremented(r[c][w], Window, now)]]
  BY DEF AfterUnit, UnitEntry
<1>5. [r[c] EXCEPT ![w] = Incremented(r[c][w], Window, now)] \in [Windows -> Counter]
  BY <1>3 DEF Counters
<1> QED
  BY <1>4, <1>5 DEF Counters, UnitAllowed

LEMMA CheckKeepsPool ==
  ASSUME TypeOK, NEW c \in Nat
  PROVE  AfterCheck(pool, PoolWindow, c, now) \in PoolType
PROOF
<1>1. PoolLimit \in Nat /\ PoolWindow \in Nat /\ now \in 0 .. MaxTime /\ MaxTime \in Nat
  BY ServiceAssumption, TypeFacts
<1>2. pool \in PoolType
  BY DEF TypeOK, PoolType
<1> DEFINE r == Renewed(pool, PoolWindow, now)
<1>3. r \in PoolType
  <2>1. now \in -PoolWindow .. MaxTime /\ 0 \in 0 .. PoolLimit
    BY <1>1
  <2> QED BY <1>2, <2>1 DEF Renewed, PoolType
<1>4. HasRoom(r, c) => r.used + c \in 0 .. PoolLimit
  BY <1>1, <1>3 DEF HasRoom, Remaining, PoolType
<1>5. AfterCheck(pool, PoolWindow, c, now) = IF HasRoom(r, c) THEN [r EXCEPT !.used = @ + c] ELSE r
  BY DEF AfterCheck
<1> HIDE DEF r
<1> QED
  BY <1>3, <1>4, <1>5 DEF PoolType

LEMMA CountedIsDecisions == \A d \in Decisions : \A a : Counted(d, a) \in Decisions
PROOF
<1> SUFFICES ASSUME NEW d \in Decisions, NEW a PROVE Counted(d, a) \in Decisions
  OBVIOUS
<1>1. d.allowed + 1 \in Nat /\ d.rejected + 1 \in Nat
  BY DEF Decisions
<1> QED
  BY <1>1 DEF Counted, Decisions

\* A call in the algorithm has between one unit and its whole cost to consume; one
\* about to be cached is cached with the answer it was given.
CallsAreSound ==
  \A t \in Threads :
    /\ stage[t] = "algorithm" => left[t] \in 1 .. key[t].cost
    /\ stage[t] = "store" => checked[t] = answer[t]

Waiting(a) == {t \in Threads : stage[t] \in {"store", "record"} /\ answer[t] = a}

LEMMA UnrecordedIsNat ==
  \A a : /\ Unrecorded(a) = Cardinality(Waiting(a))
         /\ IsFiniteSet(Waiting(a)) /\ Unrecorded(a) \in Nat
PROOF
<1> SUFFICES ASSUME NEW a
             PROVE  /\ Unrecorded(a) = Cardinality(Waiting(a))
                    /\ IsFiniteSet(Waiting(a)) /\ Unrecorded(a) \in Nat
  OBVIOUS
<1>1. IsFiniteSet(Waiting(a))
  BY FS_Subset, ServiceAssumption DEF Waiting
<1>2. Unrecorded(a) = Cardinality(Waiting(a))
  BY DEF Unrecorded, Waiting
<1> QED
  BY <1>1, <1>2, FS_CardinalityType

LEMMA TypeInit == Init => TypeOK
PROOF
<1> SUFFICES ASSUME Init PROVE TypeOK
  OBVIOUS
<1>1. Coalescer!TypeOK
  BY CoalescerInit DEF Init, CoalescerInv
<1>2. pool \in [total_limit : {PoolLimit}, used : 0 .. PoolLimit, last_reset : -PoolWindow .. MaxTime]
  <2>1. PoolWindow \in Nat /\ PoolLimit \in Nat /\ MaxTime \in Nat
    BY ServiceAssumption
  <2>2. -PoolWindow \in -PoolWindow .. MaxTime /\ 0 \in 0 .. PoolLimit
    BY <2>1
  <2>3. pool = [total_limit |-> PoolLimit, used |-> 0, last_reset |-> -PoolWindow]
    BY DEF Init, NewPool
  <2> QED BY <2>2, <2>3
<1>3. live \in Counters /\ dry \in Counters
  BY DEF Init, Counters, Counter, Missing
<1>4. 0 \in 0 .. Max(Costs) /\ 0 \in 0 .. MaxResets
  <2>1. Max(Costs) \in Nat /\ MaxResets \in Nat
    BY CostWithinMax, ServiceAssumption
  <2> QED BY <2>1
<1> QED
  BY <1>1, <1>2, <1>3, <1>4 DEF Init, TypeOK, None, Decisions

LEMMA TypeStep == TypeOK /\ CallsAreSound /\ CoalescerInv /\ [Next]_vars => TypeOK'
PROOF
<1> SUFFICES ASSUME TypeOK, CallsAreSound, CoalescerInv, [Next]_vars PROVE TypeOK'
  OBVIOUS
<1>0. Coalescer!TypeOK'
  BY CoalescerStep DEF CoalescerInv
<1> USE <1>0 DEF TypeOK, Go
<1>1. CASE Tick
  BY <1>1 DEF Tick, call_vars, history
<1>2. CASE ResetRepository
  <2>1. live' \in Counters
    BY <1>2 DEF ResetRepository, Counters, Counter, Missing
  <2>2. resets' \in 0 .. MaxResets
    BY <1>2, ServiceAssumption DEF ResetRepository
  <2> QED BY <1>2, <2>1, <2>2 DEF ResetRepository, call_vars
<1>3. CASE ResetMetrics
  <2>1. answers' \in Decisions /\ metrics' \in Decisions
    BY <1>3, UnrecordedIsNat DEF ResetMetrics, Decisions, None
  <2> QED BY <1>3, <2>1 DEF ResetMetrics, call_vars
<1>4. ASSUME NEW t \in Threads, NEW r \in Request, Begin(t, r) PROVE TypeOK'
  BY <1>4 DEF Begin, history
<1>5. ASSUME NEW t \in Threads, NEW r \in Request, BeginShadow(t, r) PROVE TypeOK'
  <2>1. left' \in [Threads -> 0 .. Max(Costs)]
    BY <1>5, RequestFacts, CostWithinMax DEF BeginShadow
  <2>2. limit' \in [Threads -> EffectiveLimits \cup {Limit}]
    BY <1>5 DEF BeginShadow
  <2> QED BY <1>5, <2>1, <2>2 DEF BeginShadow, history
<1>6. ASSUME NEW t \in Threads, NEW a \in BOOLEAN, Answers(t, a)
      PROVE  /\ answer' \in [Threads -> BOOLEAN]
             /\ answers' \in Decisions
             /\ admitted' \in Nat
  BY <1>6, TypeFacts, CountedIsDecisions DEF Answers
<1>7. ASSUME NEW t \in Threads, Reuse(t) PROVE TypeOK'
  <2>1. cache[key[t]].result \in BOOLEAN
    BY <1>7 DEF Reuse, Coalescer!Hit, Coalescer!Usable, Coalescer!TypeOK, Coalescer!CoalescedResult
  <2> QED BY <1>7, <1>6, <2>1 DEF Reuse
<1>8. ASSUME NEW t \in Threads, NoReuse(t) PROVE TypeOK'
  BY <1>8 DEF NoReuse, history
<1>9. ASSUME NEW t \in Threads, PoolGrants(t) PROVE TypeOK'
  <2>1. pool' \in PoolType
    BY <1>9, TypeFacts, CheckKeepsPool DEF PoolGrants
  <2>2. left' \in [Threads -> 0 .. Max(Costs)]
    BY <1>9, TypeFacts, CostWithinMax DEF PoolGrants
  <2>3. limit' \in [Threads -> EffectiveLimits \cup {Limit}]
    BY <1>9 DEF PoolGrants
  <2>4. paid' \in Nat
    BY <1>9, TypeFacts DEF PoolGrants
  <2> QED BY <1>9, <2>1, <2>2, <2>3, <2>4 DEF PoolGrants, PoolType
<1>10. ASSUME NEW t \in Threads, PoolRejects(t) PROVE TypeOK'
  <2>1. pool' \in PoolType
    BY <1>10, TypeFacts, CheckKeepsPool DEF PoolRejects
  <2>2. answers' \in Decisions
    BY <1>10, CountedIsDecisions DEF PoolRejects
  <2> QED BY <1>10, <2>1, <2>2 DEF PoolRejects, PoolType
<1>11. ASSUME NEW t \in Threads, Fail(t) PROVE TypeOK'
  BY <1>11 DEF Fail, history
<1>12. ASSUME NEW t \in Threads, NEW last \in BOOLEAN, stage[t] = "algorithm", Consumed(t, last)
       PROVE  /\ left' \in [Threads -> 0 .. Max(Costs)]
              /\ limit' \in [Threads -> EffectiveLimits \cup {Limit}]
  <2>1. limit' \in [Threads -> EffectiveLimits \cup {Limit}]
    BY <1>12 DEF Consumed
  <2> DEFINE m == Max(Costs)
  <2>2. left[t] \in 0 .. m /\ left[t] \in 1 .. key[t].cost /\ m \in Nat
    BY <1>12, CostWithinMax, TypeFacts DEF CallsAreSound
  <2>3. left \in [Threads -> 0 .. m] /\ left' = [left EXCEPT ![t] = IF last THEN 0 ELSE @ - 1]
    BY <1>12 DEF Consumed
  <2>4. left' \in [Threads -> 0 .. m]
    <3> HIDE DEF m
    <3> QED BY <2>2, <2>3, TypeFacts
  <2> QED BY <2>1, <2>4
<1>13. ASSUME NEW t \in Threads, ConsumeUnit(t) PROVE TypeOK'
  <2> DEFINE a == UnitAllowed(live, key[t].client, limit[t])
             b == LastUnit(t, a)
  <2>1. live' \in Counters /\ a \in BOOLEAN /\ b \in BOOLEAN
    BY <1>13, TypeFacts, UnitKeepsCounters DEF ConsumeUnit, LastUnit
  <2>2. left' \in [Threads -> 0 .. Max(Costs)] /\ limit' \in [Threads -> EffectiveLimits \cup {Limit}]
    <3>1. stage[t] = "algorithm" /\ Consumed(t, b)
      BY <1>13 DEF ConsumeUnit
    <3> HIDE DEF a, b
    <3> QED BY <1>12, <2>1, <3>1
  <2>3. answer' \in [Threads -> BOOLEAN] /\ answers' \in Decisions /\ admitted' \in Nat
    <3>1. Answers(t, a) \/ UNCHANGED <<answer, answers, admitted>>
      BY <1>13 DEF ConsumeUnit
    <3> HIDE DEF a
    <3> QED BY <1>6, <2>1, <3>1
  <2>4. stage' \in [Threads -> {"idle", "coalesce", "pool", "algorithm", "store", "record"}]
    BY <1>13 DEF ConsumeUnit
  <2>5. /\ taken' \in Nat
        /\ UNCHANGED <<shadow, pool, dry, metrics, resets, admin, paid>>
    BY <1>13 DEF ConsumeUnit
  <2> QED BY <2>1, <2>2, <2>3, <2>4, <2>5
<1>14. ASSUME NEW t \in Threads, ConsumeShadowUnit(t) PROVE TypeOK'
  <2> DEFINE a == UnitAllowed(dry, key[t].client, limit[t])
             b == LastUnit(t, a)
  <2>1. dry' \in Counters /\ a \in BOOLEAN /\ b \in BOOLEAN
    BY <1>14, TypeFacts, UnitKeepsCounters DEF ConsumeShadowUnit, LastUnit
  <2>2. left' \in [Threads -> 0 .. Max(Costs)] /\ limit' \in [Threads -> EffectiveLimits \cup {Limit}]
    <3>1. stage[t] = "algorithm" /\ Consumed(t, b)
      BY <1>14 DEF ConsumeShadowUnit
    <3> HIDE DEF a, b
    <3> QED BY <1>12, <2>1, <3>1
  <2>3. answer' \in [Threads -> BOOLEAN]
    BY <1>14, <2>1 DEF ConsumeShadowUnit
  <2>4. stage' \in [Threads -> {"idle", "coalesce", "pool", "algorithm", "store", "record"}]
    BY <1>14 DEF ConsumeShadowUnit
  <2>5. UNCHANGED <<shadow, pool, live, metrics, resets, admin, history>>
    BY <1>14 DEF ConsumeShadowUnit
  <2> QED BY <2>1, <2>2, <2>3, <2>4, <2>5 DEF history
<1>15. ASSUME NEW t \in Threads, CacheResult(t) PROVE TypeOK'
  BY <1>15 DEF CacheResult, history
<1>16. ASSUME NEW t \in Threads, RecordMetrics(t) PROVE TypeOK'
  <2>1. metrics' \in Decisions
    BY <1>16, CountedIsDecisions DEF RecordMetrics
  <2> QED BY <1>16, <2>1 DEF RecordMetrics, history
<1>17. CASE UNCHANGED vars
  BY <1>17 DEF vars, call_vars, history
<1> QED
  BY <1>1, <1>2, <1>3, <1>4, <1>5, <1>7, <1>8, <1>9, <1>10, <1>11, <1>13, <1>14, <1>15, <1>16, <1>17
  DEF Next, Call

-----------------------------------------------------------------------------
(***************************************************************************)
(* The calls underway.                                                     *)
(***************************************************************************)
LEMMA CallsInit == Init => CallsAreSound
PROOF BY DEF Init, CallsAreSound

\* A step of one call leaves the others where they are.
LEMMA OtherCallsStay ==
  ASSUME TypeOK, NEW u \in Threads, Call(u), NEW t \in Threads, u # t
  PROVE  /\ stage'[t] = stage[t] /\ shadow'[t] = shadow[t] /\ left'[t] = left[t]
         /\ answer'[t] = answer[t] /\ key'[t] = key[t] /\ checked'[t] = checked[t]
PROOF
<1>t. /\ stage \in [Threads -> {"idle", "coalesce", "pool", "algorithm", "store", "record"}]
      /\ left \in [Threads -> 0 .. Max(Costs)] /\ shadow \in [Threads -> BOOLEAN]
      /\ answer \in [Threads -> BOOLEAN] /\ checked \in [Threads -> BOOLEAN]
      /\ key \in [Threads -> Request]
  BY TypeFacts DEF TypeOK
<1> USE <1>t DEF Go
<1>1. \/ \E r \in Request : Begin(u, r) \/ BeginShadow(u, r)
      \/ Reuse(u) \/ NoReuse(u) \/ PoolGrants(u) \/ PoolRejects(u)
      \/ Fail(u) \/ CacheResult(u) \/ RecordMetrics(u)
      \/ ConsumeUnit(u) \/ ConsumeShadowUnit(u)
  BY DEF Call
<1>2. stage'[t] = stage[t] /\ shadow'[t] = shadow[t]
  BY <1>1 DEF Begin, BeginShadow, Reuse, NoReuse, PoolGrants, PoolRejects, Fail, ConsumeUnit,
              ConsumeShadowUnit, CacheResult, RecordMetrics
<1>3. left'[t] = left[t]
  BY <1>1 DEF Begin, BeginShadow, Reuse, NoReuse, PoolGrants, PoolRejects, Fail, ConsumeUnit,
              ConsumeShadowUnit, CacheResult, RecordMetrics, Consumed
<1>4. answer'[t] = answer[t]
  BY <1>1 DEF Begin, BeginShadow, Reuse, NoReuse, PoolGrants, PoolRejects, Fail, ConsumeUnit,
              ConsumeShadowUnit, CacheResult, RecordMetrics, Answers
<1>5. key'[t] = key[t] /\ checked'[t] = checked[t]
  <2>1. CASE \E r \in Request : Begin(u, r) \/ BeginShadow(u, r)
    BY <2>1 DEF Begin, BeginShadow, Coalescer!Arrive
  <2>2. CASE Reuse(u) \/ NoReuse(u) \/ PoolRejects(u)
    BY <2>2 DEF Reuse, NoReuse, PoolRejects, Coalescer!Hit, Coalescer!Miss, Coalescer!Abandon
  <2>3. CASE PoolGrants(u) \/ Fail(u) \/ RecordMetrics(u)
    BY <2>3 DEF PoolGrants, Fail, RecordMetrics, coalescer_vars, Coalescer!Abandon
  <2>4. CASE CacheResult(u) \/ ConsumeUnit(u) \/ ConsumeShadowUnit(u)
    BY <2>4 DEF CacheResult, ConsumeUnit, ConsumeShadowUnit, coalescer_vars, Coalescer!Store, Coalescer!Decide
  <2> QED
    BY <1>1, <2>1, <2>2, <2>3, <2>4
<1> QED
  BY <1>2, <1>3, <1>4, <1>5

LEMMA CallsStep == TypeOK /\ CallsAreSound /\ [Next]_vars => CallsAreSound'
PROOF
<1> SUFFICES ASSUME TypeOK, CallsAreSound, [Next]_vars, NEW t \in Threads
             PROVE  /\ stage'[t] = "algorithm" => left'[t] \in 1 .. key'[t].cost
                    /\ stage'[t] = "store" => checked'[t] = answer'[t]
  BY DEF CallsAreSound
<1> DEFINE Goal == /\ stage'[t] = "algorithm" => left'[t] \in 1 .. key'[t].cost
                   /\ stage'[t] = "store" => checked'[t] = answer'[t]
<1>t. /\ stage \in [Threads -> {"idle", "coalesce", "pool", "algorithm", "store", "record"}]
      /\ left \in [Threads -> 0 .. Max(Costs)]
      /\ answer \in [Threads -> BOOLEAN] /\ checked \in [Threads -> BOOLEAN]
      /\ key \in [Threads -> Request]
  BY TypeFacts DEF TypeOK
<1>s. /\ stage[t] = "algorithm" => left[t] \in 1 .. key[t].cost
      /\ stage[t] = "store" => checked[t] = answer[t]
  BY DEF CallsAreSound
<1>o. \* a step that this call does not see
      ASSUME stage'[t] = stage[t], left'[t] = left[t], key'[t] = key[t],
             checked'[t] = checked[t], answer'[t] = answer[t]
      PROVE  Goal
  BY <1>o, <1>s
<1> USE <1>t DEF Go
<1>1. CASE Tick \/ ResetRepository \/ ResetMetrics \/ UNCHANGED vars
  <2>1. UNCHANGED <<stage, left, key, checked, answer>>
    BY <1>1 DEF Tick, Coalescer!Tick, ResetRepository, ResetMetrics, vars, call_vars, coalescer_vars
  <2> QED BY <2>1, <1>o
<1>2. ASSUME NEW u \in Threads, Call(u), u # t PROVE Goal
  BY <1>2, <1>o, OtherCallsStay
<1>3. ASSUME NEW r \in Request, Begin(t, r) PROVE Goal
  BY <1>3 DEF Begin
<1>4. ASSUME NEW r \in Request, BeginShadow(t, r) PROVE Goal
  BY <1>4, RequestFacts DEF BeginShadow
<1>5. CASE Reuse(t) \/ NoReuse(t) \/ PoolRejects(t) \/ Fail(t) \/ CacheResult(t) \/ RecordMetrics(t)
  <2>1. stage'[t] \notin {"algorithm", "store"}
    BY <1>5 DEF Reuse, NoReuse, PoolRejects, Fail, CacheResult, RecordMetrics
  <2> QED BY <2>1
<1>6. CASE PoolGrants(t)
  <2>1. stage'[t] = "algorithm" /\ left'[t] = key[t].cost /\ key' = key
    BY <1>6 DEF PoolGrants, coalescer_vars
  <2> QED BY <2>1, TypeFacts
<1>7. CASE ConsumeUnit(t)
  <2> DEFINE a == UnitAllowed(live, key[t].client, limit[t])
  <2>0. a \in BOOLEAN
    BY DEF UnitAllowed
  <2>1. CASE LastUnit(t, a)
    <3>1. stage'[t] = "store" /\ checked'[t] = a /\ answer'[t] = a
      BY <1>7, <2>1 DEF ConsumeUnit, Coalescer!Decide, Answers
    <3> QED BY <3>1
  <2>2. CASE ~ LastUnit(t, a)
    <3>1. stage'[t] = "algorithm" /\ stage[t] = "algorithm" /\ key' = key
      BY <1>7, <2>2 DEF ConsumeUnit, coalescer_vars
    <3>2. left'[t] = left[t] - 1 /\ left[t] # 1
      BY <1>7, <2>2 DEF ConsumeUnit, Consumed, LastUnit
    <3> QED BY <3>1, <3>2, <1>s, TypeFacts
  <2> QED BY <2>1, <2>2
<1>8. CASE ConsumeShadowUnit(t)
  <2> DEFINE a == UnitAllowed(dry, key[t].client, limit[t])
  <2>1. CASE LastUnit(t, a)
    BY <1>8, <2>1 DEF ConsumeShadowUnit
  <2>2. CASE ~ LastUnit(t, a)
    <3>1. stage'[t] = "algorithm" /\ stage[t] = "algorithm" /\ key' = key
      BY <1>8, <2>2 DEF ConsumeShadowUnit, coalescer_vars
    <3>2. left'[t] = left[t] - 1 /\ left[t] # 1
      BY <1>8, <2>2 DEF ConsumeShadowUnit, Consumed, LastUnit
    <3> QED BY <3>1, <3>2, <1>s, TypeFacts
  <2> QED BY <2>1, <2>2
<1> QED
  BY <1>1, <1>2, <1>3, <1>4, <1>5, <1>6, <1>7, <1>8 DEF Next, Call

-----------------------------------------------------------------------------
(***************************************************************************)
(* Units: the pool pays for what the calls underway may still consume.     *)
(***************************************************************************)
Underway == {t \in Threads : stage[t] = "algorithm" /\ ~ shadow[t]}

LEMMA UnderwayFacts ==
  ASSUME TypeOK
  PROVE  /\ IsFiniteSet(Underway)
         /\ \A t \in Threads : left[t] \in Nat
         /\ SumFunctionOnSet(left, Underway) \in Nat
         /\ taken \in Nat /\ paid \in Nat /\ admitted \in Nat
PROOF
<1>1. IsFiniteSet(Underway)
  BY FS_Subset, ServiceAssumption DEF Underway
<1>2. \A t \in Threads : left[t] \in Nat
  <2>1. Max(Costs) \in Nat
    BY CostWithinMax, ServiceAssumption
  <2> QED BY <2>1 DEF TypeOK
<1> QED
  BY <1>1, <1>2, SumIsNat DEF Underway, TypeOK

LEMMA PaidInit == Init => UnitsArePaid
PROOF
<1> SUFFICES ASSUME Init PROVE UnitsArePaid
  OBVIOUS
<1>1. Underway = {} /\ taken = 0 /\ paid = 0
  BY DEF Init, Underway
<1> QED
  BY <1>1, SumEmpty DEF UnitsArePaid, Underway

LEMMA PaidStep == TypeOK /\ CallsAreSound /\ UnitsArePaid /\ [Next]_vars /\ TypeOK' => UnitsArePaid'
PROOF
<1> SUFFICES ASSUME TypeOK, CallsAreSound, UnitsArePaid, [Next]_vars, TypeOK' PROVE UnitsArePaid'
  OBVIOUS
<1> DEFINE Sum == SumFunctionOnSet(left, Underway)
<1>p. taken + Sum <= paid /\ taken \in Nat /\ paid \in Nat /\ Sum \in Nat
  BY UnderwayFacts DEF UnitsArePaid, Underway
<1>g. UnitsArePaid' <=> taken' + Sum' <= paid'
  BY DEF UnitsArePaid, Underway
<1>t. /\ stage \in [Threads -> {"idle", "coalesce", "pool", "algorithm", "store", "record"}]
      /\ left \in [Threads -> 0 .. Max(Costs)]
      /\ shadow \in [Threads -> BOOLEAN]
  BY DEF TypeOK
<1>f. /\ IsFiniteSet(Underway) /\ IsFiniteSet(Underway')
      /\ \A t \in Threads : left[t] \in Nat
      /\ \A t \in Threads : left'[t] \in Nat
  <2>1. (TypeOK => /\ IsFiniteSet(Underway) /\ \A t \in Threads : left[t] \in Nat)'
    BY UnderwayFacts, PTL
  <2> QED BY <2>1, UnderwayFacts
<1>o. \* the calls underway, but perhaps t, are as they were
      ASSUME NEW t \in Threads, Underway' \ {t} = Underway \ {t},
             \A u \in Threads \ {t} : left'[u] = left[u]
      PROVE  /\ Sum = (IF t \in Underway THEN left[t] ELSE 0) + SumFunctionOnSet(left, Underway \ {t})
             /\ Sum' = (IF t \in Underway' THEN left'[t] ELSE 0) + SumFunctionOnSet(left, Underway \ {t})
             /\ SumFunctionOnSet(left, Underway \ {t}) \in Nat
  <2>1. Underway \subseteq Threads /\ Underway' \subseteq Threads
    BY DEF Underway
  <2>2. IsFiniteSet(Underway \ {t})
    BY <1>f, FS_Subset
  <2>3. SumFunctionOnSet(left, Underway \ {t}) \in Nat
    BY <2>1, <2>2, <1>f, SumIsNat
  <2>4. Sum = (IF t \in Underway THEN left[t] ELSE 0) + SumFunctionOnSet(left, Underway \ {t})
    <3>1. CASE t \in Underway
      BY <3>1, <2>1, <1>f, SumNonempty
    <3>2. CASE t \notin Underway
      <4>1. Underway \ {t} = Underway
        BY <3>2
      <4> QED BY <3>2, <4>1, <2>3
    <3> QED BY <3>1, <3>2
  <2>5. SumFunctionOnSet(left', Underway' \ {t}) = SumFunctionOnSet(left, Underway \ {t})
    BY <1>o, <2>1, <2>2, SumCongruent
  <2>6. Sum' = (IF t \in Underway' THEN left'[t] ELSE 0) + SumFunctionOnSet(left', Underway' \ {t})
    <3>1. CASE t \in Underway'
      BY <3>1, <2>1, <1>f, SumNonempty
    <3>2. CASE t \notin Underway'
      <4>1. Underway' \ {t} = Underway'
        BY <3>2
      <4> QED BY <3>2, <4>1, <2>3, <2>5
    <3> QED BY <3>1, <3>2
  <2> QED BY <2>3, <2>4, <2>5, <2>6
<1>q. \* a step that no call underway sees
      ASSUME Underway' = Underway, left' = left, taken' = taken, paid' = paid
      PROVE  UnitsArePaid'
  BY <1>q, <1>p, <1>g
<1> USE <1>t DEF Go
<1>1. CASE Tick \/ ResetRepository \/ ResetMetrics \/ UNCHANGED vars
  BY <1>1, <1>q DEF Tick, ResetRepository, ResetMetrics, vars, call_vars, history, Underway
<1>2. ASSUME NEW t \in Threads,
             \/ \E r \in Request : Begin(t, r)
             \/ Reuse(t) \/ NoReuse(t) \/ PoolRejects(t) \/ CacheResult(t) \/ RecordMetrics(t)
      PROVE  UnitsArePaid'
  BY <1>2, <1>q DEF Begin, Reuse, NoReuse, PoolRejects, CacheResult, RecordMetrics, history, Underway
<1>3. ASSUME NEW t \in Threads, NEW r \in Request, BeginShadow(t, r) PROVE UnitsArePaid'
  <2>1. /\ Underway' = Underway /\ t \notin Underway /\ taken' = taken /\ paid' = paid
        /\ \A u \in Threads \ {t} : left'[u] = left[u]
    BY <1>3 DEF BeginShadow, Underway, history
  <2>2. Sum' = Sum
    BY <2>1, <1>o
  <2> QED BY <2>1, <2>2, <1>p, <1>g
<1>4. ASSUME NEW t \in Threads, PoolGrants(t) PROVE UnitsArePaid'
  <2>1. /\ Underway' \ {t} = Underway \ {t} /\ t \notin Underway
        /\ \A u \in Threads \ {t} : left'[u] = left[u]
        /\ left'[t] = key[t].cost /\ taken' = taken /\ paid' = paid + key[t].cost
    BY <1>4 DEF PoolGrants, Underway
  <2>2. key[t].cost \in Nat
    BY TypeFacts
  <2>3. Sum' <= Sum + key[t].cost /\ Sum' \in Nat
    BY <2>1, <2>2, <1>o
  <2> HIDE DEF Sum
  <2> QED BY <2>1, <2>2, <2>3, <1>p, <1>g
<1>5. ASSUME NEW t \in Threads, Fail(t) PROVE UnitsArePaid'
  <2>1. /\ Underway' \ {t} = Underway \ {t} /\ left' = left /\ taken' = taken /\ paid' = paid
        /\ t \notin Underway'
    BY <1>5 DEF Fail, Underway, history
  <2>2. Sum' <= Sum /\ Sum' \in Nat
    BY <2>1, <1>o, <1>f
  <2> DEFINE after == Sum'
             before == Sum
  <2>3. after <= before /\ after \in Nat /\ before \in Nat /\ taken + before <= paid
    BY <2>2, <1>p
  <2>4. UnitsArePaid' <=> taken + after <= paid
    BY <2>1, <1>g
  <2> HIDE DEF before, after
  <2> QED BY <2>3, <2>4, <1>p
<1>6. ASSUME NEW t \in Threads, ConsumeUnit(t) PROVE UnitsArePaid'
  <2> DEFINE last == LastUnit(t, UnitAllowed(live, key[t].client, limit[t]))
  <2>1. /\ Underway' \ {t} = Underway \ {t} /\ t \in Underway
        /\ \A u \in Threads \ {t} : left'[u] = left[u]
        /\ taken' = taken + 1 /\ paid' = paid
    BY <1>6 DEF ConsumeUnit, Underway, Consumed
  <2>2. left[t] \in Nat /\ 1 <= left[t]
    BY <2>1, <1>f, TypeFacts DEF Underway, CallsAreSound
  <2>3. (t \in Underway') => left'[t] = left[t] - 1
    BY <1>6 DEF ConsumeUnit, Underway, Consumed
  <2> DEFINE rest == SumFunctionOnSet(left, Underway \ {t})
             mine == IF t \in Underway' THEN left'[t] ELSE 0
  <2>4. Sum = left[t] + rest /\ Sum' = mine + rest /\ rest \in Nat
    BY <2>1, <1>o
  <2>5. mine \in Nat /\ mine + 1 <= left[t]
    BY <2>2, <2>3
  <2>6. taken' = taken + 1 /\ paid' = paid
    BY <2>1
  <2> HIDE DEF Sum, rest, mine
  <2> QED BY <2>2, <2>4, <2>5, <2>6, <1>p, <1>g
<1>7. ASSUME NEW t \in Threads, ConsumeShadowUnit(t) PROVE UnitsArePaid'
  <2>1. /\ Underway' = Underway /\ t \notin Underway /\ taken' = taken /\ paid' = paid
        /\ \A u \in Threads \ {t} : left'[u] = left[u]
    BY <1>7 DEF ConsumeShadowUnit, Underway, history, Consumed
  <2>2. Sum' = Sum
    BY <2>1, <1>o
  <2> QED BY <2>1, <2>2, <1>p, <1>g
<1> QED
  BY <1>1, <1>2, <1>3, <1>4, <1>5, <1>6, <1>7 DEF Next, Call

-----------------------------------------------------------------------------
(***************************************************************************)
(* Answers: counted by the metrics, or in a call that will do so.          *)
(***************************************************************************)
Count(d, a) == IF a THEN d.allowed ELSE d.rejected
One(a, b) == IF a = b THEN 1 ELSE 0

LEMMA CountedAddsOne ==
  ASSUME NEW d \in Decisions, NEW a \in BOOLEAN, NEW b \in BOOLEAN
  PROVE  Count(d, b) \in Nat /\ Count(Counted(d, a), b) = Count(d, b) + One(a, b)
PROOF
<1>1. d.allowed \in Nat /\ d.rejected \in Nat
  BY DEF Decisions
<1> DEFINE c == Counted(d, a)
<1>2. /\ a => c.allowed = d.allowed + 1 /\ c.rejected = d.rejected
      /\ ~ a => c.allowed = d.allowed /\ c.rejected = d.rejected + 1
  BY DEF Counted, Decisions
<1>3. /\ Count(d, b) = IF b THEN d.allowed ELSE d.rejected
      /\ Count(c, b) = IF b THEN c.allowed ELSE c.rejected
  BY DEF Count
<1> HIDE DEF c
<1>4. CASE a = b
  <2>1. One(a, b) = 1
    BY <1>4 DEF One
  <2> QED BY <1>1, <1>2, <1>3, <1>4, <2>1 DEF c
<1>5. CASE a # b
  <2>1. One(a, b) = 0
    BY <1>5 DEF One
  <2>2. a <=> ~ b
    BY <1>5
  <2> QED BY <1>1, <1>2, <1>3, <2>1, <2>2 DEF c
<1> QED
  BY <1>4, <1>5

LEMMA CountingMeans ==
  EveryAnswerIsCounted <=> \A a \in BOOLEAN : Count(metrics, a) + Unrecorded(a) = Count(answers, a)
PROOF BY DEF EveryAnswerIsCounted, Count

LEMMA CountedInit == Init => EveryAnswerIsCounted
PROOF
<1> SUFFICES ASSUME Init PROVE EveryAnswerIsCounted
  OBVIOUS
<1>1. \A a : Waiting(a) = {}
  BY DEF Init, Waiting
<1>2. Unrecorded(TRUE) = 0 /\ Unrecorded(FALSE) = 0
  BY <1>1, UnrecordedIsNat, FS_EmptySet
<1>3. metrics.allowed = 0 /\ metrics.rejected = 0 /\ answers.allowed = 0 /\ answers.rejected = 0
  BY DEF Init, None
<1> DEFINE u == Unrecorded(TRUE)
           v == Unrecorded(FALSE)
<1>4. EveryAnswerIsCounted <=> metrics.allowed + u = answers.allowed /\ metrics.rejected + v = answers.rejected
  BY DEF EveryAnswerIsCounted
<1>5. u = 0 /\ v = 0
  BY <1>2
<1> HIDE DEF u, v
<1> QED
  BY <1>3, <1>4, <1>5

LEMMA CountedStep == TypeOK /\ EveryAnswerIsCounted /\ [Next]_vars => EveryAnswerIsCounted'
PROOF
<1> SUFFICES ASSUME TypeOK, EveryAnswerIsCounted, [Next]_vars, NEW b \in BOOLEAN
             PROVE  Count(metrics', b) + Unrecorded(b)' = Count(answers', b)
  BY CountingMeans DEF EveryAnswerIsCounted, Count
<1> DEFINE Goal == Count(metrics', b) + Unrecorded(b)' = Count(answers', b)
           m == Count(metrics, b)
           u == Unrecorded(b)
           n == Unrecorded(b)'
           a == Count(answers, b)
<1>t. /\ stage \in [Threads -> {"idle", "coalesce", "pool", "algorithm", "store", "record"}]
      /\ answer \in [Threads -> BOOLEAN]
      /\ metrics \in Decisions /\ answers \in Decisions
  BY DEF TypeOK
<1>w. u = Cardinality(Waiting(b)) /\ n = Cardinality(Waiting(b)') /\ IsFiniteSet(Waiting(b))
  BY UnrecordedIsNat DEF Unrecorded, Waiting
<1>i. m + u = a /\ m \in Nat /\ u \in Nat /\ a \in Nat
  BY CountingMeans, CountedAddsOne, UnrecordedIsNat, <1>t
<1>j. \* a call gives the answer d, and will record it
      ASSUME NEW d \in BOOLEAN, NEW t \in Threads, t \notin Waiting(b),
             Waiting(b)' = IF d = b THEN Waiting(b) \cup {t} ELSE Waiting(b),
             answers' = Counted(answers, d), metrics' = metrics
      PROVE  Goal
  <2>1. n = u + One(d, b)
    <3>1. CASE d = b
      <4>1. One(d, b) = 1 /\ Waiting(b)' = Waiting(b) \cup {t}
        BY <3>1, <1>j DEF One
      <4>2. Cardinality(Waiting(b) \cup {t}) = Cardinality(Waiting(b)) + 1
        BY <1>j, <1>w, FS_AddElement
      <4> QED BY <4>1, <4>2, <1>w
    <3>2. CASE d # b
      <4>1. One(d, b) = 0 /\ Waiting(b)' = Waiting(b)
        BY <3>2, <1>j DEF One
      <4>2. n = u
        BY <4>1, <1>w
      <4> QED BY <4>1, <4>2, <1>i
    <3> QED BY <3>1, <3>2
  <2>2. Count(answers', b) = a + One(d, b)
    BY <1>j, <1>t, CountedAddsOne
  <2>3. Count(metrics', b) = m /\ One(d, b) \in Nat
    BY <1>j DEF One
  <2> HIDE DEF m, u, n, a
  <2>4. Count(metrics', b) + n = Count(answers', b)
    BY <2>1, <2>2, <2>3, <1>i
  <2> QED BY <2>4 DEF n
<1>o. \* a step that changes nothing of it
      ASSUME Waiting(b)' = Waiting(b), answers' = answers, metrics' = metrics
      PROVE  Goal
  BY <1>o, <1>w, <1>i
<1> USE <1>t DEF Go
<1>1. CASE Tick \/ ResetRepository \/ UNCHANGED vars
  BY <1>1, <1>o DEF Tick, ResetRepository, vars, call_vars, history, Waiting
<1>2. CASE ResetMetrics
  <2>1. n = u
    BY <1>2, <1>w DEF ResetMetrics, call_vars, Waiting
  <2>2. Count(answers', b) = u
    BY <1>2 DEF ResetMetrics, Count
  <2>3. Count(metrics', b) = 0
    BY <1>2 DEF ResetMetrics, Count, None
  <2> QED BY <2>1, <2>2, <2>3, <1>i
<1>3. ASSUME NEW t \in Threads,
             \/ \E r \in Request : Begin(t, r) \/ BeginShadow(t, r)
             \/ NoReuse(t) \/ PoolGrants(t) \/ Fail(t) \/ ConsumeShadowUnit(t)
      PROVE  Goal
  <2>1. UNCHANGED <<answers, metrics>>
    BY <1>3 DEF Begin, BeginShadow, NoReuse, PoolGrants, Fail, ConsumeShadowUnit, history
  <2>2. /\ stage[t] \notin {"store", "record"} /\ stage'[t] \notin {"store", "record"}
        /\ \A v \in Threads \ {t} : stage'[v] = stage[v] /\ answer'[v] = answer[v]
    BY <1>3 DEF Begin, BeginShadow, NoReuse, PoolGrants, Fail, ConsumeShadowUnit
  <2>3. Waiting(b)' = Waiting(b)
    BY <2>2 DEF Waiting
  <2> QED BY <2>1, <2>3, <1>o
<1>4. \* where an answer is given
      ASSUME NEW t \in Threads, NEW d \in BOOLEAN, stage[t] \notin {"store", "record"},
             stage'[t] \in {"store", "record"}, answer'[t] = d,
             \A v \in Threads \ {t} : stage'[v] = stage[v] /\ answer'[v] = answer[v],
             answers' = Counted(answers, d), metrics' = metrics
      PROVE  Goal
  <2>1. t \notin Waiting(b)
    BY <1>4 DEF Waiting
  <2>2. Waiting(b)' = IF d = b THEN Waiting(b) \cup {t} ELSE Waiting(b)
    BY <1>4 DEF Waiting
  <2> QED BY <1>4, <1>j, <2>1, <2>2
<1>5. ASSUME NEW t \in Threads, Reuse(t) PROVE Goal
  <2> DEFINE d == cache[key[t]].result
  <2>1. d \in BOOLEAN
    BY <1>5 DEF Reuse, Coalescer!Hit, Coalescer!Usable, TypeOK, Coalescer!TypeOK, Coalescer!CoalescedResult
  <2>2. /\ stage[t] \notin {"store", "record"} /\ stage'[t] \in {"store", "record"} /\ answer'[t] = d
        /\ \A v \in Threads \ {t} : stage'[v] = stage[v] /\ answer'[v] = answer[v]
        /\ answers' = Counted(answers, d) /\ metrics' = metrics
    BY <1>5 DEF Reuse, Answers
  <2> HIDE DEF d
  <2> QED BY <2>1, <2>2, <1>4
<1>6. ASSUME NEW t \in Threads, PoolRejects(t) PROVE Goal
  <2>1. /\ stage[t] \notin {"store", "record"} /\ stage'[t] \in {"store", "record"} /\ answer'[t] = FALSE
        /\ \A v \in Threads \ {t} : stage'[v] = stage[v] /\ answer'[v] = answer[v]
        /\ answers' = Counted(answers, FALSE) /\ metrics' = metrics
    BY <1>6 DEF PoolRejects
  <2> QED BY <2>1, <1>4
<1>7. ASSUME NEW t \in Threads, ConsumeUnit(t) PROVE Goal
  <2> DEFINE d == UnitAllowed(live, key[t].client, limit[t])
  <2>1. d \in BOOLEAN
    BY DEF UnitAllowed
  <2>2. CASE LastUnit(t, d)
    <3>1. /\ stage[t] \notin {"store", "record"} /\ stage'[t] \in {"store", "record"} /\ answer'[t] = d
          /\ \A v \in Threads \ {t} : stage'[v] = stage[v] /\ answer'[v] = answer[v]
          /\ answers' = Counted(answers, d) /\ metrics' = metrics
      BY <1>7, <2>2 DEF ConsumeUnit, Answers
    <3> HIDE DEF d
    <3> QED BY <2>1, <3>1, <1>4
  <2>3. CASE ~ LastUnit(t, d)
    <3>1. /\ stage' = stage /\ answer' = answer /\ answers' = answers /\ metrics' = metrics
      BY <1>7, <2>3 DEF ConsumeUnit
    <3> QED BY <3>1, <1>o DEF Waiting
  <2> QED BY <2>2, <2>3
<1>8. ASSUME NEW t \in Threads, CacheResult(t) PROVE Goal
  <2>1. /\ stage[t] \in {"store", "record"} /\ stage'[t] \in {"store", "record"}
        /\ \A v \in Threads \ {t} : stage'[v] = stage[v]
        /\ answer' = answer /\ answers' = answers /\ metrics' = metrics
    BY <1>8 DEF CacheResult, history
  <2>2. Waiting(b)' = Waiting(b)
    BY <2>1 DEF Waiting
  <2> QED BY <2>1, <2>2, <1>o
<1>9. ASSUME NEW t \in Threads, RecordMetrics(t) PROVE Goal
  <2> DEFINE d == answer[t]
  <2>1. /\ d \in BOOLEAN /\ answers' = answers /\ metrics' = Counted(metrics, d)
        /\ stage[t] = "record" /\ stage'[t] = "idle" /\ answer' = answer
        /\ \A v \in Threads \ {t} : stage'[v] = stage[v]
    BY <1>9 DEF RecordMetrics, history
  <2>2. /\ Waiting(b)' = Waiting(b) \ {t}
        /\ t \in Waiting(b) <=> d = b
    BY <2>1 DEF Waiting
  <2>3. u = n + One(d, b) /\ n \in Nat
    <3>1. Cardinality(Waiting(b) \ {t}) = IF t \in Waiting(b) THEN u - 1 ELSE u
      BY <1>w, FS_RemoveElement
    <3>2. n = IF t \in Waiting(b) THEN u - 1 ELSE u
      BY <3>1, <2>2, <1>w
    <3>3. IsFiniteSet(Waiting(b)')
      BY <2>2, <1>w, FS_RemoveElement
    <3>4. n \in Nat
      BY <3>3, <1>w, FS_CardinalityType
    <3> HIDE DEF u, n, d
    <3> QED BY <3>2, <3>4, <2>2, <1>i DEF One
  <2>4. Count(metrics', b) = m + One(d, b) /\ One(d, b) \in Nat
    BY <2>1, CountedAddsOne DEF One
  <2>5. Count(answers', b) = a
    BY <2>1
  <2> HIDE DEF m, u, n, a, d
  <2>6. Count(metrics', b) + n = Count(answers', b)
    BY <2>3, <2>4, <2>5, <1>i
  <2> QED BY <2>6 DEF n
<1> QED
  BY <1>1, <1>2, <1>3, <1>5, <1>6, <1>7, <1>8, <1>9 DEF Next, Call

-----------------------------------------------------------------------------
(***************************************************************************)
(* Admissions: what the calls underway and the cached results may still    *)
(* let in is paid for by the units consumed.                               *)
(***************************************************************************)
\* How many more requests r the results stored for it may let in, and their units.
Slack(r) == (MaxCoalesce - 1) * stored[r][TRUE] - reused[r][TRUE]
ToReuse == [r \in Request |-> Slack(r) * r.cost]

\* The units a call may still let in: in the algorithm, those it has consumed already,
\* each of them max_coalesce times; before its result is stored, those of the others.
ToAnswer ==
  [t \in Threads |->
     IF stage[t] = "algorithm" /\ ~ shadow[t] THEN MaxCoalesce * (key[t].cost - left[t])
     ELSE IF stage[t] = "store" /\ answer[t] THEN (MaxCoalesce - 1) * key[t].cost
     ELSE 0]

Reusable == SumFunctionOnSet(ToReuse, Request)
Answerable == SumFunctionOnSet(ToAnswer, Threads)

\* All that has been let in and may still be without another unit.
Stretch == admitted + Reusable + Answerable
StretchBounded == Stretch <= MaxCoalesce * taken

\* The one step that adds to it.
UnitGranted(t) == ConsumeUnit(t) /\ UnitAllowed(live, key[t].client, limit[t])

LEMMA ProductIsNat == \A x, y \in Nat : x * y \in Nat
PROOF BY SMT

LEMMA ToReuseIsNat ==
  TypeOK /\ CoalescerInv =>
    /\ \A q \in Request : Slack(q) \in Nat /\ ToReuse[q] \in Nat
    /\ Reusable \in Nat
PROOF
<1> SUFFICES ASSUME TypeOK, CoalescerInv
             PROVE  /\ \A q \in Request : Slack(q) \in Nat /\ ToReuse[q] \in Nat
                    /\ Reusable \in Nat
  OBVIOUS
<1>1. ASSUME NEW r \in Request PROVE Slack(r) \in Nat /\ ToReuse[r] \in Nat
  <2> DEFINE s == stored[r][TRUE]
             u == reused[r][TRUE]
             m == MaxCoalesce - 1
  <2>1. CP!TypeOK /\ CP!ReuseIsBacked
    BY SameInvariants DEF CoalescerInv
  <2>2. u <= m * s
    BY <2>1, CoalescerAssumed, CP!ReuseWithinStored
  <2>3. s \in Nat /\ u \in Nat
    <3>1. stored[r] \in [BOOLEAN -> Nat] /\ reused[r] \in [BOOLEAN -> Nat]
      BY DEF CoalescerInv, Coalescer!TypeOK, Coalescer!Tally
    <3> QED BY <3>1
  <2>4. m \in Nat
    BY ServiceAssumption
  <2>5. Slack(r) = m * s - u
    BY DEF Slack
  <2> HIDE DEF s, u, m
  <2>6. Slack(r) \in Nat
    BY <2>2, <2>3, <2>4, <2>5, ProductIsNat
  <2>7. ToReuse[r] = Slack(r) * r.cost /\ r.cost \in Nat
    BY RequestFacts DEF ToReuse
  <2> QED BY <2>6, <2>7, ProductIsNat
<1> QED
  BY <1>1, RequestIsFinite, SumIsNat DEF Reusable

LEMMA ToAnswerIsNat ==
  TypeOK /\ CallsAreSound => (\A u \in Threads : ToAnswer[u] \in Nat) /\ Answerable \in Nat
PROOF
<1> SUFFICES ASSUME TypeOK, CallsAreSound
             PROVE  (\A u \in Threads : ToAnswer[u] \in Nat) /\ Answerable \in Nat
  OBVIOUS
<1>1. ASSUME NEW t \in Threads PROVE ToAnswer[t] \in Nat
  <2>1. MaxCoalesce \in Nat /\ MaxCoalesce - 1 \in Nat /\ key[t].cost \in Nat
    BY TypeFacts, ServiceAssumption
  <2>2. CASE stage[t] = "algorithm" /\ ~ shadow[t]
    <3>1. key[t].cost - left[t] \in Nat
      BY <2>1, <2>2 DEF CallsAreSound
    <3> QED BY <2>1, <2>2, <3>1, ProductIsNat DEF ToAnswer
  <2>3. CASE stage[t] = "store" /\ answer[t]
    BY <2>1, <2>3, ProductIsNat DEF ToAnswer
  <2>4. CASE ~ (stage[t] = "algorithm" /\ ~ shadow[t]) /\ ~ (stage[t] = "store" /\ answer[t])
    BY <2>4 DEF ToAnswer
  <2> QED BY <2>2, <2>3, <2>4
<1> QED
  BY <1>1, ServiceAssumption, SumIsNat DEF Answerable

LEMMA StretchInit == Init => StretchBounded
PROOF
<1> SUFFICES ASSUME Init PROVE StretchBounded
  OBVIOUS
<1>1. \A t \in Threads : ToAnswer[t] = 0
  BY DEF Init, ToAnswer
<1>2. ASSUME NEW r \in Request PROVE ToReuse[r] = 0
  <2>1. stored[r][TRUE] = 0 /\ reused[r][TRUE] = 0
    BY DEF Init, Coalescer!Init
  <2>2. Slack(r) = 0
    <3> DEFINE s == stored[r][TRUE]
               u == reused[r][TRUE]
    <3>1. s = 0 /\ u = 0 /\ Slack(r) = (MaxCoalesce - 1) * s - u
      BY <2>1 DEF Slack
    <3> HIDE DEF s, u
    <3> QED BY <3>1, ServiceAssumption
  <2> QED BY <2>2, RequestFacts DEF ToReuse
<1>3. Reusable = 0 /\ Answerable = 0
  BY <1>1, <1>2, ZeroSum, RequestIsFinite, ServiceAssumption DEF Reusable, Answerable
<1>4. admitted = 0 /\ taken = 0
  BY DEF Init
<1> QED
  BY <1>3, <1>4, ServiceAssumption DEF StretchBounded, Stretch

\* A step that touches the results of one request only changes its term only.
LEMMA RequestTakesItsShare ==
  ASSUME TypeOK, CoalescerInv, TypeOK', CoalescerInv', NEW r \in Request,
         \A q \in Request \ {r} : stored'[q] = stored[q] /\ reused'[q] = reused[q]
  PROVE  /\ Reusable' - Slack(r)' * r.cost = Reusable - Slack(r) * r.cost
         /\ Slack(r) \in Nat /\ Slack(r)' \in Nat
PROOF
<1>1. /\ \A q \in Request : ToReuse[q] \in Int /\ Slack(q) \in Nat
      /\ \A q \in Request : ToReuse'[q] \in Int /\ Slack(q)' \in Nat
  <2>1. (TypeOK /\ CoalescerInv =>
          /\ \A q \in Request : Slack(q) \in Nat /\ ToReuse[q] \in Nat
          /\ Reusable \in Nat)'
    BY ToReuseIsNat, PTL
  <2> QED BY <2>1, ToReuseIsNat
<1>2. \A q \in Request \ {r} : ToReuse[q] = ToReuse'[q]
  BY DEF ToReuse, Slack
<1>3. SumFunctionOnSet(ToReuse', Request) - ToReuse'[r] = SumFunctionOnSet(ToReuse, Request) - ToReuse[r]
  BY <1>1, <1>2, RequestIsFinite, SumOneChanged
<1>4. ToReuse[r] = Slack(r) * r.cost /\ ToReuse'[r] = Slack(r)' * r.cost
  BY DEF ToReuse
<1> QED
  BY <1>1, <1>3, <1>4 DEF Reusable

\* A step of call t changes its term only.
LEMMA CallTakesItsShare ==
  ASSUME TypeOK, CallsAreSound, TypeOK', CallsAreSound', NEW t \in Threads, Call(t)
  PROVE  /\ Answerable' - ToAnswer'[t] = Answerable - ToAnswer[t]
         /\ Answerable' \in Nat
PROOF
<1>1. /\ \A u \in Threads : ToAnswer[u] \in Int
      /\ \A u \in Threads : ToAnswer'[u] \in Int
      /\ Answerable' \in Nat
  <2>1. (TypeOK /\ CallsAreSound => (\A u \in Threads : ToAnswer[u] \in Nat) /\ Answerable \in Nat)'
    BY ToAnswerIsNat, PTL
  <2> QED BY <2>1, ToAnswerIsNat
<1>2. \A u \in Threads \ {t} : ToAnswer[u] = ToAnswer'[u]
  BY OtherCallsStay DEF ToAnswer
<1> QED
  BY <1>1, <1>2, SumOneChanged, ServiceAssumption DEF Answerable

\* A unit that the algorithm allows may let in as much as max_coalesce more; no other
\* step makes more of what there is.
LEMMA StretchGrows ==
  ASSUME TypeOK, CallsAreSound, CoalescerInv, TypeOK', CallsAreSound', CoalescerInv', [Next]_vars
  PROVE  \/ Stretch' <= Stretch
         \/ \E t \in Threads : UnitGranted(t) /\ Stretch' <= Stretch + MaxCoalesce
PROOF
<1> DEFINE m == MaxCoalesce
           R == Reusable
           A == Answerable
           Goal == \/ Stretch' <= Stretch
                   \/ \E t \in Threads : UnitGranted(t) /\ Stretch' <= Stretch + MaxCoalesce
<1>m. m \in Nat /\ m - 1 \in Nat /\ 1 <= m
  BY ServiceAssumption
<1>t. /\ stage \in [Threads -> {"idle", "coalesce", "pool", "algorithm", "store", "record"}]
      /\ shadow \in [Threads -> BOOLEAN] /\ answer \in [Threads -> BOOLEAN]
      /\ left \in [Threads -> 0 .. Max(Costs)]
      /\ taken \in Nat /\ admitted \in Nat
  BY DEF TypeOK
<1>n. /\ R \in Nat /\ A \in Nat /\ \A u \in Threads : ToAnswer[u] \in Nat
      /\ Stretch = admitted + R + A /\ Stretch \in Nat
  BY <1>t, ToReuseIsNat, ToAnswerIsNat DEF Stretch
<1>u. UNCHANGED <<stored, reused>> => R' = R
  BY DEF Reusable, ToReuse, Slack
<1>p. /\ R' \in Nat /\ A' \in Nat /\ taken' \in Nat /\ admitted' \in Nat
      /\ \A u \in Threads : ToAnswer'[u] \in Nat
  <2>1. (TypeOK /\ CoalescerInv =>
          /\ \A q \in Request : Slack(q) \in Nat /\ ToReuse[q] \in Nat
          /\ Reusable \in Nat)'
    BY ToReuseIsNat, PTL
  <2>2. (TypeOK /\ CallsAreSound => (\A u \in Threads : ToAnswer[u] \in Nat) /\ Answerable \in Nat)'
    BY ToAnswerIsNat, PTL
  <2> QED BY <2>1, <2>2 DEF TypeOK
<1>b. \* what a call's step adds for itself
      ASSUME NEW t \in Threads, Call(t), NEW e \in Nat,
             admitted' + R' + ToAnswer'[t] <= admitted + R + ToAnswer[t] + e
      PROVE  Stretch' <= Stretch + e
  <2> DEFINE a == ToAnswer[t]
             b == ToAnswer'[t]
             B == A'
             S == R'
             before == admitted
             after == admitted'
  <2>1. B - b = A - a /\ B \in Nat /\ a \in Nat /\ b \in Nat /\ A \in Nat
    BY <1>b, <1>n, <1>p, CallTakesItsShare
  <2>2. S \in Nat /\ R \in Nat /\ before \in Nat /\ after \in Nat
    BY <1>n, <1>p, <1>t
  <2>3. after + S + b <= before + R + a + e
    BY <1>b
  <2>4. Stretch = before + R + A /\ Stretch' = after + S + B
    BY DEF Stretch
  <2> HIDE DEF a, b, A, B, R, S, before, after
  <2> QED BY <1>b, <2>1, <2>2, <2>3, <2>4
<1>c. \* ... that adds nothing
      ASSUME NEW t \in Threads, Call(t), admitted' + R' + ToAnswer'[t] <= admitted + R + ToAnswer[t]
      PROVE  Goal
  <2> DEFINE x == admitted + R + ToAnswer[t]
  <2>1. x \in Nat
    BY <1>t, <1>n
  <2>2. admitted' + R' + ToAnswer'[t] <= x + 0
    <3>1. admitted' + R' + ToAnswer'[t] <= x
      BY <1>c
    <3> HIDE DEF x
    <3> QED BY <2>1, <3>1
  <2>3. Stretch' <= Stretch + 0
    BY <1>b, <1>c, <2>2
  <2> QED BY <2>3, <1>n
<1>z. \* a call that leaves with nothing to answer, and has let nobody in
      ASSUME NEW t \in Threads, Call(t), ToAnswer'[t] = 0,
             UNCHANGED <<stored, reused, admitted>>
      PROVE  Goal
  <2> DEFINE S == R'
             a == ToAnswer[t]
  <2>1. S = R /\ a \in Nat /\ R \in Nat
    BY <1>z, <1>u, <1>n
  <2>2. admitted + S + 0 <= admitted + R + a
    <3> HIDE DEF S, a, R
    <3> QED BY <2>1, <1>t
  <2> QED BY <1>c, <1>z, <2>1, <2>2
<1> USE <1>t DEF Go
<1>1. CASE Tick \/ ResetRepository \/ ResetMetrics \/ UNCHANGED vars
  <2>1. UNCHANGED <<stage, shadow, left, answer, key, stored, reused, admitted, taken>>
    BY <1>1 DEF Tick, Coalescer!Tick, ResetRepository, ResetMetrics, vars, call_vars, coalescer_vars, history
  <2>2. A' = A
    BY <2>1 DEF Answerable, ToAnswer
  <2>3. Stretch' = Stretch
    BY <2>1, <2>2, <1>u DEF Stretch
  <2> QED BY <2>3, <1>n
<1>2. ASSUME NEW t \in Threads,
             \/ \E r \in Request : Begin(t, r) \/ BeginShadow(t, r)
             \/ NoReuse(t) \/ PoolRejects(t) \/ Fail(t) \/ ConsumeShadowUnit(t) \/ RecordMetrics(t)
      PROVE  Goal
  <2>0. Call(t)
    BY <1>2 DEF Call
  <2>1. UNCHANGED <<stored, reused, admitted, taken>>
    BY <1>2 DEF Begin, BeginShadow, NoReuse, PoolRejects, Fail, ConsumeShadowUnit, RecordMetrics,
                Coalescer!Arrive, Coalescer!Miss, Coalescer!Abandon, coalescer_vars, history
  <2>2. stage'[t] # "store" /\ (stage'[t] = "algorithm" => shadow'[t])
    BY <1>2 DEF Begin, BeginShadow, NoReuse, PoolRejects, Fail, ConsumeShadowUnit, RecordMetrics
  <2>3. ToAnswer'[t] = 0
    BY <2>2 DEF ToAnswer
  <2> QED BY <2>0, <2>1, <2>3, <1>z
<1>3. ASSUME NEW t \in Threads, PoolGrants(t) PROVE Goal
  <2>1. UNCHANGED <<stored, reused, admitted, taken>>
    BY <1>3 DEF PoolGrants, coalescer_vars
  <2>2. stage'[t] = "algorithm" /\ left'[t] = key'[t].cost /\ key'[t].cost \in Nat
    BY <1>3, TypeFacts DEF PoolGrants, coalescer_vars
  <2>3. ToAnswer'[t] = 0
    <3>1. m * (key'[t].cost - left'[t]) = 0
      BY <2>2, <1>m
    <3> QED BY <2>2, <3>1 DEF ToAnswer
  <2> QED BY <1>3, <2>1, <2>3, <1>z DEF Call
<1>4. ASSUME NEW t \in Threads, Reuse(t), NEW k \in Request, key[t] = k PROVE Goal
  <2> DEFINE d == cache[k].result
             cost == k.cost
  <2>0. d \in BOOLEAN /\ cost \in Nat
    BY <1>4, RequestFacts
    DEF Reuse, Coalescer!Hit, Coalescer!Usable, TypeOK, Coalescer!TypeOK, Coalescer!CoalescedResult
  <2>1. reused' = [reused EXCEPT ![k][d] = @ + 1] /\ stored' = stored /\ taken' = taken
    BY <1>4 DEF Reuse, Coalescer!Hit
  <2>2. stage'[t] = "record" /\ admitted' = admitted + (IF d THEN cost ELSE 0)
    BY <1>4 DEF Reuse, Answers
  <2>3. ToAnswer'[t] = 0
    BY <2>2 DEF ToAnswer
  <2>4. /\ \A q \in Request \ {k} : stored'[q] = stored[q] /\ reused'[q] = reused[q]
        /\ reused[k] \in [BOOLEAN -> Nat] /\ stored[k] \in [BOOLEAN -> Nat]
        /\ reused'[k] = [reused[k] EXCEPT ![d] = @ + 1]
    BY <2>0, <2>1 DEF TypeOK, Coalescer!TypeOK, Coalescer!Tally
  <2>5. Slack(k)' = Slack(k) - (IF d THEN 1 ELSE 0)
    <3> DEFINE s == stored[k][TRUE]
               u == reused[k][TRUE]
               v == reused'[k][TRUE]
               x == (m - 1) * s
    <3>1. s \in Nat /\ u \in Nat /\ stored'[k][TRUE] = s
      BY <2>1, <2>4
    <3>2. v = u + (IF d THEN 1 ELSE 0)
      <4>1. CASE d = TRUE
        BY <2>4, <3>1, <4>1
      <4>2. CASE d # TRUE
        <5>1. v = u /\ ~ d
          BY <2>0, <2>4, <4>2
        <5> HIDE DEF u, v, d
        <5> QED BY <3>1, <5>1
      <4> QED BY <2>0, <4>1, <4>2
    <3>3. x \in Nat
      BY <3>1, <1>m, ProductIsNat
    <3>4. Slack(k) = x - u /\ Slack(k)' = x - v
      BY <3>1 DEF Slack
    <3> HIDE DEF x, u, v, d
    <3> QED BY <3>1, <3>2, <3>3, <3>4
  <2> DEFINE e == IF d THEN 1 ELSE 0
             p == Slack(k)
             q == Slack(k)'
             S == R'
             a == ToAnswer[t]
  <2>6. S - q * cost = R - p * cost /\ p \in Nat /\ q \in Nat /\ q = p - e
    BY <2>4, <2>5, RequestTakesItsShare
  <2>7. admitted' = admitted + e * cost /\ e \in Nat
    BY <2>0, <2>2
  <2>8. S \in Nat /\ R \in Nat /\ a \in Nat
    BY <1>n, <1>p
  <2>9. admitted' + S + 0 <= admitted + R + a
    <3> HIDE DEF e, p, q, S, a, R, d, cost
    <3> DEFINE i == p * cost
               j == q * cost
               l == e * cost
    <3>1. i \in Nat /\ j \in Nat /\ l \in Nat
      BY <2>0, <2>6, <2>7, ProductIsNat
    <3>2. (p - e) * cost = p * cost - e * cost
      BY <2>0, <2>6, <2>7
    <3>3. S - j = R - i /\ j = i - l /\ admitted' = admitted + l
      BY <2>6, <2>7, <3>2
    <3> HIDE DEF i, j, l
    <3> QED BY <2>8, <3>1, <3>3, <1>t
  <2> QED BY <1>4, <1>c, <2>3, <2>9 DEF Call
<1>5. ASSUME NEW t \in Threads, ConsumeUnit(t) PROVE Goal
  <2> DEFINE d == UnitAllowed(live, key[t].client, limit[t])
             cost == key[t].cost
             l == left[t]
             S == R'
             b == ToAnswer'[t]
             i == m * (cost - l)
             j == m * cost
             n == m * (l - 1)
  <2>0. d \in BOOLEAN /\ cost \in Nat /\ l \in Nat /\ 1 <= l /\ l <= cost
    BY <1>5, TypeFacts DEF UnitAllowed, ConsumeUnit, CallsAreSound
  <2>1. /\ UNCHANGED <<stored, reused, shadow, key>>
        /\ stage[t] = "algorithm" /\ ~ shadow[t]
    BY <1>5 DEF ConsumeUnit, Coalescer!Decide, coalescer_vars
  <2>2. ToAnswer[t] = i /\ S = R /\ R \in Nat
    BY <2>1, <1>u, <1>n DEF ToAnswer
  <2>3. i \in Nat /\ j \in Nat /\ n \in Nat /\ b \in Nat
    <3>1. cost - l \in Nat /\ l - 1 \in Nat
      BY <2>0
    <3> QED BY <2>0, <3>1, <1>m, <1>t, <1>p, ProductIsNat
  <2>4. i + n + m = j
    <3>2. m * (cost - l) + m * (l - 1) + m = m * cost
      <4> HIDE DEF m, cost, l
      <4> QED BY <2>0, <1>m
    <3> QED BY <3>2
  <2>5. CASE ~ LastUnit(t, d)
    <3>1. stage'[t] = "algorithm" /\ left'[t] = l - 1 /\ admitted' = admitted
      BY <1>5, <2>5 DEF ConsumeUnit, Consumed
    <3>2. b = m * (cost - (l - 1))
      BY <2>1, <3>1 DEF ToAnswer
    <3>3. b = i + m
      <4>1. m * (cost - (l - 1)) = m * (cost - l) + m
        <5> HIDE DEF m, cost, l
        <5> QED BY <2>0, <1>m
      <4> QED BY <3>2, <4>1
    <3>4. admitted' + S + b <= admitted + R + i + m
      <4> HIDE DEF b, i, S, R, m
      <4> QED BY <2>2, <2>3, <2>4, <3>1, <3>3, <1>m, <1>t
    <3>5. Stretch' <= Stretch + m
      BY <1>5, <1>b, <1>m, <2>2, <3>4 DEF Call
    <3> QED BY <1>5, <2>5, <3>5 DEF UnitGranted, LastUnit
  <2>6. CASE LastUnit(t, d) /\ d
    <3>1. stage'[t] = "store" /\ answer'[t] = d /\ admitted' = admitted + cost /\ l = 1
      BY <1>5, <2>6 DEF ConsumeUnit, Answers, LastUnit
    <3>2. b = (m - 1) * cost
      BY <2>1, <2>6, <3>1 DEF ToAnswer
    <3>3. b + cost = j /\ n = 0
      <4>1. (m - 1) * cost + cost = m * cost /\ m * (l - 1) = 0
        <5> HIDE DEF m, cost, l
        <5> QED BY <2>0, <3>1, <1>m
      <4> QED BY <3>2, <4>1
    <3>4. admitted' + S + b <= admitted + R + i + m
      <4> HIDE DEF b, i, j, n, S, R, m, cost
      <4> QED BY <2>0, <2>2, <2>3, <2>4, <3>1, <3>3, <1>m, <1>t
    <3>5. Stretch' <= Stretch + m
      BY <1>5, <1>b, <1>m, <2>2, <3>4 DEF Call
    <3> QED BY <1>5, <2>6, <3>5 DEF UnitGranted
  <2>7. CASE LastUnit(t, d) /\ ~ d
    <3>1. stage'[t] = "store" /\ answer'[t] = d /\ admitted' = admitted
      BY <1>5, <2>7, <1>t DEF ConsumeUnit, Answers
    <3>2. b = 0
      BY <2>7, <3>1 DEF ToAnswer
    <3>4. admitted' + S + b <= admitted + R + i
      <4> HIDE DEF b, i, S, R, m
      <4> QED BY <2>2, <2>3, <2>4, <3>1, <3>2, <1>m, <1>t
    <3> QED BY <1>5, <1>c, <2>2, <3>4 DEF Call
  <2> QED BY <2>5, <2>6, <2>7
<1>6. ASSUME NEW t \in Threads, CacheResult(t), NEW k \in Request, key[t] = k PROVE Goal
  <2> DEFINE d == answer[t]
             cost == k.cost
  <2>0. d \in BOOLEAN /\ cost \in Nat /\ checked[t] = d
    BY <1>6, RequestFacts DEF CacheResult, CallsAreSound
  <2>1. stored' = [stored EXCEPT ![k][d] = @ + 1] /\ UNCHANGED <<reused, admitted, answer>>
    BY <1>6, <2>0 DEF CacheResult, Coalescer!Store, history
  <2>2. stage[t] = "store" /\ stage'[t] = "record"
    BY <1>6 DEF CacheResult
  <2>3. ToAnswer'[t] = 0 /\ ToAnswer[t] = IF d THEN (m - 1) * cost ELSE 0
    BY <1>6, <2>2 DEF ToAnswer
  <2>4. /\ \A q \in Request \ {k} : stored'[q] = stored[q] /\ reused'[q] = reused[q]
        /\ reused[k] \in [BOOLEAN -> Nat] /\ stored[k] \in [BOOLEAN -> Nat]
        /\ stored'[k] = [stored[k] EXCEPT ![d] = @ + 1]
    BY <2>0, <2>1 DEF TypeOK, Coalescer!TypeOK, Coalescer!Tally
  <2>5. Slack(k)' = Slack(k) + (IF d THEN m - 1 ELSE 0)
    <3> DEFINE s == stored[k][TRUE]
               u == reused[k][TRUE]
               v == stored'[k][TRUE]
               x == (m - 1) * s
               y == (m - 1) * v
    <3>1. s \in Nat /\ u \in Nat /\ reused'[k][TRUE] = u
      BY <2>1, <2>4
    <3>2. v = IF d THEN s + 1 ELSE s
      BY <2>0, <2>4, <3>1
    <3>3. x \in Nat
      BY <3>1, <1>m, ProductIsNat
    <3>4. Slack(k) = x - u /\ Slack(k)' = y - u
      BY <3>1 DEF Slack
    <3>5. y = x + (IF d THEN m - 1 ELSE 0)
      <4>1. (m - 1) * (s + 1) = (m - 1) * s + (m - 1)
        <5> HIDE DEF m, s
        <5> QED BY <3>1, <1>m
      <4>2. CASE d
        <5>1. y = (m - 1) * (s + 1)
          BY <3>2, <4>2
        <5> QED BY <4>1, <4>2, <5>1
      <4>3. CASE ~ d
        <5>1. y = x
          BY <3>2, <4>3
        <5> HIDE DEF x, y
        <5> QED BY <3>3, <4>3, <5>1
      <4> QED BY <4>2, <4>3
    <3> HIDE DEF x, y, u, v, d, m
    <3> QED BY <3>1, <3>3, <3>4, <3>5, <1>m
  <2> DEFINE e == IF d THEN m - 1 ELSE 0
             p == Slack(k)
             q == Slack(k)'
             S == R'
             a == ToAnswer[t]
  <2>6. S - q * cost = R - p * cost /\ p \in Nat /\ q \in Nat /\ q = p + e /\ e \in Nat
    BY <2>4, <2>5, <1>m, RequestTakesItsShare
  <2>7. admitted' = admitted /\ a = e * cost
    BY <2>0, <2>1, <2>3
  <2>8. S \in Nat /\ R \in Nat /\ a \in Nat
    BY <1>n, <1>p
  <2>9. admitted' + S + 0 <= admitted + R + a
    <3> HIDE DEF e, p, q, S, a, R, d, cost
    <3> DEFINE i == p * cost
               j == q * cost
    <3>1. i \in Nat /\ j \in Nat
      BY <2>0, <2>6, ProductIsNat
    <3>2. (p + e) * cost = p * cost + e * cost
      BY <2>0, <2>6
    <3>3. S - j = R - i /\ j = i + a
      BY <2>6, <2>7, <3>2
    <3> HIDE DEF i, j
    <3> QED BY <2>7, <2>8, <3>1, <3>3, <1>t
  <2> QED BY <1>6, <1>c, <2>3, <2>9 DEF Call
<1>7. \A t \in Threads : key[t] \in Request
  BY TypeFacts
<1> QED
  BY <1>1, <1>2, <1>3, <1>4, <1>5, <1>6, <1>7 DEF Next, Call

LEMMA StretchIsNat == TypeOK /\ CallsAreSound /\ CoalescerInv => Stretch \in Nat
  BY ToReuseIsNat, ToAnswerIsNat DEF Stretch, TypeOK

LEMMA StretchStep ==
  ASSUME TypeOK, CallsAreSound, CoalescerInv, TypeOK', CallsAreSound', CoalescerInv',
         StretchBounded, [Next]_vars
  PROVE  StretchBounded'
PROOF
<1> DEFINE m == MaxCoalesce
           x == m * taken
           y == m * taken'
           after == Stretch'
<1>1. /\ m \in Nat /\ taken \in Nat /\ taken' \in Nat
      /\ x \in Nat /\ y \in Nat
  BY ServiceAssumption, ProductIsNat DEF TypeOK
<1>2. Stretch \in Nat /\ after \in Nat /\ Stretch <= x
  <2>1. (TypeOK /\ CallsAreSound /\ CoalescerInv => Stretch \in Nat)'
    BY StretchIsNat, PTL
  <2> QED BY <2>1, StretchIsNat DEF StretchBounded
<1>3. taken' \in {taken, taken + 1}
  BY DEF Next, Call, Tick, ResetRepository, ResetMetrics, Begin, BeginShadow, Reuse, NoReuse, PoolGrants,
         PoolRejects, Fail, ConsumeUnit, ConsumeShadowUnit, CacheResult, RecordMetrics, vars, history
<1>4. y >= x /\ (taken' = taken + 1 => y = x + m)
  <2>1. m * (taken + 1) = m * taken + m
    <3> HIDE DEF m
    <3> QED BY <1>1
  <2>2. CASE taken' = taken
    <3>1. y = x /\ taken' # taken + 1
      BY <1>1, <2>2
    <3> HIDE DEF x, y
    <3> QED BY <1>1, <3>1
  <2>3. CASE taken' = taken + 1
    <3>1. y = x + m
      BY <2>1, <2>3
    <3> HIDE DEF x, y, m
    <3> QED BY <1>1, <3>1
  <2> QED BY <1>3, <2>2, <2>3
<1>5. after <= y
  <2>1. CASE after <= Stretch
    <3> HIDE DEF x, y, after
    <3> QED BY <1>1, <1>2, <1>4, <2>1
  <2>2. CASE after <= Stretch + m /\ taken' = taken + 1
    <3> HIDE DEF x, y, after, m
    <3> QED BY <1>1, <1>2, <1>4, <2>2
  <2> QED BY <2>1, <2>2, StretchGrows DEF UnitGranted, ConsumeUnit
<1> QED BY <1>5 DEF StretchBounded

-----------------------------------------------------------------------------
(***************************************************************************)
(* The inductive invariant and the theorems.                               *)
(***************************************************************************)
IInv ==
  /\ TypeOK
  /\ CoalescerInv
  /\ CallsAreSound
  /\ UnitsArePaid
  /\ EveryAnswerIsCounted
  /\ StretchBounded

LEMMA Invariance == Spec => []IInv
PROOF
<1>1. Init => IInv
  BY TypeInit, CoalescerInit, CallsInit, PaidInit, CountedInit, StretchInit DEF IInv, Init
<1>2. IInv /\ [Next]_vars => IInv'
  <2> SUFFICES ASSUME IInv, [Next]_vars PROVE IInv'
    OBVIOUS
  <2>1. TypeOK' /\ CoalescerInv' /\ CallsAreSound'
    BY TypeStep, CoalescerStep, CallsStep DEF IInv
  <2>2. UnitsArePaid' /\ EveryAnswerIsCounted'
    BY <2>1, PaidStep, CountedStep DEF IInv
  <2>3. StretchBounded'
    BY <2>1, StretchStep DEF IInv
  <2> QED BY <2>1, <2>2, <2>3 DEF IInv
<1> QED
  BY <1>1, <1>2, PTL DEF Spec

\* The type invariant of the service: the pool is never overdrawn, a call's units stay
\* within the largest cost.
THEOREM TypeCorrect == Spec => []TypeOK
PROOF BY Invariance, PTL DEF IInv

\* check_rate_limit charges the pool before it consumes: no interleaving of calls,
\* rejections and errors lets the algorithm consume a unit that was not paid for.
THEOREM UnitsPaidFirst == Spec => []UnitsArePaid
PROOF BY Invariance, PTL DEF IInv

\* Coalescing stretches a limit by max_coalesce at most, whatever the costs, the threads,
\* the windows, the pool and the resets.
THEOREM StretchIsBounded == Spec => []AdmissionsAreBacked
PROOF
<1>1. IInv => AdmissionsAreBacked
  <2> SUFFICES ASSUME IInv PROVE AdmissionsAreBacked
    OBVIOUS
  <2>1. Reusable \in Nat /\ Answerable \in Nat
    BY ToReuseIsNat, ToAnswerIsNat DEF IInv
  <2>2. admitted \in Nat /\ MaxCoalesce * taken \in Nat
    BY ServiceAssumption, ProductIsNat DEF IInv, TypeOK
  <2>3. admitted + Reusable + Answerable <= MaxCoalesce * taken
    BY DEF IInv, StretchBounded, Stretch
  <2> DEFINE x == MaxCoalesce * taken
             r == Reusable
             a == Answerable
  <2>4. r \in Nat /\ a \in Nat /\ x \in Nat /\ admitted + r + a <= x
    BY <2>1, <2>2, <2>3
  <2>5. admitted <= x
    <3> HIDE DEF x, r, a
    <3> QED BY <2>2, <2>4
  <2> QED BY <2>5 DEF AdmissionsAreBacked
<1> QED
  BY <1>1, Invariance, PTL

\* RateLimiterMetrics counts every live answer once, however resets fall between an
\* answer and its record.
THEOREM AnswersAreCounted == Spec => []EveryAnswerIsCounted
PROOF BY Invariance, PTL DEF IInv

\* No step of a shadow call touches the coalescer's cache and statistics, the pool, the live
\* counters or the metrics.
THEOREM ShadowIsInvisible == Spec => ShadowLeavesNoTrace
PROOF
<1> DEFINE Untouched ==
      \A t \in Threads :
        shadow[t] /\ stage[t] = "algorithm" /\ (left'[t] # left[t] \/ stage'[t] # stage[t]) =>
          UNCHANGED <<cache, stats, pool, live, metrics>>
<1>1. TypeOK /\ [Next]_vars => [Untouched]_vars
  <2> SUFFICES ASSUME TypeOK, Next, NEW t \in Threads, shadow[t], stage[t] = "algorithm",
                      left'[t] # left[t] \/ stage'[t] # stage[t]
               PROVE  UNCHANGED <<cache, stats, pool, live, metrics>>
    OBVIOUS
  <2>1. Call(t)
    <3>1. CASE Tick \/ ResetRepository \/ ResetMetrics
      BY <3>1 DEF Tick, ResetRepository, ResetMetrics, call_vars
    <3>2. ASSUME NEW u \in Threads, Call(u) PROVE u = t
      BY <3>2, OtherCallsStay
    <3> QED BY <3>1, <3>2 DEF Next
  <2>2. Fail(t) \/ ConsumeShadowUnit(t)
    BY <2>1 DEF Call, Go, Begin, BeginShadow, Reuse, NoReuse, PoolGrants, PoolRejects, ConsumeUnit,
                CacheResult, RecordMetrics
  <2> QED BY <2>2 DEF Fail, ConsumeShadowUnit, coalescer_vars
<1> QED
  BY <1>1, TypeCorrect, PTL DEF Spec, ShadowLeavesNoTrace

-----------------------------------------------------------------------------
(***************************************************************************)
(* From end to end: what all calls together let in, over any stretch of    *)
(* time from the start.  Every window of the pool but the present one has  *)
(* granted its limit at most, and windows of the pool lie a window apart.  *)
(***************************************************************************)
AdmissionsWithinThePool ==
  admitted <= MaxCoalesce * (PoolLimit * (now \div PoolWindow + 1))

\* After k whole windows of the pool, the present one began no earlier than their end.
PoolPays ==
  /\ pool.last_reset <= now
  /\ \/ pool.last_reset = -PoolWindow /\ paid = 0
     \/ \E k \in Nat : k * PoolWindow <= pool.last_reset /\ paid <= k * PoolLimit + pool.used

LEMMA PoolFacts ==
  ASSUME TypeOK
  PROVE  /\ pool.total_limit = PoolLimit /\ pool.used \in Nat /\ pool.used <= PoolLimit
         /\ pool.last_reset \in Int /\ -PoolWindow <= pool.last_reset
         /\ now \in Nat /\ paid \in Nat
         /\ PoolLimit \in Nat /\ PoolWindow \in Nat /\ 1 <= PoolWindow
  <1>1. PoolLimit \in Nat /\ PoolWindow \in Nat /\ 1 <= PoolWindow /\ MaxTime \in Nat
    BY ServiceAssumption
  <1>2. now \in Nat /\ paid \in Nat
    BY TypeFacts DEF TypeOK
  <1>3. pool \in PoolType
    BY DEF TypeOK, PoolType
  <1> QED
    BY <1>1, <1>2, <1>3 DEF PoolType

LEMMA OneMore ==
  ASSUME NEW k \in Nat, NEW n \in Nat
  PROVE  (k + 1) * n = k * n + n /\ k * n \in Nat
  BY SMT

\* A check of the pool, granted or not, is paid by the window it falls into.
LEMMA CheckIsPaid ==
  ASSUME TypeOK, PoolPays, NEW c \in Nat,
         pool' = AfterCheck(pool, PoolWindow, c, now), now' = now,
         paid' = paid + (IF Grants(pool, PoolWindow, c, now) THEN c ELSE 0)
  PROVE  PoolPays'
  <1> DEFINE r == Renewed(pool, PoolWindow, now)
             units == IF Grants(pool, PoolWindow, c, now) THEN c ELSE 0
             due == Due(pool, PoolWindow, now)
  <1>1. /\ pool \in PoolType
        /\ r.used = (IF due THEN 0 ELSE pool.used)
        /\ r.last_reset = (IF due THEN now ELSE pool.last_reset)
        /\ r.used \in Nat
    <2>1. pool \in PoolType
      BY DEF TypeOK, PoolType
    <2> QED
      BY <2>1, PoolFacts DEF Renewed, PoolType
  <1>2. pool'.used = r.used + units /\ pool'.last_reset = r.last_reset /\ units \in Nat
    <2>0. r = [total_limit |-> r.total_limit, used |-> r.used, last_reset |-> r.last_reset]
      BY <1>1 DEF Renewed, PoolType
    <2>1. CASE HasRoom(r, c)
      <3>1. pool' = [r EXCEPT !.used = r.used + c] /\ units = c
        BY <2>1 DEF AfterCheck, Grants
      <3> HIDE DEF r, units
      <3> QED BY <3>1, <2>0
    <2>2. CASE ~ HasRoom(r, c)
      <3>1. pool' = r /\ units = 0
        BY <2>2 DEF AfterCheck, Grants
      <3> HIDE DEF r, units
      <3> QED BY <3>1, <1>1
    <2> QED BY <2>1, <2>2
  <1>3. paid' = paid + units
    OBVIOUS
  <1>4. due <=> now - pool.last_reset >= PoolWindow
    BY DEF Due
  <1> HIDE DEF r, units, due
  <1>5. pool'.last_reset <= now'
    BY <1>1, <1>2, PoolFacts DEF PoolPays
  <1>6. CASE pool.last_reset = -PoolWindow /\ paid = 0
    <2>1. due
      BY <1>4, <1>6, PoolFacts
    <2>2. 0 * PoolWindow = 0 /\ 0 * PoolLimit = 0
      BY PoolFacts
    <2>3. 0 * PoolWindow <= pool'.last_reset /\ paid' <= 0 * PoolLimit + pool'.used
      BY <1>1, <1>2, <1>3, <1>6, <2>1, <2>2, PoolFacts
    <2> QED
      BY <1>5, <2>3 DEF PoolPays
  <1>7. ASSUME NEW k \in Nat, k * PoolWindow <= pool.last_reset, paid <= k * PoolLimit + pool.used
        PROVE  PoolPays'
    <2>1. /\ k * PoolWindow \in Nat /\ k * PoolLimit \in Nat
          /\ (k + 1) * PoolWindow = k * PoolWindow + PoolWindow
          /\ (k + 1) * PoolLimit = k * PoolLimit + PoolLimit
          /\ k + 1 \in Nat
      BY OneMore, PoolFacts
    <2> DEFINE x == k * PoolWindow
               y == k * PoolLimit
    <2>2. x \in Nat /\ y \in Nat /\ x <= pool.last_reset /\ paid <= y + pool.used
      BY <1>7, <2>1
    <2>3. CASE due
      <3> HIDE DEF x, y
      <3>1. x + PoolWindow <= pool'.last_reset /\ paid' <= (y + PoolLimit) + pool'.used
        BY <1>1, <1>2, <1>3, <1>4, <2>2, <2>3, PoolFacts
      <3>2. (k + 1) * PoolWindow <= pool'.last_reset /\ paid' <= (k + 1) * PoolLimit + pool'.used
        BY <2>1, <3>1 DEF x, y
      <3> QED
        BY <1>5, <2>1, <3>2 DEF PoolPays
    <2>4. CASE ~ due
      <3> HIDE DEF x, y
      <3>1. x <= pool'.last_reset /\ paid' <= y + pool'.used
        BY <1>1, <1>2, <1>3, <2>2, <2>4, PoolFacts
      <3> QED
        BY <1>5, <3>1 DEF PoolPays, x, y
    <2> QED
      BY <2>3, <2>4
  <1> QED
    BY <1>6, <1>7 DEF PoolPays

LEMMA PoolPaysStep == TypeOK /\ PoolPays /\ [Next]_vars => PoolPays'
  <1> SUFFICES ASSUME TypeOK, PoolPays, [Next]_vars PROVE PoolPays'
    OBVIOUS
  <1>1. CASE UNCHANGED <<pool, paid, now>>
    BY <1>1 DEF PoolPays
  <1>2. CASE Tick
    <2>1. pool' = pool /\ paid' = paid /\ now' = now + 1
      BY <1>2 DEF Tick, Coalescer!Tick, history
    <2>2. pool.last_reset <= now + 1
      BY PoolFacts DEF PoolPays
    <2> QED
      BY <2>1, <2>2 DEF PoolPays
  <1>3. ASSUME NEW t \in Threads, PoolGrants(t) PROVE PoolPays'
    <2>1. key[t].cost \in Nat
      BY TypeFacts
    <2>2. /\ pool' = AfterCheck(pool, PoolWindow, key[t].cost, now) /\ now' = now
          /\ Grants(pool, PoolWindow, key[t].cost, now) /\ paid' = paid + key[t].cost
      BY <1>3 DEF PoolGrants, coalescer_vars
    <2> QED
      BY <2>1, <2>2, CheckIsPaid
  <1>4. ASSUME NEW t \in Threads, PoolRejects(t) PROVE PoolPays'
    <2>1. key[t].cost \in Nat
      BY TypeFacts
    <2>2. /\ pool' = AfterCheck(pool, PoolWindow, key[t].cost, now) /\ now' = now
          /\ ~ Grants(pool, PoolWindow, key[t].cost, now) /\ paid' = paid
      BY <1>4 DEF PoolRejects, Coalescer!Abandon
    <2>3. paid' = paid + 0
      BY <2>2, PoolFacts
    <2> QED
      BY <2>1, <2>2, <2>3, CheckIsPaid
  <1>5. CASE UNCHANGED vars \/ ResetRepository \/ ResetMetrics
    BY <1>1, <1>5 DEF vars, ResetRepository, ResetMetrics, coalescer_vars, history
  <1>6. ASSUME NEW t \in Threads,
               \/ \E r \in Request : Begin(t, r) \/ BeginShadow(t, r)
               \/ Reuse(t) \/ NoReuse(t) \/ Fail(t) \/ ConsumeUnit(t) \/ ConsumeShadowUnit(t)
               \/ CacheResult(t) \/ RecordMetrics(t)
        PROVE  PoolPays'
    <2>1. UNCHANGED <<pool, paid, now>>
      BY <1>6 DEF Begin, BeginShadow, Reuse, NoReuse, Fail, ConsumeUnit, ConsumeShadowUnit, CacheResult,
                  RecordMetrics, Coalescer!Arrive, Coalescer!Hit, Coalescer!Miss, Coalescer!Abandon,
                  Coalescer!Decide, Coalescer!Store, coalescer_vars, history
    <2> QED
      BY <1>1, <2>1
  <1> QED
    BY <1>2, <1>3, <1>4, <1>5, <1>6 DEF Next, Call

LEMMA PoolPaysInvariance == Spec => []PoolPays
  <1>1. Init => PoolPays
    <2> SUFFICES ASSUME Init PROVE PoolPays
      OBVIOUS
    <2>1. pool.last_reset = -PoolWindow /\ now = 0 /\ paid = 0
      BY DEF Init, Coalescer!Init, NewPool
    <2>2. -PoolWindow <= 0
      BY ServiceAssumption
    <2> QED
      BY <2>1, <2>2 DEF PoolPays
  <1> QED
    BY <1>1, PoolPaysStep, TypeCorrect, PTL DEF Spec

\* All requests of all clients together: by any time, no more units have been let in than
\* the pool's limit for every window begun so far, times what coalescing may answer from
\* one decision; whatever the algorithm's limit and its resets.
THEOREM ServiceAdmitsWithinThePool == Spec => []AdmissionsWithinThePool
  <1>1. TypeOK /\ PoolPays /\ UnitsArePaid /\ AdmissionsAreBacked => AdmissionsWithinThePool
    <2> SUFFICES ASSUME TypeOK, PoolPays, UnitsArePaid, AdmissionsAreBacked
                 PROVE  AdmissionsWithinThePool
      OBVIOUS
    <2> DEFINE j == now \div PoolWindow
               granted == PoolLimit * (j + 1)
    <2>1. j \in Nat /\ now < (j + 1) * PoolWindow
      <3>1. now = PoolWindow * j + (now % PoolWindow) /\ now % PoolWindow \in 0 .. PoolWindow - 1
        BY PoolFacts
      <3>2. j \in Nat
        BY PoolFacts
      <3>3. (j + 1) * PoolWindow = j * PoolWindow + PoolWindow /\ PoolWindow * j = j * PoolWindow
        BY <3>2, PoolFacts
      <3> QED
        BY <3>1, <3>2, <3>3, PoolFacts
    <2> HIDE DEF j
    <2>2. granted \in Nat /\ granted = j * PoolLimit + PoolLimit
      <3>1. (j + 1) * PoolLimit = j * PoolLimit + PoolLimit /\ j * PoolLimit \in Nat /\ PoolLimit \in Nat
        BY <2>1, OneMore, PoolFacts
      <3>2. PoolLimit * (j + 1) = (j + 1) * PoolLimit
        BY <2>1, PoolFacts
      <3> QED
        BY <3>1, <3>2
    <2>3. paid <= granted
      <3>1. CASE paid = 0
        BY <2>2, <3>1
      <3>2. ASSUME NEW k \in Nat, k * PoolWindow <= pool.last_reset,
                   paid <= k * PoolLimit + pool.used
            PROVE  paid <= granted
        <4>1. k <= j
          <5> SUFFICES ASSUME j + 1 <= k PROVE FALSE
            BY <2>1
          <5>1. (j + 1) * PoolWindow <= k * PoolWindow
            BY <2>1, PoolFacts
          <5> QED
            BY <2>1, <3>2, <5>1, PoolFacts, OneMore DEF PoolPays
        <4>2. k * PoolLimit <= j * PoolLimit /\ k * PoolLimit \in Nat /\ j * PoolLimit \in Nat
          BY <2>1, <4>1, PoolFacts
        <4> HIDE DEF granted
        <4> QED
          BY <2>2, <3>2, <4>2, PoolFacts
      <3> QED
        BY <3>1, <3>2 DEF PoolPays
    <2>4. taken <= paid /\ taken \in Nat /\ admitted \in Nat
      <3>1. SumFunctionOnSet(left, Underway) \in Nat /\ taken \in Nat /\ paid \in Nat /\ admitted \in Nat
        BY UnderwayFacts
      <3>2. taken + SumFunctionOnSet(left, Underway) <= paid
        BY DEF UnitsArePaid, Underway
      <3> QED
        BY <3>1, <3>2
    <2>5. MaxCoalesce * taken <= MaxCoalesce * granted
      <3>1. MaxCoalesce \in Nat
        BY ServiceAssumption
      <3>2. taken <= granted
        BY <2>2, <2>3, <2>4, PoolFacts
      <3> HIDE DEF granted
      <3> QED
        BY <2>2, <2>4, <3>1, <3>2
    <2>6. admitted <= MaxCoalesce * granted
      <3> DEFINE x == MaxCoalesce * taken
                 y == MaxCoalesce * granted
      <3>1. x \in Nat /\ y \in Nat /\ admitted <= x /\ x <= y
        BY <2>2, <2>4, <2>5, ServiceAssumption, ProductIsNat DEF AdmissionsAreBacked
      <3> HIDE DEF x, y
      <3>2. admitted <= y
        BY <2>4, <3>1
      <3> QED
        BY <3>2 DEF y
    <2> QED
      BY <2>6 DEF AdmissionsWithinThePool, j
  <1> QED
    BY <1>1, TypeCorrect, PoolPaysInvariance, UnitsPaidFirst, StretchIsBounded, PTL

-----------------------------------------------------------------------------
(***************************************************************************)
(* What the service makes of its coalescer.  RequestCoalescer describes    *)
(* callers of its own, and the service is meant to be one of them.         *)
(***************************************************************************)

\* A shadow call begins: key and the number of calls change, which the coalescer's
\* module keeps for its callers, and nothing that the coalescer itself keeps.
PassesBy(t) ==
  /\ pc[t] = "idle"
  /\ \E r \in Request : key' = [key EXCEPT ![t] = r]
  /\ UNCHANGED <<now, cache, stats, pc, clock, checked, stored, reused>>

CoalescerIsRespected ==
  /\ Coalescer!Init
  /\ [][Coalescer!Next \/ \E t \in Threads : PassesBy(t)]_coalescer_vars

\* Where the coalescer has a call, by where the service has it.
PlaceOf(t) ==
  IF shadow[t] THEN "idle"
  ELSE CASE stage[t] = "coalesce" -> "get"
         [] stage[t] \in {"pool", "algorithm"} -> "check"
         [] stage[t] = "store" -> "store"
         [] stage[t] \in {"idle", "record"} -> "idle"

PlacesAgree == \A t \in Threads : pc[t] = PlaceOf(t)
ShadowsOnlyConsume == \A t \in Threads : shadow[t] => stage[t] \in {"idle", "algorithm"}

CoalescerKeepsItsPromises == Coalescer!ReuseIsBacked /\ Coalescer!StatsMatchTheCache

LEMMA PlacesInit == Init => PlacesAgree /\ ShadowsOnlyConsume
  BY DEF Init, Coalescer!Init, PlacesAgree, PlaceOf, ShadowsOnlyConsume

LEMMA PlacesStep ==
  TypeOK /\ PlacesAgree /\ ShadowsOnlyConsume /\ [Next]_vars => (PlacesAgree /\ ShadowsOnlyConsume)'
  <1> SUFFICES ASSUME TypeOK, PlacesAgree, ShadowsOnlyConsume, [Next]_vars
               PROVE  (PlacesAgree /\ ShadowsOnlyConsume)'
    OBVIOUS
  <1>0. /\ pc \in [Threads -> {"idle", "get", "check", "store"}]
        /\ stage \in [Threads -> {"idle", "coalesce", "pool", "algorithm", "store", "record"}]
        /\ shadow \in [Threads -> BOOLEAN]
    BY DEF TypeOK, Coalescer!TypeOK
  <1>1. CASE UNCHANGED vars \/ Tick \/ ResetRepository \/ ResetMetrics
    <2>1. UNCHANGED <<pc, stage, shadow>>
      BY <1>1 DEF vars, coalescer_vars, call_vars, Tick, Coalescer!Tick, ResetRepository, ResetMetrics
    <2> QED
      BY <2>1 DEF PlacesAgree, PlaceOf, ShadowsOnlyConsume
  <1>2. ASSUME NEW t \in Threads, Call(t) PROVE (PlacesAgree /\ ShadowsOnlyConsume)'
    <2>1. ASSUME NEW u \in Threads, u # t
          PROVE  pc'[u] = pc[u] /\ stage'[u] = stage[u] /\ shadow'[u] = shadow[u]
      BY <1>0, <1>2, <2>1 DEF Call, Begin, BeginShadow, Reuse, NoReuse, PoolGrants, PoolRejects, Fail,
           ConsumeUnit, ConsumeShadowUnit, CacheResult, RecordMetrics, Go, coalescer_vars, Coalescer!Move,
           Coalescer!Arrive, Coalescer!Hit, Coalescer!Miss, Coalescer!Abandon, Coalescer!Decide, Coalescer!Store
    <2>2. pc'[t] = PlaceOf(t)' /\ (shadow'[t] => stage'[t] \in {"idle", "algorithm"})
      <3> USE <1>0 DEF Go, coalescer_vars, Coalescer!Move, PlacesAgree, PlaceOf, ShadowsOnlyConsume
      <3>1. ASSUME NEW r \in Request, Begin(t, r) \/ BeginShadow(t, r)
            PROVE  pc'[t] = PlaceOf(t)' /\ (shadow'[t] => stage'[t] \in {"idle", "algorithm"})
        BY <3>1 DEF Begin, BeginShadow, Coalescer!Arrive
      <3>2. CASE Reuse(t) \/ NoReuse(t)
        BY <3>2 DEF Reuse, NoReuse, Coalescer!Hit, Coalescer!Miss
      <3>3. CASE PoolGrants(t) \/ PoolRejects(t)
        BY <3>3 DEF PoolGrants, PoolRejects, Coalescer!Abandon
      <3>4. CASE Fail(t)
        BY <3>4 DEF Fail, Coalescer!Abandon
      <3>5. CASE ConsumeUnit(t)
        <4> DEFINE a == UnitAllowed(live, key[t].client, limit[t])
                   last == LastUnit(t, a)
        <4>1. /\ ~ shadow[t] /\ shadow' = shadow /\ stage[t] = "algorithm"
              /\ stage' = [stage EXCEPT ![t] = IF last THEN "store" ELSE "algorithm"]
              /\ IF last THEN Coalescer!Decide(t, a) ELSE pc' = pc
          BY <3>5 DEF ConsumeUnit
        <4> HIDE DEF a, last
        <4> QED
          BY <4>1 DEF Coalescer!Decide
      <3>6. CASE ConsumeShadowUnit(t)
        <4> DEFINE last == LastUnit(t, UnitAllowed(dry, key[t].client, limit[t]))
        <4>1. /\ shadow[t] /\ shadow' = shadow /\ pc' = pc
              /\ stage' = [stage EXCEPT ![t] = IF last THEN "idle" ELSE "algorithm"]
          BY <3>6 DEF ConsumeShadowUnit
        <4> HIDE DEF last
        <4> QED
          BY <4>1
      <3>7. CASE CacheResult(t) \/ RecordMetrics(t)
        BY <3>7 DEF CacheResult, RecordMetrics, Coalescer!Store
      <3> QED
        BY <1>2, <3>1, <3>2, <3>3, <3>4, <3>5, <3>6, <3>7 DEF Call
    <2> QED
      BY <2>1, <2>2 DEF PlacesAgree, PlaceOf, ShadowsOnlyConsume
  <1> QED
    BY <1>1, <1>2 DEF Next

LEMMA PlacesInvariance == Spec => [](PlacesAgree /\ ShadowsOnlyConsume)
  BY PlacesInit, PlacesStep, TypeCorrect, PTL DEF Spec

LEMMA SameSteps == CP!Next <=> Coalescer!Next
  BY DEF CP!Next, CP!Call, CP!Move, CP!Usable, CP!NoEntry, CP!Tick, CP!Clear, CP!Arrive, CP!Hit, CP!Miss,
         CP!Decide, CP!Abandon, CP!Store, Coalescer!Next, Coalescer!Call, Coalescer!Move, Coalescer!Usable,
         Coalescer!NoEntry, Coalescer!Tick, Coalescer!Clear, Coalescer!Arrive, Coalescer!Hit, Coalescer!Miss,
         Coalescer!Decide, Coalescer!Abandon, Coalescer!Store

LEMMA SamePromise == CP!StatsMatchTheCache <=> Coalescer!StatsMatchTheCache
  BY DEF CP!StatsMatchTheCache, Coalescer!StatsMatchTheCache, CP!NoEntry, Coalescer!NoEntry,
         CP!SumFunctionOnSet, CP!FoldFunctionOnSet, CP!MapThenFoldSet, Coalescer!SumFunctionOnSet,
         Coalescer!FoldFunctionOnSet, Coalescer!MapThenFoldSet, CP!Cardinality, Coalescer!Cardinality

\* check_rate_limit calls the coalescer as RequestCoalescer's own callers do: every step
\* of the service is one of the coalescer, passes it by, or leaves it alone; and a thread
\* is always where the coalescer's module has it, so that this is not because the guards
\* of the two modules keep steps of the service from being taken.
THEOREM ServiceRespectsCoalescer == Spec => CoalescerIsRespected /\ []PlacesAgree
  <1>1. Init => Coalescer!Init
    BY DEF Init
  <1>2. ShadowsOnlyConsume /\ PlacesAgree /\ TypeOK /\ [Next]_vars
          => [Coalescer!Next \/ \E t \in Threads : PassesBy(t)]_coalescer_vars
    <2> SUFFICES ASSUME ShadowsOnlyConsume, PlacesAgree, TypeOK, [Next]_vars
                 PROVE  [Coalescer!Next \/ \E t \in Threads : PassesBy(t)]_coalescer_vars
      OBVIOUS
    <2>1. CASE [CP!Next]_(CP!vars)
      BY <2>1, SameSteps DEF CP!vars, coalescer_vars
    <2>2. ASSUME NEW t \in Threads, NEW r \in Request, BeginShadow(t, r)
          PROVE  PassesBy(t)
      <3>1. stage[t] = "idle"
        BY <2>2 DEF BeginShadow, Go
      <3>2. pc[t] = "idle"
        BY <3>1 DEF PlacesAgree, PlaceOf
      <3> QED
        BY <2>2, <3>2 DEF BeginShadow, PassesBy
    <2> QED
      BY <2>1, <2>2, StepIsACoalescerStep
  <1> QED
    BY <1>1, <1>2, PlacesInvariance, TypeCorrect, PTL DEF Spec, CoalescerIsRespected

\* What RequestCoalescer promises therefore holds in the service: a cached result answers
\* max_coalesce requests at most, and the statistics that GET /admin/coalescing shows
\* agree with the cache, with shadow calls, rejections by the pool and errors in between.
THEOREM PromisesCarryOver == Spec => []CoalescerKeepsItsPromises
  <1>1. Init => CP!StatisticsMatch
    <2> SUFFICES ASSUME Init PROVE CP!StatisticsMatch
      OBVIOUS
    <2>1. CP!Init
      BY SameInvariants DEF Init
    <2> QED
      BY <2>1, RequestIsFinite, SameFinite, CoalescerAssumed, CP!StatisticsInit
  <1>2. CoalescerInv /\ CP!StatisticsMatch /\ [Next]_vars => CP!StatisticsMatch'
    <2> SUFFICES ASSUME CoalescerInv, CP!StatisticsMatch, [Next]_vars PROVE CP!StatisticsMatch'
      OBVIOUS
    <2>1. CASE [CP!Next]_(CP!vars)
      BY <2>1, RequestIsFinite, SameFinite, SameInvariants, CoalescerAssumed, CP!StatisticsStep
      DEF CoalescerInv
    <2>2. ASSUME NEW t \in Threads, NEW r \in Request, BeginShadow(t, r) PROVE CP!StatisticsMatch'
      BY <2>2 DEF BeginShadow, CP!StatisticsMatch, CP!Total, CP!Both, CP!Entries
    <2> QED
      BY <2>1, <2>2, StepIsACoalescerStep
  <1>3. CoalescerInv /\ CP!StatisticsMatch => CoalescerKeepsItsPromises
    <2> SUFFICES ASSUME CoalescerInv, CP!StatisticsMatch PROVE CoalescerKeepsItsPromises
      OBVIOUS
    <2>1. CP!StatsMatchTheCache
      BY RequestIsFinite, SameFinite, CoalescerAssumed, CP!SameStatistics
    <2> QED
      BY <2>1, SamePromise DEF CoalescerInv, CoalescerKeepsItsPromises
  <1>4. IInv => CoalescerInv
    BY DEF IInv
  <1> QED
    BY <1>1, <1>2, <1>3, <1>4, Invariance, PTL DEF Spec

-----------------------------------------------------------------------------
(***************************************************************************)
(* From end to end, by the endpoint's limit: what the calls of all clients *)
(* together let in.  Every window of the algorithm allows each client the  *)
(* largest effective limit at most, and once more after a reset.           *)
(***************************************************************************)
LargestLimit(top) == \A l \in EffectiveLimits : l <= top

AdmissionsWithinTheLimits ==
  \A top \in Nat : LargestLimit(top) =>
    admitted <= MaxCoalesce * ((top * Cardinality(Configured)) * (now \div Window + 1 + resets))

Present == now \div Window
Full(top) == top * Cardinality(Configured)
Used(top) ==
  [c \in Configured |-> IF live[c][Present].count <= top THEN live[c][Present].count ELSE top]

\* The units that may have been allowed so far: all of the windows that are over and of
\* those that were emptied, and what the present window's entries say.
Allowance(top) == Full(top) * (Present + resets) + SumFunctionOnSet(Used(top), Configured)

\* As in FixedWindow, an entry lasts until its window ends.
EntriesLast ==
  \A c \in Clients : \A w \in Windows :
    live[c][w] # Missing => live[c][w].expires_at >= (w + 1) * Window

LimitsAreEffective ==
  \A t \in Threads : stage[t] = "algorithm" /\ ~ shadow[t] => limit[t] \in EffectiveLimits

LimitsInv ==
  /\ EntriesLast
  /\ LimitsAreEffective
  /\ \A top \in Nat : LargestLimit(top) => Stretch <= MaxCoalesce * Allowance(top)

LEMMA EffectiveIsInt == EffectiveLimits \subseteq Int
  <1> SUFFICES ASSUME NEW e \in EffectiveLimits PROVE e \in Int
    OBVIOUS
  <1>0. PICK l \in TierLimits : e \in Adapted(l)
    BY DEF EffectiveLimits
  <1>m. PICK m \in Multipliers : e = Max({1, (l * m) \div 10})
    BY <1>0 DEF Adapted
  <1>1. l \in Int /\ m \in Int
    <2>1. Tiers \subseteq Int
      BY ServiceAssumption
    <2>2. Limit \in Int
      BY ServiceAssumption
    <2>3. m \in Int
      BY ServiceAssumption
    <2> QED
      BY <2>1, <2>2, <2>3 DEF TierLimits
  <1> DEFINE x == (l * m) \div 10
  <1>2. x \in Int
    BY <1>1
  <1> HIDE DEF x
  <1>3. IsFiniteSet({1, x})
    <2>1. IsFiniteSet({1}) /\ {1, x} = {1} \cup {x}
      BY FS_Singleton
    <2> QED
      BY <2>1, FS_AddElement
  <1>4. {1, x} # {} /\ {1, x} \subseteq Int
    BY <1>2
  <1>5. Max({1, x}) \in {1, x}
    BY <1>3, <1>4, MaxIsMax
  <1>6. Max({1, x}) \in Int
    BY <1>4, <1>5
  <1> QED
    BY <1>m, <1>6 DEF x

LEMMA PresentFacts ==
  ASSUME TypeOK
  PROVE  /\ Present \in Nat /\ Present \in Windows /\ resets \in Nat /\ now \in Nat
         /\ now < (Present + 1) * Window
         /\ (now + 1) \div Window \in {Present, Present + 1}
  <1>0. Window \in Nat \ {0} /\ now \in Nat /\ MaxResets \in Nat /\ resets \in Nat
    BY ServiceAssumption, TypeFacts DEF TypeOK
  <1> DEFINE p == now \div Window
             q == (now + 1) \div Window
  <1>1. p \in Nat /\ now = Window * p + (now % Window) /\ now % Window \in 0 .. Window - 1
    BY <1>0
  <1>2. q \in Nat /\ now + 1 = Window * q + ((now + 1) % Window) /\ (now + 1) % Window \in 0 .. Window - 1
    BY <1>0
  <1> HIDE DEF p, q
  <1>3. Window * (p + 1) = Window * p + Window /\ Window * (p + 2) = Window * p + Window + Window
        /\ Window * (q + 1) = Window * q + Window
        /\ (p + 1) * Window = Window * (p + 1) /\ Window * p \in Nat /\ Window * q \in Nat
    BY <1>0, <1>1, <1>2
  <1>4. now < (p + 1) * Window
    BY <1>0, <1>1, <1>3
  <1>5. ~ q < p
    <2> SUFFICES ASSUME q + 1 <= p PROVE FALSE
      BY <1>1, <1>2
    <2>1. Window * (q + 1) <= Window * p
      BY <1>0, <1>1, <1>2
    <2> QED
      BY <1>0, <1>1, <1>2, <1>3, <2>1
  <1>6. ~ q > p + 1
    <2> SUFFICES ASSUME p + 2 <= q PROVE FALSE
      BY <1>1, <1>2
    <2>1. Window * (p + 2) <= Window * q
      BY <1>0, <1>1, <1>2
    <2> QED
      BY <1>0, <1>1, <1>2, <1>3, <2>1
  <1>7. q \in {p, p + 1}
    BY <1>1, <1>2, <1>5, <1>6
  <1> QED
    BY <1>0, <1>1, <1>4, <1>7, NowInWindows, TypeFacts DEF Present, p, q

LEMMA AllowanceFacts ==
  ASSUME TypeOK, NEW top \in Nat
  PROVE  /\ \A c \in Configured : /\ live[c][Present] \in Counter /\ live[c][Present].count \in Nat
                                  /\ Used(top)[c] \in Nat /\ Used(top)[c] <= top
         /\ SumFunctionOnSet(Used(top), Configured) \in Nat
         /\ SumFunctionOnSet(Used(top), Configured) <= Full(top)
         /\ Full(top) \in Nat /\ Full(top) * (Present + resets) \in Nat
         /\ Allowance(top) \in Nat
         /\ IsFiniteSet(Configured)
  <1>1. IsFiniteSet(Configured) /\ Cardinality(Configured) \in Nat /\ Configured \subseteq Clients
    BY ServiceAssumption, FS_Subset, FS_CardinalityType
  <1>2. ASSUME NEW c \in Configured
        PROVE  /\ live[c][Present] \in Counter /\ live[c][Present].count \in Nat
               /\ Used(top)[c] \in Nat /\ Used(top)[c] <= top
    <2>1. live[c][Present] \in Counter
      BY <1>1, PresentFacts DEF TypeOK, Counters
    <2>2. live[c][Present].count \in Nat
      BY <2>1 DEF Counter
    <2> QED
      BY <2>1, <2>2 DEF Used
  <1>3. /\ SumFunctionOnSet(Used(top), Configured) \in Nat
        /\ SumFunctionOnSet(Used(top), Configured) <= Full(top)
    <2> HIDE DEF Used
    <2>1. SumFunctionOnSet(Used(top), Configured) \in Nat
      BY <1>1, <1>2, SumIsNat
    <2>2. SumFunctionOnSet(Used(top), Configured) <= top * Cardinality(Configured)
      BY <1>1, <1>2, CoalescerAssumed, SameSum, SameFinite, SameCardinality, CP!SumAtMost
    <2> QED
      BY <2>1, <2>2 DEF Full
  <1>4. Full(top) \in Nat
    BY <1>1, ProductIsNat DEF Full
  <1>5. Full(top) * (Present + resets) \in Nat
    <2>1. Present + resets \in Nat
      BY PresentFacts
    <2> QED
      BY <1>4, <2>1, ProductIsNat
  <1>6. Allowance(top) \in Nat
    <2> DEFINE x == Full(top) * (Present + resets)
               y == SumFunctionOnSet(Used(top), Configured)
    <2>1. x \in Nat /\ y \in Nat /\ Allowance(top) = x + y
      BY <1>3, <1>5 DEF Allowance
    <2> HIDE DEF x, y
    <2> QED
      BY <2>1
  <1> QED
    BY <1>1, <1>2, <1>3, <1>4, <1>5, <1>6

\* What a step does to the counters, the clock and the units consumed.
LEMMA StepKinds ==
  ASSUME [Next]_vars
  PROVE  \/ UNCHANGED <<live, now, resets, taken>>
         \/ now' = now + 1 /\ UNCHANGED <<live, resets, taken>>
         \/ /\ live' = [c \in Clients |-> [w \in Windows |-> Missing]]
            /\ resets' = resets + 1 /\ UNCHANGED <<now, taken>>
         \/ \E t \in Threads : ConsumeUnit(t)
  <1>1. ASSUME NEW t \in Threads, Call(t), ~ ConsumeUnit(t)
        PROVE  UNCHANGED <<live, now, resets, taken>>
    <2>1. CASE \E r \in Request : Begin(t, r) \/ BeginShadow(t, r)
      BY <2>1 DEF Begin, BeginShadow, Coalescer!Arrive, history
    <2>2. CASE Reuse(t) \/ NoReuse(t) \/ PoolGrants(t) \/ PoolRejects(t)
      BY <2>2 DEF Reuse, NoReuse, PoolGrants, PoolRejects, Coalescer!Hit, Coalescer!Miss,
                  Coalescer!Abandon, coalescer_vars, history
    <2>3. CASE Fail(t)
      BY <2>3 DEF Fail, Coalescer!Abandon, coalescer_vars, history
    <2>4. CASE ConsumeShadowUnit(t) \/ CacheResult(t) \/ RecordMetrics(t)
      BY <2>4 DEF ConsumeShadowUnit, CacheResult, RecordMetrics, Coalescer!Store, coalescer_vars, history
    <2> QED
      BY <1>1, <2>1, <2>2, <2>3, <2>4 DEF Call
  <1>2. CASE Tick
    BY <1>2 DEF Tick, Coalescer!Tick, history
  <1>3. CASE ResetRepository
    BY <1>3 DEF ResetRepository, coalescer_vars
  <1>4. CASE ResetMetrics \/ UNCHANGED vars
    BY <1>4 DEF ResetMetrics, coalescer_vars, vars, history
  <1> QED
    BY <1>1, <1>2, <1>3, <1>4 DEF Next

\* A unit consumed makes one more of what the present window's entry counts: the entry
\* of the present window has not expired.
LEMMA UnitCountsOn ==
  ASSUME TypeOK, EntriesLast, NEW c \in Clients
  PROVE  /\ UnitEntry(live, c).count = live[c][Present].count + 1
         /\ UnitEntry(live, c).expires_at \in Nat
         /\ UnitEntry(live, c).expires_at >= (Present + 1) * Window
         /\ UnitEntry(live, c) \in Counter
  <1> DEFINE e == live[c][Present]
             p == Present
             last == (p + 1) * Window
  <1>0. Window \in Nat \ {0} /\ now \in Nat /\ p \in Nat /\ now < last /\ last \in Nat /\ p * Window <= now
        /\ last = p * Window + Window /\ p * Window \in Nat
    <2>1. Window \in Nat \ {0} /\ now \in Nat /\ p \in Nat /\ now < last
      BY ServiceAssumption, PresentFacts
    <2>2. now = Window * p + (now % Window) /\ now % Window \in 0 .. Window - 1
      BY <2>1 DEF Present
    <2> HIDE DEF p
    <2>3. (p + 1) * Window = p * Window + Window /\ p * Window \in Nat /\ Window * p = p * Window
      BY <2>1
    <2> QED
      BY <2>1, <2>2, <2>3
  <1>1. e \in Counter /\ (e # Missing => e.expires_at >= last)
    BY PresentFacts DEF TypeOK, Counters, EntriesLast
  <1>2. e = [count |-> e.count, expires_at |-> e.expires_at] /\ e.count \in Nat /\ e.expires_at \in Nat
    BY <1>1 DEF Counter
  <1>3. UnitEntry(live, c) = IF now < e.expires_at THEN [e EXCEPT !.count = e.count + 1]
                                                   ELSE [count |-> 1, expires_at |-> now + Window]
    BY DEF UnitEntry, Incremented, Live, Present
  <1> HIDE DEF e, p, last
  <1>4. CASE now < e.expires_at
    <2>1. e # Missing
      BY <1>0, <1>4 DEF Missing
    <2>2. UnitEntry(live, c) = [count |-> e.count + 1, expires_at |-> e.expires_at]
      BY <1>2, <1>3, <1>4
    <2> QED
      BY <1>1, <1>2, <2>1, <2>2 DEF Counter, e, p, last
  <1>5. CASE ~ now < e.expires_at
    <2>1. e = Missing
      BY <1>0, <1>1, <1>2, <1>5
    <2>2. UnitEntry(live, c) = [count |-> 1, expires_at |-> now + Window]
      BY <1>3, <1>5
    <2>3. e.count = 0
      BY <2>1 DEF Missing
    <2>4. now + Window >= last /\ now + Window \in Nat
      BY <1>0
    <2> QED
      BY <2>2, <2>3, <2>4 DEF Counter, e, p, last
  <1> QED
    BY <1>4, <1>5

LEMMA EntriesLastStep == TypeOK /\ EntriesLast /\ [Next]_vars => EntriesLast'
  <1> SUFFICES ASSUME TypeOK, EntriesLast, [Next]_vars PROVE EntriesLast'
    OBVIOUS
  <1>1. CASE live' = live
    BY <1>1 DEF EntriesLast
  <1>2. CASE live' = [c \in Clients |-> [w \in Windows |-> Missing]]
    BY <1>2 DEF EntriesLast
  <1>3. ASSUME NEW t \in Threads, ConsumeUnit(t) PROVE EntriesLast'
    <2> DEFINE c == key[t].client
    <2>1. c \in Clients /\ live \in Counters /\ Present \in Windows
      BY TypeFacts, PresentFacts DEF TypeOK
    <2>2. live' = [live EXCEPT ![c][Present] = UnitEntry(live, c)]
      BY <1>3 DEF ConsumeUnit, AfterUnit, Present
    <2> HIDE DEF c
    <2>3. /\ \A d \in Clients : \A w \in Windows :
               d # c \/ w # Present => live'[d][w] = live[d][w]
          /\ live'[c][Present] = UnitEntry(live, c)
      BY <2>1, <2>2 DEF Counters
    <2> QED
      BY <2>1, <2>3, UnitCountsOn DEF EntriesLast
  <1> QED
    BY <1>1, <1>2, <1>3, StepKinds

LEMMA LimitsStep == TypeOK /\ LimitsAreEffective /\ [Next]_vars => LimitsAreEffective'
  <1> SUFFICES ASSUME TypeOK, LimitsAreEffective, [Next]_vars PROVE LimitsAreEffective'
    OBVIOUS
  <1>0. /\ stage \in [Threads -> {"idle", "coalesce", "pool", "algorithm", "store", "record"}]
        /\ shadow \in [Threads -> BOOLEAN] /\ limit \in [Threads -> EffectiveLimits \cup {Limit}]
    BY DEF TypeOK
  <1>1. CASE UNCHANGED vars \/ Tick \/ ResetRepository \/ ResetMetrics
    <2>1. UNCHANGED <<stage, shadow, limit>>
      BY <1>1 DEF vars, call_vars, Tick, ResetRepository, ResetMetrics
    <2> QED
      BY <2>1 DEF LimitsAreEffective
  <1>2. ASSUME NEW t \in Threads, Call(t), NEW u \in Threads, stage'[u] = "algorithm", ~ shadow'[u]
        PROVE  limit'[u] \in EffectiveLimits
    <2>1. CASE u # t
      <3>1. stage'[u] = stage[u] /\ shadow'[u] = shadow[u]
        BY <1>2, <2>1, OtherCallsStay
      <3>2. limit'[u] = limit[u]
        BY <1>0, <1>2, <2>1 DEF Call, Begin, BeginShadow, Reuse, NoReuse, PoolGrants, PoolRejects, Fail,
             ConsumeUnit, ConsumeShadowUnit, CacheResult, RecordMetrics, Consumed
      <3> QED
        BY <1>2, <3>1, <3>2 DEF LimitsAreEffective
    <2>2. CASE u = t
      <3>1. CASE PoolGrants(t)
        BY <1>0, <2>2, <3>1 DEF PoolGrants
      <3>2. CASE ConsumeUnit(t)
        <4> DEFINE last == LastUnit(t, UnitAllowed(live, key[t].client, limit[t]))
        <4>1. /\ stage[t] = "algorithm" /\ ~ shadow[t]
              /\ stage' = [stage EXCEPT ![t] = IF last THEN "store" ELSE "algorithm"]
              /\ limit' = [limit EXCEPT ![t] = IF last THEN Limit ELSE limit[t]]
          BY <3>2 DEF ConsumeUnit, Consumed, Go
        <4> HIDE DEF last
        <4>2. ~ last
          BY <1>0, <1>2, <2>2, <4>1
        <4>3. limit'[t] = limit[t]
          BY <1>0, <4>1, <4>2
        <4> QED
          BY <2>2, <4>1, <4>3 DEF LimitsAreEffective
      <3>3. CASE ~ PoolGrants(t) /\ ~ ConsumeUnit(t)
        BY <1>0, <1>2, <2>2, <3>3 DEF Call, Begin, BeginShadow, Reuse, NoReuse, PoolRejects, Fail,
             ConsumeShadowUnit, CacheResult, RecordMetrics, Go
      <3> QED
        BY <3>1, <3>2, <3>3
    <2> QED
      BY <2>1, <2>2
  <1> QED
    BY <1>1, <1>2 DEF Next, LimitsAreEffective

AllowancesAreNumbers ==
  \A top \in Nat :
    /\ \A c \in Configured : Used(top)[c] \in Nat
    /\ SumFunctionOnSet(Used(top), Configured) \in Nat
    /\ Allowance(top) \in Nat

LEMMA AllowanceIsNat == TypeOK => AllowancesAreNumbers
  BY AllowanceFacts DEF AllowancesAreNumbers

\* The allowance never shrinks: when a window ends or is emptied, the whole of it is
\* counted instead of what its entries said.  And a unit that is allowed adds one.
LEMMA AllowanceGrows ==
  ASSUME TypeOK, TypeOK', EntriesLast, LimitsAreEffective, [Next]_vars,
         NEW top \in Nat, LargestLimit(top)
  PROVE  /\ Allowance(top) <= Allowance(top)'
         /\ \A t \in Threads : UnitGranted(t) => Allowance(top) + 1 <= Allowance(top)'
  <1> DEFINE full == Full(top)
             n == Present + resets
             sum == SumFunctionOnSet(Used(top), Configured)
             sumafter == SumFunctionOnSet(Used(top)', Configured)
  <1>1. /\ sum \in Nat /\ sum <= full /\ full \in Nat /\ n \in Nat
        /\ Allowance(top) = full * n + sum
        /\ full * n \in Nat /\ full * (n + 1) = full * n + full
    <2>1. sum \in Nat /\ sum <= full /\ full \in Nat /\ n \in Nat
      BY AllowanceFacts, PresentFacts
    <2>2. Allowance(top) = full * n + sum
      BY DEF Allowance
    <2> HIDE DEF full, n
    <2>3. full * n \in Nat /\ full * (n + 1) = full * n + full
      BY <2>1
    <2> QED
      BY <2>1, <2>2, <2>3
  <1>2. /\ sumafter \in Nat /\ Allowance(top)' = full * (Present' + resets') + sumafter
        /\ \A c \in Configured : Used(top)'[c] \in Nat
    <2>1. (TypeOK => AllowancesAreNumbers)'
      BY AllowanceIsNat, PTL
    <2> QED
      BY <2>1 DEF AllowancesAreNumbers, Allowance, Full
  <1>3. ASSUME Present' + resets' = n, Used(top)' = Used(top)
        PROVE  Allowance(top)' = Allowance(top)
    BY <1>1, <1>2, <1>3
  <1>4. ASSUME Present' + resets' = n + 1
        PROVE  Allowance(top) <= Allowance(top)'
    <2> DEFINE x == full * n
    <2>1. Allowance(top)' = x + full + sumafter
      <3>1. Allowance(top)' = full * (n + 1) + sumafter
        BY <1>2, <1>4
      <3> QED
        BY <1>1, <3>1
    <2> HIDE DEF x, full, n, sum, sumafter
    <2>2. x \in Nat /\ Allowance(top) = x + sum
      BY <1>1 DEF x
    <2> QED
      BY <1>1, <1>2, <2>1, <2>2
  <1>5. ASSUME taken' = taken PROVE \A t \in Threads : ~ UnitGranted(t)
    BY <1>5 DEF UnitGranted, ConsumeUnit, TypeOK
  <1>6. CASE UNCHANGED <<live, now, resets, taken>>
    <2>1. Present' + resets' = n /\ Used(top)' = Used(top)
      BY <1>6 DEF Present, Used
    <2>2. Allowance(top)' = Allowance(top)
      BY <1>3, <2>1
    <2>3. Allowance(top) <= Allowance(top)'
      BY <2>2, AllowanceFacts
    <2> QED
      BY <1>5, <1>6, <2>3
  <1>7. CASE now' = now + 1 /\ UNCHANGED <<live, resets, taken>>
    <2>1. Present' \in {Present, Present + 1} /\ Present \in Nat /\ resets' = resets /\ resets \in Nat
      BY <1>7, PresentFacts DEF Present
    <2>2. CASE Present' = Present
      <3>1. Present' + resets' = n /\ Used(top)' = Used(top)
        BY <1>7, <2>1, <2>2 DEF Used
      <3>2. Allowance(top)' = Allowance(top)
        BY <1>3, <3>1
      <3>3. Allowance(top) <= Allowance(top)'
        BY <3>2, AllowanceFacts
      <3> QED
        BY <1>5, <1>7, <3>3
    <2>3. CASE Present' = Present + 1
      <3>1. Present' + resets' = n + 1
        BY <2>1, <2>3
      <3> QED
        BY <1>4, <1>5, <1>7, <3>1
    <2> QED
      BY <2>1, <2>2, <2>3
  <1>8. CASE resets' = resets + 1 /\ UNCHANGED <<now, taken>>
    <2>1. Present' + resets' = n + 1
      BY <1>8, PresentFacts DEF Present
    <2> QED
      BY <1>4, <1>5, <1>8, <2>1
  <1>9. ASSUME NEW t \in Threads, ConsumeUnit(t)
        PROVE  /\ Allowance(top) <= Allowance(top)'
               /\ UnitAllowed(live, key[t].client, limit[t]) => Allowance(top) + 1 <= Allowance(top)'
    <2> DEFINE c == key[t].client
               before == live[c][Present].count
               u == Used(top)[c]
               v == Used(top)'[c]
    <2>1. /\ c \in Configured /\ c \in Clients /\ live \in Counters /\ Present \in Windows
          /\ stage[t] = "algorithm" /\ ~ shadow[t]
          /\ live' = [live EXCEPT ![c][Present] = UnitEntry(live, c)]
          /\ now' = now /\ resets' = resets
      <3>1. now' = now
        BY <1>9 DEF ConsumeUnit, Coalescer!Decide, coalescer_vars
      <3> QED
        BY <1>9, <3>1, PresentFacts, TypeFacts DEF ConsumeUnit, AfterUnit, Present, Go, TypeOK
    <2>2. Present' = Present
      BY <2>1 DEF Present
    <2>3. before \in Nat /\ UnitEntry(live, c).count = before + 1 /\ u \in Nat /\ v \in Nat
      BY <1>2, <2>1, UnitCountsOn, AllowanceFacts
    <2>4. live'[c][Present] = UnitEntry(live, c) /\ \A d \in Clients \ {c} : live'[d] = live[d]
      <3> HIDE DEF c
      <3> QED
        BY <2>1 DEF Counters
    <2>5. /\ u = IF before <= top THEN before ELSE top
          /\ v = IF before + 1 <= top THEN before + 1 ELSE top
          /\ \A d \in Configured \ {c} : Used(top)[d] = Used(top)'[d]
      <3> HIDE DEF c
      <3>1. u = IF before <= top THEN before ELSE top
        BY <2>1 DEF Used
      <3>2. v = IF live'[c][Present'].count <= top THEN live'[c][Present'].count ELSE top
        BY <2>1 DEF Used
      <3>3. live'[c][Present'].count = before + 1
        BY <2>2, <2>3, <2>4
      <3>4. \A d \in Configured \ {c} : Used(top)[d] = Used(top)'[d]
        BY <2>2, <2>4, ServiceAssumption DEF Used
      <3> QED
        BY <3>1, <3>2, <3>3, <3>4
    <2>6. sumafter - v = sum - u
      <3>1. \A d \in Configured : Used(top)[d] \in Int /\ Used(top)'[d] \in Int
        BY <1>2, AllowanceFacts
      <3> HIDE DEF c, Used
      <3> QED
        BY <2>1, <2>5, <3>1, SumOneChanged, AllowanceFacts
    <2>7. Allowance(top)' = full * n + sumafter
      BY <1>2, <2>1, <2>2
    <2>8. u <= v /\ (UnitAllowed(live, c, limit[t]) => v = u + 1)
      <3>1. limit[t] \in EffectiveLimits
        BY <2>1 DEF LimitsAreEffective
      <3>2. limit[t] \in Int /\ limit[t] <= top
        BY <3>1, EffectiveIsInt DEF LargestLimit
      <3>3. UnitAllowed(live, c, limit[t]) => before + 1 <= top
        BY <2>3, <3>2 DEF UnitAllowed
      <3> HIDE DEF c, u, v, before
      <3> QED
        BY <2>3, <2>5, <3>3
    <2>9. /\ Allowance(top) <= Allowance(top)'
          /\ v = u + 1 => Allowance(top) + 1 <= Allowance(top)'
      <3> DEFINE x == full * n
      <3>1. x \in Nat /\ Allowance(top) = x + sum /\ Allowance(top)' = x + sumafter
        BY <1>1, <2>7
      <3> HIDE DEF x, sum, sumafter, u, v
      <3> QED
        BY <1>1, <1>2, <2>3, <2>6, <2>8, <3>1
    <2> QED
      BY <2>8, <2>9
  <1> QED
    BY <1>6, <1>7, <1>8, <1>9, StepKinds DEF UnitGranted

LEMMA LimitsInit == Init => LimitsInv
  <1> SUFFICES ASSUME Init PROVE LimitsInv
    OBVIOUS
  <1>1. EntriesLast /\ LimitsAreEffective
    BY DEF Init, EntriesLast, LimitsAreEffective
  <1>2. TypeOK
    BY TypeInit
  <1>3. Stretch = 0
    <2>1. TypeOK /\ CallsAreSound /\ CoalescerInv /\ StretchBounded
      BY <1>2, CallsInit, CoalescerInit, StretchInit DEF Init
    <2>2. Stretch \in Nat /\ taken = 0
      BY <2>1, StretchIsNat DEF Init
    <2>3. MaxCoalesce * 0 = 0
      BY ServiceAssumption
    <2> QED
      BY <2>1, <2>2, <2>3 DEF StretchBounded
  <1>4. ASSUME NEW top \in Nat PROVE Stretch <= MaxCoalesce * Allowance(top)
    <2>1. MaxCoalesce * Allowance(top) \in Nat
      BY <1>2, AllowanceFacts, ServiceAssumption, ProductIsNat
    <2> QED
      BY <1>3, <2>1
  <1> QED
    BY <1>1, <1>4 DEF LimitsInv

LEMMA LimitsInvStep == IInv /\ IInv' /\ LimitsInv /\ [Next]_vars => LimitsInv'
  <1> SUFFICES ASSUME IInv, IInv', LimitsInv, [Next]_vars PROVE LimitsInv'
    OBVIOUS
  <1>1. EntriesLast' /\ LimitsAreEffective'
    BY EntriesLastStep, LimitsStep DEF IInv, LimitsInv
  <1>2. ASSUME NEW top \in Nat, LargestLimit(top)
        PROVE  Stretch' <= MaxCoalesce * Allowance(top)'
    <2> DEFINE m == MaxCoalesce
               a == Allowance(top)
               b == Allowance(top)'
               x == m * a
               y == m * b
               before == Stretch
               after == Stretch'
    <2>1. m \in Nat /\ a \in Nat /\ b \in Nat
      <3>1. (TypeOK => AllowancesAreNumbers)'
        BY AllowanceIsNat, PTL
      <3> QED
        BY <3>1, AllowanceFacts, ServiceAssumption DEF IInv, AllowancesAreNumbers
    <2>2. before \in Nat /\ after \in Nat /\ before <= x
      <3>1. (TypeOK /\ CallsAreSound /\ CoalescerInv => Stretch \in Nat)'
        BY StretchIsNat, PTL
      <3> QED
        BY <1>2, <3>1, StretchIsNat DEF IInv, LimitsInv
    <2>3. /\ a <= b
          /\ \A t \in Threads : UnitGranted(t) => a + 1 <= b
      BY <1>2, AllowanceGrows DEF IInv, LimitsInv
    <2>4. \/ after <= before
          \/ \E t \in Threads : UnitGranted(t) /\ after <= before + m
      BY StretchGrows DEF IInv
    <2>5. after <= before \/ (a + 1 <= b /\ after <= before + m)
      BY <2>3, <2>4
    <2> HIDE DEF m, a, b, before, after
    <2>6. x \in Nat /\ y \in Nat /\ x <= y /\ (a + 1 <= b => x + m <= y)
      <3>1. m * (a + 1) = m * a + m
        BY <2>1
      <3>2. m * a <= m * b
        BY <2>1, <2>3
      <3>3. a + 1 <= b => m * (a + 1) <= m * b
        BY <2>1
      <3> QED
        BY <2>1, <3>1, <3>2, <3>3, ProductIsNat
    <2>7. after <= y
      <3> HIDE DEF x, y
      <3> QED
        BY <2>1, <2>2, <2>5, <2>6
    <2> QED
      BY <2>7 DEF m, b, after
  <1> QED
    BY <1>1, <1>2 DEF LimitsInv, LargestLimit

LEMMA LimitsInvariance == Spec => []LimitsInv
  BY LimitsInit, LimitsInvStep, Invariance, PTL DEF Spec

\* What the service promises of an endpoint's limit: by any time, all requests let in
\* come to no more units than the largest effective limit for every configured client and
\* window begun so far, once more for each reset, times what coalescing may answer from
\* one decision; whatever threads, tiers, load, costs and errors, and whatever the pool.
THEOREM ServiceAdmitsWithinTheLimits == Spec => []AdmissionsWithinTheLimits
  <1>1. IInv /\ LimitsInv => AdmissionsWithinTheLimits
    <2> SUFFICES ASSUME IInv, LimitsInv, NEW top \in Nat, LargestLimit(top)
                 PROVE  admitted <= MaxCoalesce * (Full(top) * (Present + 1 + resets))
      BY DEF AdmissionsWithinTheLimits, Full, Present
    <2> DEFINE m == MaxCoalesce
               full == Full(top)
               n == Present + resets
               sum == SumFunctionOnSet(Used(top), Configured)
               a == Allowance(top)
               z == full * (n + 1)
    <2>1. m \in Nat /\ a \in Nat /\ full \in Nat /\ n \in Nat /\ sum \in Nat /\ sum <= full /\ a = full * n + sum
          /\ Present + 1 + resets = n + 1
      <3>1. TypeOK /\ m \in Nat
        BY ServiceAssumption DEF IInv
      <3>2. a \in Nat /\ full \in Nat /\ sum \in Nat /\ sum <= full
        BY <3>1, AllowanceFacts
      <3>3. Present \in Nat /\ resets \in Nat
        BY <3>1, PresentFacts
      <3>4. n \in Nat /\ Present + 1 + resets = n + 1
        BY <3>3
      <3> QED
        BY <3>1, <3>2, <3>4 DEF Allowance
    <2>2. admitted \in Nat /\ admitted <= m * a
      <3>1. admitted \in Nat /\ Reusable \in Nat /\ Answerable \in Nat /\ m * a \in Nat
        BY <2>1, ToReuseIsNat, ToAnswerIsNat, ProductIsNat DEF IInv, TypeOK
      <3>2. admitted + Reusable + Answerable <= m * a
        BY DEF LimitsInv, Stretch
      <3> HIDE DEF m, a
      <3> QED
        BY <3>1, <3>2
    <2> HIDE DEF m, full, n, sum, a
    <2>3. a <= z /\ z \in Nat
      <3>1. full * (n + 1) = full * n + full /\ full * n \in Nat
        BY <2>1
      <3> QED
        BY <2>1, <3>1
    <2>4. m * a <= m * z /\ m * a \in Nat /\ m * z \in Nat
      <3> HIDE DEF z
      <3> QED
        BY <2>1, <2>3
    <2>5. admitted <= m * z
      <3> DEFINE i == m * a
                 j == m * z
      <3> HIDE DEF i, j
      <3>1. admitted <= i /\ i <= j /\ i \in Nat /\ j \in Nat
        BY <2>2, <2>4 DEF i, j
      <3>2. admitted <= j
        BY <2>2, <3>1
      <3> QED
        BY <3>2 DEF j
    <2> QED
      BY <2>1, <2>5 DEF m, full
  <1> QED
    BY <1>1, Invariance, LimitsInvariance, PTL
=============================================================================
