------------------------ MODULE SlidingWindowLogProofs ------------------------
(***************************************************************************)
(* Theorems about SlidingWindowLog, in both kinds of store, for any number *)
(* of threads and requests, any limit and window and however long a call   *)
(* takes.                                                                  *)
(*                                                                         *)
(* WindowBoundedByThreads is not inductive, because a removal takes from   *)
(* the log what it speaks of.  As long as none did, the entries of a       *)
(* window and the calls about to add one are at most Limit + N - 1, N the  *)
(* number of threads: the last that decided had counted less than Limit    *)
(* entries.  The first removal that takes an entry of the window is by a   *)
(* call that began after its end, and from then on only the calls underway *)
(* may still add to it, one each and the remover none.                     *)
(***************************************************************************)
EXTENDS SlidingWindowLog, FiniteSetTheorems, TLAPS

N == Cardinality(Threads)
EntriesIn(s) == SumFunctionOnSet(log, InWindowFrom(s))
AdmittedIn(s) == SumFunctionOnSet(admits, InWindowFrom(s))
MergedIn(s) == SumFunctionOnSet(merged, InWindowFrom(s))

\* The calls underway that began in the window, and those of them that are about to add.
AboutTo(s) == {t \in Threads : pc[t] # "idle" /\ clock[t] \in InWindowFrom(s)}
Adding(s) == {t \in Threads : pc[t] = "add" /\ clock[t] \in InWindowFrom(s)}

Whole(s) ==
  /\ AdmittedIn(s) = EntriesIn(s) + MergedIn(s)
  /\ EntriesIn(s) + Cardinality(Adding(s)) <= Limit + (N - 1)

Trimmed(s) ==
  /\ now > s + Window
  /\ AdmittedIn(s) + Cardinality(AboutTo(s)) <= Limit + 2 * (N - 1) + MergedIn(s)

\* Nothing that a call which begins now would count has been removed.
NothingLost ==
  \A ts \in Times :
    now - Window < ts \/ (now - Window = ts /\ store = "list") =>
      admits[ts] = log[ts] + merged[ts]

LogInv ==
  /\ TypeOK
  /\ \A t \in Threads : clock[t] <= now
  /\ NothingLost
  /\ \A s \in Times : Whole(s) \/ Trimmed(s)

-----------------------------------------------------------------------------
(***************************************************************************)
(* The counts are sums, and the lemmas on sums are those of                *)
(* RequestCoalescerProofs.  They speak of any function and any finite set, *)
(* and of nothing the coalescer is made of, so whatever fits its           *)
(* assumption may stand for its parameters.                                *)
(***************************************************************************)
Sums == INSTANCE RequestCoalescerProofs WITH
  Keys <- Threads, CoalescingWindow <- Window, MaxCoalesce <- Limit,
  cache <- log, stats <- log, key <- clock, checked <- log, stored <- admits, reused <- merged

LEMMA LogAssumption ==
  /\ IsFiniteSet(Threads) /\ Threads # {}
  /\ Limit \in Nat \ {0} /\ Window \in Nat \ {0}
  /\ MaxTime \in Nat /\ MaxRequests \in Nat
  BY ThreadsAssumption, LimitAssumption, WindowAssumption, BoundsAssumption

LEMMA Same ==
  /\ Sums!CoalescerAssumption
  /\ \A S : Sums!IsFiniteSet(S) <=> IsFiniteSet(S)
  /\ \A f, S : Sums!SumFunctionOnSet(f, S) = SumFunctionOnSet(f, S)
  <1>1. Sums!CoalescerAssumption
    BY LogAssumption DEF Sums!CoalescerAssumption
  <1>2. \A S : Sums!IsFiniteSet(S) <=> IsFiniteSet(S)
    BY DEF IsFiniteSet, Sums!IsFiniteSet
  <1>3. \A f, S : Sums!SumFunctionOnSet(f, S) = SumFunctionOnSet(f, S)
    BY DEF Sums!SumFunctionOnSet, Sums!FoldFunctionOnSet, Sums!MapThenFoldSet,
           SumFunctionOnSet, FoldFunctionOnSet, MapThenFoldSet
  <1> QED
    BY <1>1, <1>2, <1>3

LEMMA SumIsNat ==
  ASSUME NEW f, NEW S, IsFiniteSet(S), \A x \in S : f[x] \in Nat
  PROVE  SumFunctionOnSet(f, S) \in Nat
  BY Same, Sums!SumIsNat

LEMMA SumNonempty ==
  ASSUME NEW f, NEW S, IsFiniteSet(S), \A x \in S : f[x] \in Int, NEW x \in S
  PROVE  SumFunctionOnSet(f, S) = f[x] + SumFunctionOnSet(f, S \ {x})
  BY Same, Sums!SumNonempty

LEMMA SumCongruent ==
  ASSUME NEW f, NEW g, NEW S, IsFiniteSet(S), \A x \in S : f[x] = g[x]
  PROVE  SumFunctionOnSet(f, S) = SumFunctionOnSet(g, S)
  BY Same, Sums!SumCongruent

LEMMA ZeroSum ==
  ASSUME NEW f, NEW S, IsFiniteSet(S), \A x \in S : f[x] = 0
  PROVE  SumFunctionOnSet(f, S) = 0
  BY Same, Sums!ZeroSum

LEMMA SumOneChanged ==
  ASSUME NEW f, NEW g, NEW S, IsFiniteSet(S), NEW x \in S,
         \A y \in S : f[y] \in Int /\ g[y] \in Int,
         \A y \in S \ {x} : f[y] = g[y]
  PROVE  SumFunctionOnSet(g, S) - g[x] = SumFunctionOnSet(f, S) - f[x]
  BY Same, Sums!SumOneChanged

LEMMA SumOfPart ==
  ASSUME NEW f, NEW S, IsFiniteSet(S), \A x \in S : f[x] \in Nat, NEW T \in SUBSET S
  PROVE  SumFunctionOnSet(f, T) <= SumFunctionOnSet(f, S)
  <1> DEFINE Sum(U) == SumFunctionOnSet(f, U)
             C == {U \in SUBSET S : T \subseteq U /\ ~ Sum(T) <= Sum(U)}
  <1> SUFFICES ASSUME C # {} PROVE FALSE
    OBVIOUS
  <1>1. PICK U \in C : \A V \in SUBSET U : V # U => V \notin C
    <2>1. C \in SUBSET (SUBSET S)
      OBVIOUS
    <2> HIDE DEF C
    <2> QED BY <2>1, Same, Sums!MinimalSubset
  <1>2. IsFiniteSet(U) /\ IsFiniteSet(T) /\ \A x \in U : IsFiniteSet(U \ {x})
    BY FS_Subset
  <1>3. Sum(U) \in Nat /\ Sum(T) \in Nat
    BY <1>2, SumIsNat
  <1>4. PICK x \in U : x \notin T
    BY <1>3
  <1>5. Sum(U) = f[x] + Sum(U \ {x}) /\ Sum(U \ {x}) \in Nat
    <2>1. \A y \in U : f[y] \in Nat /\ f[y] \in Int
      OBVIOUS
    <2>2. \A y \in U \ {x} : f[y] \in Nat
      OBVIOUS
    <2> QED BY <1>2, <2>1, <2>2, SumNonempty, SumIsNat
  <1>6. Sum(T) <= Sum(U \ {x})
    BY <1>1, <1>4
  <1>7. f[x] \in Nat
    OBVIOUS
  <1> HIDE DEF Sum
  <1>8. Sum(T) <= Sum(U)
    BY <1>3, <1>5, <1>6, <1>7
  <1> QED
    BY <1>8 DEF Sum

-----------------------------------------------------------------------------
LEMMA TimesAreFinite == IsFiniteSet(Times)
  BY LogAssumption, FS_Interval DEF Times

LEMMA WindowIsFinite == \A s : IsFiniteSet(InWindowFrom(s)) /\ InWindowFrom(s) \subseteq Times
  BY TimesAreFinite, FS_Subset DEF InWindowFrom

LEMMA SomeThreads ==
  ASSUME NEW S \in SUBSET Threads
  PROVE  /\ IsFiniteSet(S) /\ Cardinality(S) \in Nat /\ Cardinality(S) <= N /\ N \in Nat
         /\ \A t \in S : Cardinality(S \ {t}) = Cardinality(S) - 1
         /\ \A t \in Threads \ S : Cardinality(S) <= N - 1
  <1>1. IsFiniteSet(S) /\ Cardinality(S) \in Nat /\ Cardinality(S) <= N /\ N \in Nat
    BY LogAssumption, FS_Subset, FS_CardinalityType DEF N
  <1>2. \A t \in S : Cardinality(S \ {t}) = Cardinality(S) - 1
    BY <1>1, FS_RemoveElement
  <1>3. ASSUME NEW t \in Threads \ S PROVE Cardinality(S) <= N - 1
    <2>1. IsFiniteSet(Threads \ {t}) /\ Cardinality(Threads \ {t}) = N - 1
      BY LogAssumption, FS_RemoveElement DEF N
    <2>2. S \in SUBSET (Threads \ {t})
      OBVIOUS
    <2> QED BY <2>1, <2>2, FS_Subset
  <1> QED
    BY <1>1, <1>2, <1>3

\* What LogInv says of a state and of one thread in it, in the terms the steps need.
LEMMA LogFacts ==
  ASSUME LogInv
  PROVE  /\ now \in Times /\ now \in Int
         /\ \A s \in Times : s \in Int
         /\ \A ts \in Times : log[ts] \in Nat /\ admits[ts] \in Nat /\ merged[ts] \in Nat
         /\ \A s : EntriesIn(s) \in Nat /\ AdmittedIn(s) \in Nat /\ MergedIn(s) \in Nat
         /\ \A s : /\ AboutTo(s) \in SUBSET Threads /\ Adding(s) \in SUBSET Threads
                   /\ Cardinality(AboutTo(s)) \in Nat /\ Cardinality(Adding(s)) \in Nat
         /\ N \in Nat /\ Limit \in Nat /\ 1 <= Limit /\ Window \in Nat /\ 1 <= Window
  <1>1. \A ts \in Times : log[ts] \in Nat /\ admits[ts] \in Nat /\ merged[ts] \in Nat
    BY DEF LogInv, TypeOK
  <1>2. \A s : EntriesIn(s) \in Nat /\ AdmittedIn(s) \in Nat /\ MergedIn(s) \in Nat
    BY <1>1, WindowIsFinite, SumIsNat DEF EntriesIn, AdmittedIn, MergedIn
  <1>3. \A s : AboutTo(s) \in SUBSET Threads /\ Adding(s) \in SUBSET Threads
    BY DEF AboutTo, Adding
  <1>4. \A s : Cardinality(AboutTo(s)) \in Nat /\ Cardinality(Adding(s)) \in Nat
    BY <1>3, SomeThreads
  <1>5. Threads \in SUBSET Threads
    OBVIOUS
  <1>6. N \in Nat
    BY <1>5, SomeThreads
  <1>7. MaxTime \in Nat /\ Limit \in Nat /\ 1 <= Limit /\ Window \in Nat /\ 1 <= Window
    BY LogAssumption
  <1>8. now \in Times /\ now \in Int /\ \A s \in Times : s \in Int
    BY <1>7 DEF LogInv, TypeOK, Times
  <1> QED
    BY <1>1, <1>2, <1>3, <1>4, <1>6, <1>7, <1>8

\* A function that gains one at ts gains one in the sum of every window with ts in it.
LEMMA SumAddsOne ==
  ASSUME NEW f \in [Times -> Nat], NEW ts \in Times,
         NEW S, IsFiniteSet(S), S \subseteq Times
  PROVE  SumFunctionOnSet(Added(f, ts), S) =
           SumFunctionOnSet(f, S) + (IF ts \in S THEN 1 ELSE 0)
  <1> DEFINE g == Added(f, ts)
  <1>1. g \in [Times -> Nat] /\ g[ts] = f[ts] + 1 /\ \A x \in Times \ {ts} : g[x] = f[x]
    BY DEF Added
  <1>2. \A x \in S : f[x] \in Int /\ g[x] \in Int /\ f[x] \in Nat /\ g[x] \in Nat
    BY <1>1
  <1>3. SumFunctionOnSet(f, S) \in Nat /\ SumFunctionOnSet(g, S) \in Nat
    BY <1>2, SumIsNat
  <1> HIDE DEF g
  <1>4. CASE ts \in S
    <2>1. SumFunctionOnSet(g, S) - g[ts] = SumFunctionOnSet(f, S) - f[ts]
      BY <1>1, <1>2, <1>4, SumOneChanged
    <2>2. SumFunctionOnSet(g, S) = SumFunctionOnSet(f, S) + 1
      BY <2>1, <1>1, <1>3
    <2> QED BY <2>2, <1>4 DEF g
  <1>5. CASE ts \notin S
    <2>1. SumFunctionOnSet(g, S) = SumFunctionOnSet(f, S)
      BY <1>1, <1>5, SumCongruent
    <2> QED BY <2>1, <1>3, <1>5 DEF g
  <1> QED
    BY <1>4, <1>5

\* Where none of the sums changes and no call joins, what held of a window goes on.
LEMMA QuietStep ==
  ASSUME LogInv, NEW s \in Times, now' >= now, now' \in Int,
         EntriesIn(s)' = EntriesIn(s), AdmittedIn(s)' = AdmittedIn(s),
         MergedIn(s)' = MergedIn(s),
         AboutTo(s)' \subseteq AboutTo(s), Adding(s)' \subseteq Adding(s)
  PROVE  (Whole(s) => Whole(s)') /\ (Trimmed(s) => Trimmed(s)')
  <1>1. /\ Cardinality(AboutTo(s)') <= Cardinality(AboutTo(s))
        /\ Cardinality(Adding(s)') <= Cardinality(Adding(s))
        /\ Cardinality(AboutTo(s)') \in Nat /\ Cardinality(Adding(s)') \in Nat
    BY LogFacts, SomeThreads, FS_Subset, FS_CardinalityType
  <1>2. (N)' = N
    BY DEF N
  <1>3. CASE Whole(s)
    <2>1. Whole(s)'
      BY <1>1, <1>2, <1>3, LogFacts DEF Whole
    <2>2. Trimmed(s) => Trimmed(s)'
      BY <1>1, <1>2, LogFacts DEF Trimmed
    <2> QED BY <2>1, <2>2
  <1>4. CASE ~ Whole(s)
    BY <1>1, <1>2, <1>4, LogFacts DEF Trimmed
  <1> QED
    BY <1>3, <1>4

LEMMA LogInit == Init => LogInv
  <1> SUFFICES ASSUME Init PROVE LogInv
    OBVIOUS
  <1>1. TypeOK /\ NothingLost /\ \A t \in Threads : clock[t] <= now
    BY LogAssumption DEF Init, TypeOK, NothingLost, Empty, Times
  <1>2. ASSUME NEW s \in Times PROVE Whole(s)
    <2>1. EntriesIn(s) = 0 /\ AdmittedIn(s) = 0 /\ MergedIn(s) = 0
      BY WindowIsFinite, ZeroSum DEF Init, Empty, EntriesIn, AdmittedIn, MergedIn
    <2>2. Adding(s) = {}
      BY DEF Init, Adding
    <2>3. N \in Nat /\ Cardinality(Adding(s)) = 0
      <3>1. Threads \in SUBSET Threads
        OBVIOUS
      <3> QED BY <2>2, <3>1, SomeThreads, FS_EmptySet
    <2> QED BY <2>1, <2>3, LogAssumption DEF Whole
  <1> QED
    BY <1>1, <1>2 DEF LogInv

LEMMA LogTick == LogInv /\ Tick => LogInv'
  <1> SUFFICES ASSUME LogInv, Tick PROVE LogInv'
    OBVIOUS
  <1>1. TypeOK' /\ (\A t \in Threads : clock[t] <= now)'
    <2>1. TypeOK /\ now \in Times
      BY DEF LogInv, TypeOK
    <2>2. TypeOK'
      <3>1. now' \in Times
        BY <2>1, LogAssumption DEF Tick, Times
      <3> QED BY <2>1, <3>1 DEF TypeOK, Tick
    <2>3. \A t \in Threads : clock[t] <= now /\ clock[t] \in Int /\ now \in Int
      BY LogAssumption DEF LogInv, TypeOK, Times
    <2> QED BY <2>1, <2>2, <2>3 DEF Tick
  <1>2. NothingLost'
    BY LogFacts DEF LogInv, NothingLost, Tick
  <1>3. ASSUME NEW s \in Times PROVE (Whole(s) \/ Trimmed(s))'
    <2>1. /\ EntriesIn(s)' = EntriesIn(s) /\ AdmittedIn(s)' = AdmittedIn(s)
          /\ MergedIn(s)' = MergedIn(s)
          /\ AboutTo(s)' = AboutTo(s) /\ Adding(s)' = Adding(s)
      BY DEF Tick, EntriesIn, AdmittedIn, MergedIn, AboutTo, Adding, InWindowFrom
    <2>2. now' >= now /\ now' \in Int
      BY LogFacts DEF Tick
    <2> QED BY <2>1, <2>2, QuietStep DEF LogInv
  <1> QED
    BY <1>1, <1>2, <1>3 DEF LogInv, Times

LEMMA LogReadClock == \A t \in Threads : LogInv /\ ReadClock(t) => LogInv'
  <1> SUFFICES ASSUME NEW t \in Threads, LogInv, ReadClock(t) PROVE LogInv'
    OBVIOUS
  <1>1. TypeOK'
    BY LogFacts, LogAssumption DEF LogInv, TypeOK, ReadClock, Move
  <1>2. (\A u \in Threads : clock[u] <= now)' /\ NothingLost'
    BY LogFacts DEF LogInv, TypeOK, ReadClock, NothingLost
  <1>3. ASSUME NEW s \in Times PROVE (Whole(s) \/ Trimmed(s))'
    <2>1. /\ EntriesIn(s)' = EntriesIn(s) /\ AdmittedIn(s)' = AdmittedIn(s)
          /\ MergedIn(s)' = MergedIn(s) /\ (N)' = N
      BY DEF ReadClock, EntriesIn, AdmittedIn, MergedIn, InWindowFrom, N
    <2>2. InWindowFrom(s)' = InWindowFrom(s)
      BY DEF ReadClock, InWindowFrom
    <2>3. Adding(s)' = Adding(s)
      BY <2>2 DEF ReadClock, Move, Adding, LogInv, TypeOK
    <2>4. CASE Whole(s)
      BY <2>1, <2>3, <2>4 DEF Whole
    <2>5. CASE Trimmed(s)
      <3>1. now \notin InWindowFrom(s)
        BY <2>5, LogFacts DEF Trimmed, InWindowFrom
      <3>2. AboutTo(s)' = AboutTo(s)
        BY <2>2, <3>1 DEF ReadClock, Move, AboutTo, LogInv, TypeOK
      <3> QED BY <2>1, <2>5, <3>2 DEF Trimmed, ReadClock
    <2> QED BY <2>4, <2>5 DEF LogInv
  <1> QED
    BY <1>1, <1>2, <1>3 DEF LogInv, Times

\* A removal takes no entry of a window that the remover's own window begins before, and
\* otherwise the remover began after that window's end.
LEMMA LogRemove == \A t \in Threads : LogInv /\ RemoveExpired(t) => LogInv'
  <1> SUFFICES ASSUME NEW t \in Threads, LogInv, RemoveExpired(t) PROVE LogInv'
    OBVIOUS
  <1>t. clock[t] \in Int /\ clock[t] <= now /\ WindowStart(t) = clock[t] - Window
    BY LogFacts DEF LogInv, TypeOK, WindowStart
  <1>1. TypeOK'
    <2>1. log' \in [Times -> Nat]
      BY LogFacts DEF RemoveExpired, WithoutExpired
    <2> QED BY <2>1 DEF LogInv, TypeOK, RemoveExpired, Move
  <1>2. NothingLost'
    <2> SUFFICES ASSUME NEW ts \in Times,
                        now - Window < ts \/ (now - Window = ts /\ store = "list")
                 PROVE  admits[ts] = log'[ts] + merged[ts]
      BY DEF NothingLost, RemoveExpired
    <2>1. ~ Expired(ts, WindowStart(t))
      BY <1>t, LogFacts DEF Expired
    <2>2. log'[ts] = log[ts]
      BY <2>1 DEF RemoveExpired, WithoutExpired
    <2> QED BY <2>2 DEF LogInv, NothingLost
  <1>3. ASSUME NEW s \in Times PROVE (Whole(s) \/ Trimmed(s))'
    <2>1. InWindowFrom(s)' = InWindowFrom(s)
      BY DEF RemoveExpired, InWindowFrom
    <2>2. AboutTo(s)' = AboutTo(s) /\ Adding(s)' = Adding(s)
      BY <2>1 DEF RemoveExpired, Move, AboutTo, Adding, LogInv, TypeOK
    <2>3. AdmittedIn(s)' = AdmittedIn(s) /\ MergedIn(s)' = MergedIn(s)
      BY <2>1 DEF RemoveExpired, AdmittedIn, MergedIn
    <2>4. CASE Trimmed(s)
      BY <2>2, <2>3, <2>4 DEF Trimmed, RemoveExpired, N
    <2>5. CASE Whole(s) /\ clock[t] <= s + Window
      <3>1. \A ts \in InWindowFrom(s) : ~ Expired(ts, WindowStart(t))
        BY <1>t, <2>5, LogFacts, WindowIsFinite DEF Expired, InWindowFrom
      <3>2. \A ts \in InWindowFrom(s) : log'[ts] = log[ts]
        BY <3>1, WindowIsFinite DEF RemoveExpired, WithoutExpired
      <3>3. EntriesIn(s)' = EntriesIn(s)
        BY <2>1, <3>2, WindowIsFinite, SumCongruent DEF EntriesIn
      <3> QED BY <2>2, <2>3, <2>5, <3>3 DEF Whole, N
    <2>6. CASE Whole(s) /\ ~ clock[t] <= s + Window
      <3>1. t \notin AboutTo(s)
        BY <2>6, LogFacts, <1>t DEF AboutTo, InWindowFrom
      <3>2. Cardinality(AboutTo(s)) <= N - 1
        BY <3>1, LogFacts, SomeThreads
      <3>3. AdmittedIn(s) + Cardinality(AboutTo(s)) <= Limit + 2 * (N - 1) + MergedIn(s)
        BY <2>6, <3>2, LogFacts DEF Whole
      <3>4. now > s + Window
        BY <2>6, <1>t, LogFacts
      <3> QED BY <2>2, <2>3, <3>3, <3>4 DEF Trimmed, RemoveExpired, N
    <2> QED BY <2>4, <2>5, <2>6 DEF LogInv
  <1> QED
    BY <1>1, <1>2, <1>3 DEF LogInv, Times, RemoveExpired

\* A call that is allowed has counted the whole of every window it began in.
LEMMA LogDecide == \A t \in Threads : LogInv /\ CountAndDecide(t) => LogInv'
  <1> SUFFICES ASSUME NEW t \in Threads, LogInv, CountAndDecide(t) PROVE LogInv'
    OBVIOUS
  <1>1. TypeOK'
    BY DEF LogInv, TypeOK, CountAndDecide, Move
  <1>2. (\A u \in Threads : clock[u] <= now)' /\ NothingLost'
    BY DEF LogInv, CountAndDecide, NothingLost
  <1>3. ASSUME NEW s \in Times PROVE (Whole(s) \/ Trimmed(s))'
    <2>1. InWindowFrom(s)' = InWindowFrom(s)
      BY DEF CountAndDecide, InWindowFrom
    <2>2. /\ EntriesIn(s)' = EntriesIn(s) /\ AdmittedIn(s)' = AdmittedIn(s)
          /\ MergedIn(s)' = MergedIn(s) /\ (N)' = N
      BY <2>1 DEF CountAndDecide, EntriesIn, AdmittedIn, MergedIn, N
    <2>3. AboutTo(s)' \subseteq AboutTo(s)
      BY <2>1 DEF CountAndDecide, Move, AboutTo, LogInv, TypeOK
    <2>4. CASE Trimmed(s)
      <3>1. Cardinality(AboutTo(s)') <= Cardinality(AboutTo(s))
              /\ Cardinality(AboutTo(s)') \in Nat
        BY <2>3, LogFacts, SomeThreads, FS_Subset, FS_CardinalityType
      <3> QED BY <2>2, <2>4, <3>1, LogFacts DEF Trimmed, CountAndDecide
    <2>5. CASE Whole(s) /\ pc'[t] = "add" /\ clock[t] \in InWindowFrom(s)
      <3> DEFINE InReach == {ts \in Times : ts >= WindowStart(t)}
      <3>1. IsFiniteSet(InReach) /\ InReach \subseteq Times
        BY TimesAreFinite, FS_Subset
      <3>2. InWindowFrom(s) \in SUBSET InReach
        BY <2>5, LogFacts DEF InWindowFrom, WindowStart
      <3>3. EntriesIn(s) <= SumFunctionOnSet(log, InReach)
        BY <3>1, <3>2, LogFacts, SumOfPart DEF EntriesIn
      <3>4. SumFunctionOnSet(log, InReach) < Limit
        <4>1. Allowed(CountFrom(log, WindowStart(t)))
          BY <2>5 DEF CountAndDecide, Move, LogInv, TypeOK
        <4> QED BY <4>1 DEF Allowed, CountFrom
      <3>5. Adding(s)' \in SUBSET Threads
        BY DEF Adding, CountAndDecide
      <3>6. Cardinality(Adding(s)') \in Nat /\ Cardinality(Adding(s)') <= N
        BY <3>5, SomeThreads
      <3>7. SumFunctionOnSet(log, InReach) \in Nat
        BY <3>1, LogFacts, SumIsNat
      <3>8. EntriesIn(s) + Cardinality(Adding(s)') <= Limit + (N - 1)
        <4> HIDE DEF InReach
        <4> QED BY <3>3, <3>4, <3>6, <3>7, LogFacts
      <3> QED BY <2>2, <2>5, <3>8 DEF Whole
    <2>6. CASE Whole(s) /\ ~ (pc'[t] = "add" /\ clock[t] \in InWindowFrom(s))
      <3>1. Adding(s)' = Adding(s)
        BY <2>1, <2>6 DEF CountAndDecide, Move, Adding, LogInv, TypeOK
      <3> QED BY <2>2, <2>6, <3>1 DEF Whole
    <2> QED BY <2>4, <2>5, <2>6 DEF LogInv
  <1> QED
    BY <1>1, <1>2, <1>3 DEF LogInv, Times

\* A timestamp added is one entry and one request more in each window that holds it, and
\* one call fewer about to add.
LEMMA LogAdd == \A t \in Threads : LogInv /\ AddTimestamp(t) => LogInv'
  <1> SUFFICES ASSUME NEW t \in Threads, LogInv, AddTimestamp(t) PROVE LogInv'
    OBVIOUS
  <1>t. clock[t] \in Times /\ log \in [Times -> Nat] /\ admits \in [Times -> Nat]
    BY DEF LogInv, TypeOK
  <1>1. TypeOK'
    <2>1. log' \in [Times -> Nat] /\ admits' \in [Times -> Nat]
      BY <1>t DEF AddTimestamp, Added
    <2> QED BY <2>1 DEF LogInv, TypeOK, AddTimestamp, Move
  <1>2. (\A u \in Threads : clock[u] <= now)' /\ NothingLost'
    <2>1. \A ts \in Times : admits[ts] = log[ts] + merged[ts] => admits'[ts] = log'[ts] + merged[ts]
      BY <1>t, LogFacts DEF AddTimestamp, Added
    <2> QED BY <2>1 DEF LogInv, AddTimestamp, NothingLost
  <1>3. ASSUME NEW s \in Times PROVE (Whole(s) \/ Trimmed(s))'
    <2>1. InWindowFrom(s)' = InWindowFrom(s)
      BY DEF AddTimestamp, InWindowFrom
    <2>2. MergedIn(s)' = MergedIn(s) /\ (N)' = N
      BY <2>1 DEF AddTimestamp, MergedIn, N
    <2>3. CASE clock[t] \in InWindowFrom(s)
      <3>1. EntriesIn(s)' = EntriesIn(s) + 1 /\ AdmittedIn(s)' = AdmittedIn(s) + 1
        BY <1>t, <2>1, <2>3, WindowIsFinite, SumAddsOne DEF AddTimestamp, EntriesIn, AdmittedIn
      <3>2. /\ t \in AboutTo(s) /\ AboutTo(s)' = AboutTo(s) \ {t}
            /\ t \in Adding(s) /\ Adding(s)' = Adding(s) \ {t}
        BY <2>1, <2>3 DEF AddTimestamp, Move, AboutTo, Adding, LogInv, TypeOK
      <3>3. /\ Cardinality(AboutTo(s)') = Cardinality(AboutTo(s)) - 1
            /\ Cardinality(Adding(s)') = Cardinality(Adding(s)) - 1
        BY <3>2, LogFacts, SomeThreads
      <3>4. CASE Whole(s)
        BY <2>2, <3>1, <3>3, <3>4, LogFacts DEF Whole
      <3>5. CASE Trimmed(s)
        BY <2>2, <3>1, <3>3, <3>5, LogFacts DEF Trimmed, AddTimestamp
      <3> QED BY <3>4, <3>5 DEF LogInv
    <2>4. CASE clock[t] \notin InWindowFrom(s)
      <3>1. EntriesIn(s)' = EntriesIn(s) /\ AdmittedIn(s)' = AdmittedIn(s)
        BY <1>t, <2>1, <2>4, WindowIsFinite, SumAddsOne, LogFacts
        DEF AddTimestamp, EntriesIn, AdmittedIn
      <3>2. AboutTo(s)' \subseteq AboutTo(s) /\ Adding(s)' \subseteq Adding(s)
        BY <2>1 DEF AddTimestamp, Move, AboutTo, Adding, LogInv, TypeOK
      <3>3. now' = now /\ now' \in Int /\ now' >= now
        BY LogFacts DEF AddTimestamp
      <3> QED BY <2>2, <3>1, <3>2, <3>3, QuietStep DEF LogInv
    <2> QED BY <2>3, <2>4
  <1> QED
    BY <1>1, <1>2, <1>3 DEF LogInv, Times

\* A request that shares an entry counts as merged, so the bound grows with it.
LEMMA LogAddSame == \A t \in Threads : LogInv /\ AddSameTimestamp(t) => LogInv'
  <1> SUFFICES ASSUME NEW t \in Threads, LogInv, AddSameTimestamp(t) PROVE LogInv'
    OBVIOUS
  <1>t. clock[t] \in Times /\ merged \in [Times -> Nat] /\ admits \in [Times -> Nat]
    BY DEF LogInv, TypeOK
  <1>1. TypeOK'
    <2>1. merged' \in [Times -> Nat] /\ admits' \in [Times -> Nat]
      BY <1>t DEF AddSameTimestamp, Added
    <2> QED BY <2>1 DEF LogInv, TypeOK, AddSameTimestamp, Move
  <1>2. (\A u \in Threads : clock[u] <= now)' /\ NothingLost'
    <2>1. \A ts \in Times : admits[ts] = log[ts] + merged[ts] => admits'[ts] = log[ts] + merged'[ts]
      BY <1>t, LogFacts DEF AddSameTimestamp, Added
    <2> QED BY <2>1 DEF LogInv, AddSameTimestamp, NothingLost
  <1>3. ASSUME NEW s \in Times PROVE (Whole(s) \/ Trimmed(s))'
    <2>1. InWindowFrom(s)' = InWindowFrom(s)
      BY DEF AddSameTimestamp, InWindowFrom
    <2>2. EntriesIn(s)' = EntriesIn(s) /\ (N)' = N
      BY <2>1 DEF AddSameTimestamp, EntriesIn, N
    <2>3. AboutTo(s)' \subseteq AboutTo(s) /\ Adding(s)' \subseteq Adding(s)
      BY <2>1 DEF AddSameTimestamp, Move, AboutTo, Adding, LogInv, TypeOK
    <2>4. /\ Cardinality(AboutTo(s)') <= Cardinality(AboutTo(s))
          /\ Cardinality(Adding(s)') <= Cardinality(Adding(s))
          /\ Cardinality(AboutTo(s)') \in Nat /\ Cardinality(Adding(s)') \in Nat
      BY <2>3, LogFacts, SomeThreads, FS_Subset, FS_CardinalityType
    <2> DEFINE more == IF clock[t] \in InWindowFrom(s) THEN 1 ELSE 0
    <2>5. /\ AdmittedIn(s)' = AdmittedIn(s) + more /\ MergedIn(s)' = MergedIn(s) + more
          /\ more \in Nat
      BY <1>t, <2>1, WindowIsFinite, SumAddsOne DEF AddSameTimestamp, AdmittedIn, MergedIn
    <2> HIDE DEF more
    <2>6. CASE Whole(s)
      BY <2>2, <2>4, <2>5, <2>6, LogFacts DEF Whole
    <2>7. CASE Trimmed(s)
      BY <2>2, <2>4, <2>5, <2>7, LogFacts DEF Trimmed, AddSameTimestamp
    <2> QED BY <2>6, <2>7 DEF LogInv
  <1> QED
    BY <1>1, <1>2, <1>3 DEF LogInv, Times

LEMMA LogClear == LogInv /\ Clear => LogInv'
  <1> SUFFICES ASSUME LogInv, Clear PROVE LogInv'
    OBVIOUS
  <1>1. TypeOK' /\ (\A t \in Threads : clock[t] <= now)' /\ NothingLost'
    BY DEF LogInv, TypeOK, Clear, Empty, NothingLost
  <1>2. ASSUME NEW s \in Times PROVE Whole(s)'
    <2>1. EntriesIn(s)' = 0 /\ AdmittedIn(s)' = 0 /\ MergedIn(s)' = 0
      <3>1. InWindowFrom(s)' = InWindowFrom(s)
        BY DEF Clear, InWindowFrom
      <3> QED BY <3>1, WindowIsFinite, ZeroSum DEF Clear, Empty, EntriesIn, AdmittedIn, MergedIn
    <2>2. Adding(s)' \in SUBSET Threads
      BY DEF Adding
    <2>3. Cardinality(Adding(s)') \in Nat /\ Cardinality(Adding(s)') <= N /\ (N)' = N
      BY <2>2, SomeThreads DEF N
    <2> QED BY <2>1, <2>3, LogFacts DEF Whole
  <1> QED
    BY <1>1, <1>2 DEF LogInv, Times, Clear

LEMMA LogInvariance == Spec => []LogInv
  <1>1. LogInv /\ UNCHANGED vars => LogInv'
    BY DEF vars, LogInv, TypeOK, NothingLost, Whole, Trimmed, EntriesIn, AdmittedIn, MergedIn,
           AboutTo, Adding, InWindowFrom, N
  <1>2. LogInv /\ [Next]_vars => LogInv'
    BY <1>1, LogTick, LogClear, LogReadClock, LogRemove, LogDecide, LogAdd, LogAddSame DEF Next
  <1> QED
    BY <1>2, LogInit, PTL DEF Spec

\* Entries older than the window start are removed, and nothing else is: every request
\* admitted in the last window is in the log, however old the clock of the call is that
\* removes.
THEOREM RemovalsKeepTheWindow == Spec => []RemovalKeepsTheWindow
  <1>1. LogInv => RemovalKeepsTheWindow
    BY LogFacts DEF LogInv, NothingLost, RemovalKeepsTheWindow, InWindowFrom
  <1> QED
    BY <1>1, LogInvariance, PTL

\* No window of the log holds more than the limit and two requests for each thread but
\* one, and in a sorted set those that share an entry; whatever the number of threads and
\* however long a call takes.
THEOREM LogOvershootBounded == Spec => []WindowBoundedByThreads
  <1>1. LogInv => WindowBoundedByThreads
    <2> SUFFICES ASSUME LogInv, NEW s \in Times
                 PROVE  AdmittedIn(s) <= Limit + 2 * (N - 1) + MergedIn(s)
      BY DEF WindowBoundedByThreads, AdmittedIn, MergedIn, N
    <2>1. 1 <= N
      <3>1. Threads \in SUBSET Threads /\ {} \in SUBSET Threads /\ \E t \in Threads : TRUE
        BY LogAssumption
      <3> QED BY <3>1, SomeThreads, FS_EmptySet
    <2> QED BY <2>1, LogFacts DEF LogInv, Whole, Trimmed
  <1> QED
    BY <1>1, LogInvariance, PTL
=============================================================================
