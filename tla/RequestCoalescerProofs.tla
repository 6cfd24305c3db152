----------------------- MODULE RequestCoalescerProofs -----------------------
(***************************************************************************)
(* What the coalescer may reuse, for any number of threads, keys and       *)
(* requests and any window: ReuseIsBacked is inductive on top of types.    *)
(* Then that its statistics agree with its cache, which is about sums over *)
(* the keys; the lemmas on sums come first, for this module and others.    *)
(***************************************************************************)
EXTENDS RequestCoalescer, FiniteSetTheorems, TLAPS

-----------------------------------------------------------------------------
(***************************************************************************)
(* Sums over finite sets.  SumFunctionOnSet is a fold, which picks the     *)
(* elements of the set in an order of its own; a property of sums holds of *)
(* every finite set because a smallest set without it cannot exist.        *)
(***************************************************************************)
\* A collection of subsets of a finite set has a smallest member.
LEMMA MinimalSubset ==
  ASSUME NEW S, IsFiniteSet(S), NEW C \in SUBSET (SUBSET S), C # {}
  PROVE  \E T \in C : \A U \in SUBSET T : U # T => U \notin C
  <1>1. IsWellFoundedOn(StrictSubsetOrdering(S), SUBSET S)
    BY FS_StrictSubsetOrderingWellFounded, FS_FiniteSubsetsOfFinite
  <1>2. PICK T \in C : \A U \in C : ~ (<<U, T>> \in StrictSubsetOrdering(S))
    BY <1>1, WFMin
  <1> QED
    BY <1>2 DEF StrictSubsetOrdering

\* What the fold behind SumFunctionOnSet is: a function on the subsets of S.
IsFold(g, f, S) ==
  g = [s \in SUBSET S |->
         IF s = {} THEN 0 ELSE LET x == CHOOSE x \in s : TRUE IN f[x] + g[s \ {x}]]

LEMMA FoldsAgree ==
  ASSUME NEW f, NEW S, NEW T, NEW g, NEW h, IsFiniteSet(S), IsFold(g, f, S), IsFold(h, f, T),
         NEW V \in SUBSET S, V \in SUBSET T
  PROVE  g[V] = h[V]
  <1> DEFINE C == {U \in SUBSET V : g[U] # h[U]}
  <1> SUFFICES ASSUME C # {} PROVE FALSE
    OBVIOUS
  <1>1. IsFiniteSet(V)
    BY FS_Subset
  <1>2. PICK U \in C : \A W \in SUBSET U : W # U => W \notin C
    <2>1. C \in SUBSET (SUBSET V)
      OBVIOUS
    <2> HIDE DEF C
    <2> QED BY <1>1, <2>1, MinimalSubset
  <1>3. U # {}
    BY <1>2 DEF IsFold
  <1> DEFINE x == CHOOSE x \in U : TRUE
  <1>4. x \in U
    BY <1>3
  <1>5. g[U] = f[x] + g[U \ {x}]
    BY <1>3 DEF IsFold
  <1>6. h[U] = f[x] + h[U \ {x}]
    BY <1>3 DEF IsFold
  <1>7. g[U \ {x}] = h[U \ {x}]
    BY <1>2, <1>4
  <1> QED
    BY <1>5, <1>6, <1>7

LEMMA FoldExists ==
  ASSUME NEW f, NEW S, IsFiniteSet(S)
  PROVE  \E g : IsFold(g, f, S)
  <1> DEFINE C == {T \in SUBSET S : ~ \E g : IsFold(g, f, T)}
  <1> SUFFICES C = {}
    OBVIOUS
  <1> SUFFICES ASSUME C # {} PROVE FALSE
    OBVIOUS
  <1>1. PICK M \in C : \A U \in SUBSET M : U # M => U \notin C
    <2>1. C \in SUBSET (SUBSET S)
      OBVIOUS
    <2> HIDE DEF C
    <2> QED BY <2>1, MinimalSubset
  <1> DEFINE G(U) == CHOOSE g : IsFold(g, f, U)
             g == [s \in SUBSET M |->
                    IF s = {} THEN 0
                    ELSE LET x == CHOOSE x \in s : TRUE IN f[x] + G(s \ {x})[s \ {x}]]
  <1>2. \A U \in SUBSET M : U # M => IsFold(G(U), f, U)
    BY <1>1
  <1>3. ASSUME NEW s \in SUBSET M, s # {}
        PROVE  g[s] = LET x == CHOOSE x \in s : TRUE IN f[x] + g[s \ {x}]
    <2> DEFINE x == CHOOSE x \in s : TRUE
               U == s \ {x}
    <2>1. x \in s /\ U \in SUBSET M /\ U # M
      BY <1>3
    <2>2. g[s] = f[x] + G(U)[U]
      BY <1>3
    <2>3. g[U] = G(U)[U]
      <3>1. CASE U = {}
        <4>1. g[U] = 0
          BY <3>1
        <4>2. IsFold(G(U), f, U) /\ U \in SUBSET U
          BY <2>1, <1>2
        <4> HIDE DEF g, G
        <4>3. G(U)[U] = 0
          BY <4>2, <3>1 DEF IsFold
        <4> QED BY <4>1, <4>3
      <3>2. CASE U # {}
        <4> DEFINE y == CHOOSE y \in U : TRUE
                   W == U \ {y}
        <4>1. y \in U /\ W \in SUBSET M /\ W # M /\ W \in SUBSET U
          BY <3>2
        <4>2. g[U] = f[y] + G(W)[W]
          BY <3>2
        <4>3. G(U)[U] = f[y] + G(U)[W]
          BY <3>2, <2>1, <1>2 DEF IsFold
        <4>4. IsFold(G(U), f, U) /\ IsFold(G(W), f, W) /\ IsFiniteSet(U)
          BY <1>2, <2>1, <4>1, FS_Subset
        <4>5. G(U)[W] = G(W)[W]
          BY <4>1, <4>4, FoldsAgree
        <4> QED BY <4>2, <4>3, <4>5
      <3> QED BY <3>1, <3>2
    <2> QED BY <2>2, <2>3
  <1>4. g[{}] = 0
    OBVIOUS
  <1>5. IsFold(g, f, M)
    <2>1. g = [s \in SUBSET M |-> g[s]]
      OBVIOUS
    <2> HIDE DEF g
    <2>2. ASSUME NEW s \in SUBSET M
          PROVE  g[s] = IF s = {} THEN 0 ELSE LET x == CHOOSE x \in s : TRUE IN f[x] + g[s \ {x}]
      BY <1>3, <1>4
    <2> QED
      BY <2>1, <2>2 DEF IsFold
  <1> QED
    BY <1>5

LEMMA SumIsAFold ==
  ASSUME NEW f, NEW S, IsFiniteSet(S)
  PROVE  \E g : IsFold(g, f, S) /\ SumFunctionOnSet(f, S) = g[S]
  <1> DEFINE g == CHOOSE g : IsFold(g, f, S)
  <1>1. IsFold(g, f, S)
    BY FoldExists
  <1>2. SumFunctionOnSet(f, S) = g[S]
    BY DEF SumFunctionOnSet, FoldFunctionOnSet, MapThenFoldSet, IsFold
  <1> QED
    BY <1>1, <1>2

LEMMA SumStep ==
  ASSUME NEW f, NEW S, IsFiniteSet(S), S # {}
  PROVE  LET x == CHOOSE x \in S : TRUE
         IN  x \in S /\ SumFunctionOnSet(f, S) = f[x] + SumFunctionOnSet(f, S \ {x})
  <1> DEFINE x == CHOOSE x \in S : TRUE
  <1>1. x \in S
    OBVIOUS
  <1>2. IsFiniteSet(S \ {x})
    BY FS_RemoveElement
  <1>3. PICK g : IsFold(g, f, S) /\ SumFunctionOnSet(f, S) = g[S]
    BY SumIsAFold
  <1>4. PICK h : IsFold(h, f, S \ {x}) /\ SumFunctionOnSet(f, S \ {x}) = h[S \ {x}]
    BY SumIsAFold, <1>2
  <1>5. g[S] = f[x] + g[S \ {x}]
    BY <1>3 DEF IsFold
  <1>6. g[S \ {x}] = h[S \ {x}]
    BY <1>2, <1>3, <1>4, FoldsAgree
  <1> QED
    BY <1>1, <1>3, <1>4, <1>5, <1>6

LEMMA SumEmpty == ASSUME NEW f PROVE SumFunctionOnSet(f, {}) = 0
  <1>1. PICK g : IsFold(g, f, {}) /\ SumFunctionOnSet(f, {}) = g[{}]
    BY SumIsAFold, FS_EmptySet
  <1>2. {} \in SUBSET {}
    OBVIOUS
  <1> QED
    BY <1>1, <1>2 DEF IsFold

\* A statement about sums is true of every finite set if it is true of none of its
\* smallest counterexamples.
LEMMA SumIsInt ==
  ASSUME NEW f, NEW S, IsFiniteSet(S), \A x \in S : f[x] \in Int
  PROVE  SumFunctionOnSet(f, S) \in Int
  <1> DEFINE C == {T \in SUBSET S : SumFunctionOnSet(f, T) \notin Int}
  <1> SUFFICES ASSUME C # {} PROVE FALSE
    OBVIOUS
  <1>1. PICK T \in C : \A U \in SUBSET T : U # T => U \notin C
    <2>1. C \in SUBSET (SUBSET S)
      OBVIOUS
    <2> HIDE DEF C
    <2> QED BY <2>1, MinimalSubset
  <1>2. T # {}
    BY SumEmpty
  <1>3. PICK x \in T : SumFunctionOnSet(f, T) = f[x] + SumFunctionOnSet(f, T \ {x})
    BY <1>2, SumStep, FS_Subset
  <1>4. SumFunctionOnSet(f, T \ {x}) \in Int
    BY <1>1
  <1> QED
    BY <1>3, <1>4

LEMMA SumNonempty ==
  ASSUME NEW f, NEW S, IsFiniteSet(S), \A x \in S : f[x] \in Int, NEW x \in S
  PROVE  SumFunctionOnSet(f, S) = f[x] + SumFunctionOnSet(f, S \ {x})
  <1> DEFINE Sum(T) == SumFunctionOnSet(f, T)
             C == {T \in SUBSET S : \E z \in T : Sum(T) # f[z] + Sum(T \ {z})}
  <1> SUFFICES ASSUME C # {} PROVE FALSE
    OBVIOUS
  <1>1. PICK T \in C : \A U \in SUBSET T : U # T => U \notin C
    <2>1. C \in SUBSET (SUBSET S)
      OBVIOUS
    <2> HIDE DEF C
    <2> QED BY <2>1, MinimalSubset
  <1>2. PICK z \in T : Sum(T) # f[z] + Sum(T \ {z})
    OBVIOUS
  <1>3. PICK y \in T : Sum(T) = f[y] + Sum(T \ {y})
    BY <1>2, SumStep, FS_Subset
  <1>4. y # z
    BY <1>2, <1>3
  <1>5. /\ Sum(T \ {y}) = f[z] + Sum((T \ {y}) \ {z})
        /\ Sum(T \ {z}) = f[y] + Sum((T \ {z}) \ {y})
    BY <1>1, <1>4
  <1>6. (T \ {y}) \ {z} = (T \ {z}) \ {y}
    OBVIOUS
  <1>7. Sum((T \ {y}) \ {z}) \in Int /\ f[y] \in Int /\ f[z] \in Int
    <2>1. (T \ {y}) \ {z} \in SUBSET S
      OBVIOUS
    <2> QED BY <2>1, SumIsInt, FS_Subset
  <1> HIDE DEF Sum
  <1> QED
    BY <1>2, <1>3, <1>5, <1>6, <1>7

LEMMA SumCongruent ==
  ASSUME NEW f, NEW g, NEW S, IsFiniteSet(S), \A x \in S : f[x] = g[x]
  PROVE  SumFunctionOnSet(f, S) = SumFunctionOnSet(g, S)
  <1> DEFINE C == {T \in SUBSET S : SumFunctionOnSet(f, T) # SumFunctionOnSet(g, T)}
  <1> SUFFICES ASSUME C # {} PROVE FALSE
    OBVIOUS
  <1>1. PICK T \in C : \A U \in SUBSET T : U # T => U \notin C
    <2>1. C \in SUBSET (SUBSET S)
      OBVIOUS
    <2> HIDE DEF C
    <2> QED BY <2>1, MinimalSubset
  <1>2. T # {}
    BY SumEmpty
  <1> DEFINE x == CHOOSE x \in T : TRUE
  <1>3. /\ x \in T
        /\ SumFunctionOnSet(f, T) = f[x] + SumFunctionOnSet(f, T \ {x})
        /\ SumFunctionOnSet(g, T) = g[x] + SumFunctionOnSet(g, T \ {x})
    BY <1>2, SumStep, FS_Subset
  <1>4. SumFunctionOnSet(f, T \ {x}) = SumFunctionOnSet(g, T \ {x})
    BY <1>1, <1>3
  <1> QED
    BY <1>3, <1>4

LEMMA SumIsNat ==
  ASSUME NEW f, NEW S, IsFiniteSet(S), \A x \in S : f[x] \in Nat
  PROVE  SumFunctionOnSet(f, S) \in Nat
  <1> DEFINE C == {T \in SUBSET S : SumFunctionOnSet(f, T) \notin Nat}
  <1> SUFFICES ASSUME C # {} PROVE FALSE
    OBVIOUS
  <1>1. PICK T \in C : \A U \in SUBSET T : U # T => U \notin C
    <2>1. C \in SUBSET (SUBSET S)
      OBVIOUS
    <2> HIDE DEF C
    <2> QED BY <2>1, MinimalSubset
  <1>2. T # {}
    BY SumEmpty
  <1>3. PICK x \in T : SumFunctionOnSet(f, T) = f[x] + SumFunctionOnSet(f, T \ {x})
    BY <1>2, SumStep, FS_Subset
  <1>4. SumFunctionOnSet(f, T \ {x}) \in Nat
    BY <1>1
  <1> QED
    BY <1>3, <1>4

LEMMA ZeroSum ==
  ASSUME NEW f, NEW S, IsFiniteSet(S), \A x \in S : f[x] = 0
  PROVE  SumFunctionOnSet(f, S) = 0
  <1> DEFINE C == {T \in SUBSET S : SumFunctionOnSet(f, T) # 0}
  <1> SUFFICES ASSUME C # {} PROVE FALSE
    OBVIOUS
  <1>1. PICK T \in C : \A U \in SUBSET T : U # T => U \notin C
    <2>1. C \in SUBSET (SUBSET S)
      OBVIOUS
    <2> HIDE DEF C
    <2> QED BY <2>1, MinimalSubset
  <1>2. T # {}
    BY SumEmpty
  <1>3. PICK x \in T : SumFunctionOnSet(f, T) = f[x] + SumFunctionOnSet(f, T \ {x})
    BY <1>2, SumStep, FS_Subset
  <1>4. SumFunctionOnSet(f, T \ {x}) = 0
    BY <1>1
  <1> QED
    BY <1>3, <1>4

\* Changing one term changes the sum by as much.
LEMMA SumOneChanged ==
  ASSUME NEW f, NEW g, NEW S, IsFiniteSet(S), NEW x \in S,
         \A y \in S : f[y] \in Int /\ g[y] \in Int,
         \A y \in S \ {x} : f[y] = g[y]
  PROVE  SumFunctionOnSet(g, S) - g[x] = SumFunctionOnSet(f, S) - f[x]
  <1>1. IsFiniteSet(S \ {x})
    BY FS_RemoveElement
  <1>2. SumFunctionOnSet(f, S) = f[x] + SumFunctionOnSet(f, S \ {x})
    BY SumNonempty
  <1>3. SumFunctionOnSet(g, S) = g[x] + SumFunctionOnSet(g, S \ {x})
    BY SumNonempty
  <1>4. SumFunctionOnSet(f, S \ {x}) = SumFunctionOnSet(g, S \ {x})
    BY <1>1, SumCongruent
  <1>5. SumFunctionOnSet(f, S \ {x}) \in Int
    BY <1>1, SumIsInt
  <1> QED
    BY <1>2, <1>3, <1>4, <1>5

\* A bound of every term bounds the sum.
LEMMA SumBounded ==
  ASSUME NEW f, NEW g, NEW S, IsFiniteSet(S),
         \A x \in S : f[x] \in Int /\ g[x] \in Int /\ f[x] <= g[x]
  PROVE  SumFunctionOnSet(f, S) <= SumFunctionOnSet(g, S)
  <1> DEFINE F(T) == SumFunctionOnSet(f, T)
             G(T) == SumFunctionOnSet(g, T)
             C == {T \in SUBSET S : ~ F(T) <= G(T)}
  <1> SUFFICES ASSUME C # {} PROVE FALSE
    OBVIOUS
  <1>1. PICK T \in C : \A U \in SUBSET T : U # T => U \notin C
    <2>1. C \in SUBSET (SUBSET S)
      OBVIOUS
    <2> HIDE DEF C
    <2> QED BY <2>1, MinimalSubset
  <1>2. T # {}
    BY SumEmpty
  <1> DEFINE x == CHOOSE x \in T : TRUE
  <1>3. x \in T /\ F(T) = f[x] + F(T \ {x}) /\ G(T) = g[x] + G(T \ {x})
    BY <1>2, SumStep, FS_Subset
  <1>4. F(T \ {x}) <= G(T \ {x})
    BY <1>1, <1>3
  <1>5. F(T \ {x}) \in Int /\ G(T \ {x}) \in Int /\ f[x] \in Int /\ g[x] \in Int /\ f[x] <= g[x]
    <2>1. T \ {x} \in SUBSET S /\ x \in S
      BY <1>3
    <2>2. IsFiniteSet(T \ {x})
      BY <2>1, FS_Subset
    <2> QED BY <2>1, <2>2, SumIsInt
  <1>6. ~ F(T) <= G(T)
    OBVIOUS
  <1> HIDE DEF F, G, C, x
  <1> QED
    BY <1>3, <1>4, <1>5, <1>6

\* A sum of terms that are no more than n each.
LEMMA SumAtMost ==
  ASSUME NEW f, NEW n \in Nat, NEW S, IsFiniteSet(S), \A x \in S : f[x] \in Nat /\ f[x] <= n
  PROVE  SumFunctionOnSet(f, S) <= n * Cardinality(S)
  <1> DEFINE F(T) == SumFunctionOnSet(f, T)
             C == {T \in SUBSET S : ~ F(T) <= n * Cardinality(T)}
  <1> SUFFICES ASSUME C # {} PROVE FALSE
    OBVIOUS
  <1>1. PICK T \in C : \A U \in SUBSET T : U # T => U \notin C
    <2>1. C \in SUBSET (SUBSET S)
      OBVIOUS
    <2> HIDE DEF C
    <2> QED BY <2>1, MinimalSubset
  <1>2. T # {}
    BY SumEmpty, FS_EmptySet
  <1> DEFINE x == CHOOSE x \in T : TRUE
  <1>3. IsFiniteSet(T) /\ x \in T /\ F(T) = f[x] + F(T \ {x})
    BY <1>2, SumStep, FS_Subset
  <1>4. F(T \ {x}) <= n * Cardinality(T \ {x})
    BY <1>1, <1>3
  <1>5. Cardinality(T) = Cardinality(T \ {x}) + 1 /\ Cardinality(T \ {x}) \in Nat
    <2> HIDE DEF x
    <2>1. IsFiniteSet(T \ {x}) /\ Cardinality(T \ {x}) = Cardinality(T) - 1
      BY <1>3, FS_RemoveElement
    <2> QED BY <1>3, <2>1, FS_CardinalityType
  <1>6. F(T \ {x}) \in Nat /\ f[x] \in Nat /\ f[x] <= n
    <2>1. T \ {x} \in SUBSET S /\ x \in S
      BY <1>3
    <2>2. IsFiniteSet(T \ {x})
      BY <2>1, FS_Subset
    <2> QED BY <2>1, <2>2, SumIsNat
  <1>7. ~ F(T) <= n * Cardinality(T)
    OBVIOUS
  <1> HIDE DEF F, C, x
  <1> DEFINE i == Cardinality(T \ {x})
             y == n * i
  <1>8. n * (i + 1) = y + n /\ y \in Nat
    <2>1. i \in Nat
      BY <1>5
    <2> HIDE DEF i
    <2> QED BY <2>1
  <1>9. F(T) <= y + n
    <2> HIDE DEF y
    <2>1. F(T \ {x}) <= y
      BY <1>4 DEF y
    <2> QED BY <1>3, <1>6, <1>8, <2>1
  <1> QED
    BY <1>5, <1>7, <1>8, <1>9

-----------------------------------------------------------------------------
\* One more result stored pays for one more entry's worth of reuse.
LEMMA OneMoreResult ==
  ASSUME NEW m \in Nat, NEW s \in Int PROVE m * s = m * (s - 1) + m
PROOF BY SMT

LEMMA TypeInit == Init => TypeOK
PROOF BY CoalescerAssumption DEF Init, TypeOK, Times, NoEntry, CoalescedResult, Tally

\* Types are preserved by every step.
LEMMA TypeStep == TypeOK /\ [Next]_vars => TypeOK'
PROOF
<1> SUFFICES ASSUME TypeOK, [Next]_vars PROVE TypeOK'
  OBVIOUS
<1> USE CoalescerAssumption DEF Times, NoEntry, CoalescedResult, Tally
<1>2. TypeOK'
  <2>1. CASE Tick
    BY <2>1 DEF Tick, TypeOK
  <2>2. CASE Clear
    BY <2>2 DEF Clear, TypeOK
  <2>3. ASSUME NEW t \in Threads, NEW k \in Keys, Arrive(t, k) PROVE TypeOK'
    BY <2>3 DEF Arrive, Move, TypeOK
  <2>4. ASSUME NEW t \in Threads, Hit(t) PROVE TypeOK'
    <3>1. cache[key[t]] \in CoalescedResult
      BY <2>4 DEF Hit, Usable, TypeOK
    <3>2. cache[key[t]].request_count + 1 \in 1 .. MaxCoalesce
      BY <2>4, <3>1 DEF Hit, Usable
    <3>3. [cache[key[t]] EXCEPT !.request_count = @ + 1] \in CoalescedResult
      BY <3>1, <3>2
    <3>4. cache' \in [Keys -> CoalescedResult \cup {NoEntry}]
      BY <2>4, <3>3 DEF Hit, TypeOK
    <3>5. stats' \in [hits : Nat, misses : Nat, evictions : Nat]
      <4>1. stats.hits + 1 \in Nat
        BY DEF TypeOK
      <4>2. stats' = [stats EXCEPT !.hits = stats.hits + 1]
        BY <2>4 DEF Hit
      <4> QED BY <4>1, <4>2 DEF TypeOK
    <3>6. reused' \in Tally
      <4>1. key[t] \in Keys /\ cache[key[t]].result \in BOOLEAN
        BY <3>1 DEF TypeOK
      <4> QED BY <2>4, <4>1 DEF Hit, TypeOK
    <3> QED BY <2>4, <3>4, <3>5, <3>6 DEF Hit, Move, TypeOK
  <2>5. ASSUME NEW t \in Threads, Miss(t) PROVE TypeOK'
    <3>1. stats' \in [hits : Nat, misses : Nat, evictions : Nat]
      <4> DEFINE d == IF cache[key[t]] = NoEntry THEN 0 ELSE 1
      <4>1. stats.misses + 1 \in Nat /\ stats.evictions + d \in Nat
        BY DEF TypeOK
      <4>2. stats' = [stats EXCEPT !.misses = stats.misses + 1, !.evictions = stats.evictions + d]
        BY <2>5 DEF Miss
      <4> HIDE DEF d
      <4> QED BY <4>1, <4>2 DEF TypeOK
    <3>2. cache' \in [Keys -> CoalescedResult \cup {NoEntry}]
      BY <2>5 DEF Miss, TypeOK
    <3> QED BY <2>5, <3>1, <3>2 DEF Miss, Move, TypeOK
  <2>6. ASSUME NEW t \in Threads, NEW b \in BOOLEAN, Decide(t, b) PROVE TypeOK'
    BY <2>6 DEF Decide, Move, TypeOK
  <2>7. ASSUME NEW t \in Threads, Abandon(t) PROVE TypeOK'
    BY <2>7 DEF Abandon, Move, TypeOK
  <2>8. ASSUME NEW t \in Threads, Store(t) PROVE TypeOK'
    <3>1. key[t] \in Keys /\ checked[t] \in BOOLEAN /\ now \in Times
      BY DEF TypeOK
    <3>2. [result |-> checked[t], timestamp |-> now, request_count |-> 1] \in CoalescedResult
      BY <3>1
    <3>3. cache' \in [Keys -> CoalescedResult \cup {NoEntry}]
      BY <2>8, <3>1, <3>2 DEF Store, TypeOK
    <3>4. stored' \in Tally
      BY <2>8, <3>1 DEF Store, TypeOK
    <3> QED BY <2>8, <3>3, <3>4 DEF Store, Move, TypeOK
  <2>9. CASE UNCHANGED vars
    BY <2>9 DEF vars, TypeOK
  <2> QED BY <2>1, <2>2, <2>3, <2>4, <2>5, <2>6, <2>7, <2>8, <2>9 DEF Next, Call
<1> QED BY <1>2

LEMMA TypeInvariance == Spec => []TypeOK
PROOF BY TypeInit, TypeStep, PTL DEF Spec

\* The type invariant of the coalescer: a cached result is never counted for more
\* than max_coalesce requests.
THEOREM TypeCorrect == Spec => []TypeOK
PROOF BY TypeInvariance

LEMMA BackedInit == Init => ReuseIsBacked
PROOF BY CoalescerAssumption DEF Init, ReuseIsBacked, Spent, ReusedFromEntry, NoEntry

\* Whatever the cache holds of them, reuses stay within what was stored.
LEMMA ReuseWithinStored ==
  ASSUME TypeOK, ReuseIsBacked, NEW k \in Keys, NEW b \in BOOLEAN
  PROVE  reused[k][b] <= (MaxCoalesce - 1) * stored[k][b]
PROOF
<1> USE CoalescerAssumption
<1>b. reused[k][b] <= (MaxCoalesce - 1) * (stored[k][b] - Spent(k, b)) + ReusedFromEntry(k, b)
  BY DEF ReuseIsBacked
<1>m. MaxCoalesce - 1 \in Nat
  OBVIOUS
<1>t. /\ reused[k][b] \in Nat
      /\ stored[k][b] \in Nat
      /\ cache[k] \in CoalescedResult \cup {NoEntry}
  BY DEF TypeOK, Tally
<1>e. cache[k] # NoEntry =>
        /\ cache[k].request_count \in 1 .. MaxCoalesce
        /\ cache[k].result \in BOOLEAN
  BY <1>t DEF CoalescedResult
<1>l. (MaxCoalesce - 1) * stored[k][b] = (MaxCoalesce - 1) * (stored[k][b] - 1) + (MaxCoalesce - 1)
  BY <1>m, <1>t, OneMoreResult
<1>r. ReusedFromEntry(k, b) <= (MaxCoalesce - 1) * Spent(k, b)
  BY <1>e, <1>m DEF ReusedFromEntry, Spent
<1>0. reused[k][b] <= (MaxCoalesce - 1) * stored[k][b]
  <2>1. CASE Spent(k, b) = 1
    BY <2>1, <1>b, <1>l, <1>r, <1>m, <1>t, <1>e DEF ReusedFromEntry, Spent
  <2>2. CASE Spent(k, b) = 0
    BY <2>2, <1>b, <1>r, <1>m, <1>t, <1>e DEF ReusedFromEntry, Spent
  <2> QED BY <2>1, <2>2 DEF Spent
<1> QED BY <1>0

\* Only Hit, Miss, Store and Clear touch what ReuseIsBacked speaks of, and they
\* touch it for one key (Clear for all of them) and one decision.
LEMMA BackedStep == TypeOK /\ ReuseIsBacked /\ [Next]_vars => ReuseIsBacked'
PROOF
<1> SUFFICES ASSUME TypeOK, ReuseIsBacked, [Next]_vars PROVE ReuseIsBacked'
  OBVIOUS
<1> USE CoalescerAssumption
<1> DEFINE Backed(k, b) ==
      reused[k][b] <= (MaxCoalesce - 1) * (stored[k][b] - Spent(k, b)) + ReusedFromEntry(k, b)
<1>2. ReuseIsBacked'
  <2> SUFFICES ASSUME NEW k \in Keys, NEW b \in BOOLEAN PROVE Backed(k, b)'
    BY DEF ReuseIsBacked
  <2>b. Backed(k, b)
    BY DEF ReuseIsBacked
  <2>m. MaxCoalesce - 1 \in Nat
    OBVIOUS
  <2>t. /\ reused[k][b] \in Nat
        /\ stored[k][b] \in Nat
        /\ cache[k] \in CoalescedResult \cup {NoEntry}
    BY DEF TypeOK, Tally
  <2>e. cache[k] # NoEntry =>
          /\ cache[k].request_count \in 1 .. MaxCoalesce
          /\ cache[k].result \in BOOLEAN
    BY <2>t DEF CoalescedResult
  <2>0. reused[k][b] <= (MaxCoalesce - 1) * stored[k][b]
    BY ReuseWithinStored
  <2>g. \* a step that leaves the key with no entry
        ASSUME reused'[k][b] = reused[k][b], stored'[k][b] = stored[k][b], cache'[k] = NoEntry
        PROVE  Backed(k, b)'
    BY <2>g, <2>0, <2>m, <2>t DEF ReusedFromEntry, Spent
  <2>u. \* a step that leaves the key alone
        ASSUME reused'[k] = reused[k], stored'[k] = stored[k], cache'[k] = cache[k]
        PROVE  Backed(k, b)'
    BY <2>u, <2>b DEF ReusedFromEntry, Spent
  <2>1. CASE Tick
    BY <2>1, <2>u DEF Tick
  <2>2. CASE Clear
    BY <2>2, <2>g DEF Clear
  <2>3. ASSUME NEW t \in Threads, NEW j \in Keys, Arrive(t, j) PROVE Backed(k, b)'
    BY <2>3, <2>u DEF Arrive
  <2>4. ASSUME NEW t \in Threads, Hit(t) PROVE Backed(k, b)'
    <3>1. CASE key[t] # k
      BY <2>4, <3>1, <2>u DEF Hit, TypeOK, Tally
    <3>2. CASE key[t] = k
      <4> DEFINE e == cache[k]
      <4>1. e \in CoalescedResult
        BY <2>4, <3>2, <2>t DEF Hit, Usable
      <4>2. /\ cache'[k] = [e EXCEPT !.request_count = @ + 1]
            /\ stored' = stored
            /\ reused'[k] = [reused[k] EXCEPT ![e.result] = @ + 1]
        BY <2>4, <3>2 DEF Hit, TypeOK, Tally
      <4>3. /\ cache'[k] # NoEntry
            /\ cache'[k].result = e.result
            /\ cache'[k].request_count = e.request_count + 1
            /\ e # NoEntry
        BY <4>1, <4>2 DEF CoalescedResult, NoEntry
      <4>5. Spent(k, b)' = Spent(k, b)
        BY <4>3 DEF Spent
      <4>6. CASE e.result = b
        <5>1. reused'[k][b] = reused[k][b] + 1
          BY <4>2, <4>6 DEF TypeOK, Tally
        <5>2. ReusedFromEntry(k, b)' = ReusedFromEntry(k, b) + 1
          BY <4>1, <4>3, <4>6 DEF ReusedFromEntry, CoalescedResult
        <5>3. Spent(k, b) \in Int /\ ReusedFromEntry(k, b) \in Int
          BY <2>e DEF Spent, ReusedFromEntry
        <5> QED BY <5>1, <5>2, <5>3, <4>2, <4>5, <2>b, <2>t, <2>m
      <4>7. CASE e.result # b
        <5>1. reused'[k][b] = reused[k][b]
          BY <4>2, <4>7 DEF TypeOK, Tally
        <5>2. ReusedFromEntry(k, b)' = ReusedFromEntry(k, b)
          BY <4>3, <4>7 DEF ReusedFromEntry
        <5> QED BY <5>1, <5>2, <4>2, <4>5, <2>b
      <4> QED BY <4>6, <4>7
    <3> QED BY <3>1, <3>2
  <2>5. ASSUME NEW t \in Threads, Miss(t) PROVE Backed(k, b)'
    <3>1. CASE key[t] # k
      BY <2>5, <3>1, <2>u DEF Miss, TypeOK
    <3>2. CASE key[t] = k
      BY <2>5, <3>2, <2>g DEF Miss, TypeOK
    <3> QED BY <3>1, <3>2
  <2>6. ASSUME NEW t \in Threads, NEW a \in BOOLEAN, Decide(t, a) PROVE Backed(k, b)'
    BY <2>6, <2>u DEF Decide
  <2>7. ASSUME NEW t \in Threads, Abandon(t) PROVE Backed(k, b)'
    BY <2>7, <2>u DEF Abandon
  <2>8. ASSUME NEW t \in Threads, Store(t) PROVE Backed(k, b)'
    <3>1. CASE key[t] # k
      BY <2>8, <3>1, <2>u DEF Store, TypeOK, Tally
    <3>2. CASE key[t] = k
      <4>1. /\ cache'[k] = [result |-> checked[t], timestamp |-> now, request_count |-> 1]
            /\ reused' = reused
            /\ stored'[k] = [stored[k] EXCEPT ![checked[t]] = @ + 1]
        BY <2>8, <3>2 DEF Store, TypeOK, Tally
      <4>2. cache'[k] # NoEntry /\ cache'[k].result = checked[t]
        BY <4>1 DEF NoEntry
      <4>3. ReusedFromEntry(k, b)' = 0
        BY <4>1, <4>2 DEF ReusedFromEntry
      <4>4. stored'[k][b] - Spent(k, b)' = stored[k][b]
        <5>1. CASE checked[t] = b
          BY <5>1, <4>1, <4>2, <2>t DEF Spent, TypeOK, Tally
        <5>2. CASE checked[t] # b
          BY <5>2, <4>1, <4>2, <2>t DEF Spent, TypeOK, Tally
        <5> QED BY <5>1, <5>2
      <4> QED BY <4>1, <4>3, <4>4, <2>0, <2>m, <2>t
    <3> QED BY <3>1, <3>2
  <2>9. CASE UNCHANGED vars
    BY <2>9, <2>u DEF vars
  <2> QED BY <2>1, <2>2, <2>3, <2>4, <2>5, <2>6, <2>7, <2>8, <2>9 DEF Next, Call
<1> QED BY <1>2

\* What is given from the cache never exceeds what was stored in it, max_coalesce - 1
\* times over.
THEOREM ReusesAreBacked == Spec => []ReuseIsBacked
PROOF BY BackedInit, BackedStep, TypeInvariance, PTL DEF Spec

-----------------------------------------------------------------------------
\* What a tally says of a key, whatever the decision.
Both(f, k) == f[k][TRUE] + f[k][FALSE]
Total(f) == SumFunctionOnSet([k \in Keys |-> Both(f, k)], Keys)
Entries == {k \in Keys : cache[k] # NoEntry}

LEMMA BothIsNat == \A f \in Tally : \A k \in Keys : Both(f, k) \in Nat
  <1> SUFFICES ASSUME NEW f \in Tally, NEW k \in Keys PROVE Both(f, k) \in Nat
    OBVIOUS
  <1> DEFINE x == f[k][TRUE]
             y == f[k][FALSE]
  <1>1. x \in Nat /\ y \in Nat
    BY DEF Tally
  <1>2. Both(f, k) = x + y
    BY DEF Both
  <1> HIDE DEF x, y
  <1> QED
    BY <1>1, <1>2

LEMMA TotalIsNat ==
  ASSUME IsFiniteSet(Keys), NEW f \in Tally PROVE Total(f) \in Nat
  <1> DEFINE F == [k \in Keys |-> Both(f, k)]
  <1>1. \A k \in Keys : F[k] \in Nat
    BY BothIsNat
  <1>2. Total(f) = SumFunctionOnSet(F, Keys)
    BY DEF Total
  <1> HIDE DEF F
  <1> QED
    BY <1>1, <1>2, SumIsNat

\* A tally that counts one more for key k and decision b.
LEMMA TallyGrows ==
  ASSUME IsFiniteSet(Keys), NEW f \in Tally, NEW k \in Keys, NEW b \in BOOLEAN
  PROVE  Total([f EXCEPT ![k][b] = @ + 1]) = Total(f) + 1
  <1> DEFINE g == [f EXCEPT ![k][b] = @ + 1]
             F == [j \in Keys |-> Both(f, j)]
             G == [j \in Keys |-> Both(g, j)]
  <1>1. g \in Tally
    BY DEF Tally
  <1>2. \A j \in Keys \ {k} : g[j] = f[j]
    BY DEF Tally
  <1>3. Both(g, k) = Both(f, k) + 1
    <2> DEFINE x == f[k][TRUE]
               y == f[k][FALSE]
               u == g[k][TRUE]
               v == g[k][FALSE]
    <2>1. x \in Nat /\ y \in Nat
      BY DEF Tally
    <2>2. Both(f, k) = x + y /\ Both(g, k) = u + v
      BY DEF Both
    <2>3. g[k] = [f[k] EXCEPT ![b] = f[k][b] + 1]
      BY DEF Tally
    <2>4. DOMAIN f[k] = {TRUE, FALSE}
      BY DEF Tally
    <2>5. CASE b = TRUE
      <3>1. u = x + 1 /\ v = y
        BY <2>3, <2>4, <2>5
      <3> HIDE DEF x, y, u, v
      <3> QED
        BY <2>1, <2>2, <3>1
    <2>6. CASE b = FALSE
      <3>1. u = x /\ v = y + 1
        BY <2>3, <2>4, <2>6
      <3> HIDE DEF x, y, u, v
      <3> QED
        BY <2>1, <2>2, <3>1
    <2> QED
      BY <2>5, <2>6
  <1>4. \A j \in Keys : F[j] \in Int /\ G[j] \in Int
    BY <1>1, BothIsNat
  <1>5. \A j \in Keys \ {k} : F[j] = G[j]
    BY <1>2 DEF Both
  <1>6. Total(f) = SumFunctionOnSet(F, Keys) /\ Total(g) = SumFunctionOnSet(G, Keys)
    BY DEF Total
  <1>7. F[k] = Both(f, k) /\ G[k] = Both(g, k)
    OBVIOUS
  <1>8. Total(f) \in Nat /\ Total(g) \in Nat /\ Both(f, k) \in Nat
    BY <1>1, TotalIsNat, BothIsNat
  <1> HIDE DEF F, G, g
  <1>9. SumFunctionOnSet(G, Keys) - G[k] = SumFunctionOnSet(F, Keys) - F[k]
    BY <1>4, <1>5, SumOneChanged
  <1>10. Total(g) = Total(f) + 1
    BY <1>3, <1>6, <1>7, <1>8, <1>9
  <1> QED
    BY <1>10 DEF g

StatisticsMatch ==
  /\ stats.hits = Total(reused)
  /\ stats.evictions + Cardinality(Entries) <= Total(stored)

LEMMA SameStatistics == StatsMatchTheCache <=> StatisticsMatch
  BY DEF StatsMatchTheCache, StatisticsMatch, Total, Both, Entries

LEMMA StatisticsInit ==
  ASSUME IsFiniteSet(Keys), Init
  PROVE  StatisticsMatch
<1>1. /\ \A k \in Keys : Both(reused, k) = 0 /\ Both(stored, k) = 0
      /\ Entries = {} /\ stats.hits = 0 /\ stats.evictions = 0
  BY DEF Init, Both, Entries
<1>2. Total(reused) = 0 /\ Total(stored) = 0
  BY <1>1, ZeroSum DEF Total
<1> QED
  BY <1>1, <1>2, FS_EmptySet DEF StatisticsMatch

LEMMA StatisticsStep ==
  ASSUME IsFiniteSet(Keys), TypeOK, StatisticsMatch, [Next]_vars
  PROVE  StatisticsMatch'
<1> USE CoalescerAssumption DEF StatisticsMatch
<1>t. /\ stats \in [hits : Nat, misses : Nat, evictions : Nat]
      /\ stored \in Tally /\ reused \in Tally
      /\ stats.hits \in Nat /\ stats.evictions \in Nat
  BY DEF TypeOK
<1>f. /\ IsFiniteSet(Entries) /\ Cardinality(Entries) \in Nat
      /\ Total(stored) \in Nat
  BY <1>t, TotalIsNat, FS_Subset, FS_CardinalityType DEF Entries
<1>u. \* a step the properties do not see
      ASSUME UNCHANGED <<cache, stats, stored, reused>>
      PROVE  StatisticsMatch'
  BY <1>u DEF Entries
<1>1. CASE Tick
  BY <1>1, <1>u DEF Tick
<1>2. CASE Clear
  <2>1. Entries' = {} /\ reused' = reused /\ stored' = stored /\ stats' = stats
    BY <1>2 DEF Clear, Entries
  <2> QED
    BY <2>1, <1>t, <1>f, FS_EmptySet
<1>3. ASSUME NEW t \in Threads, NEW k \in Keys, Arrive(t, k) PROVE StatisticsMatch'
  BY <1>3, <1>u DEF Arrive
<1>4. ASSUME NEW t \in Threads, Hit(t) PROVE StatisticsMatch'
  <2> DEFINE k == key[t]
             b == cache[k].result
  <2>1. k \in Keys /\ b \in BOOLEAN /\ cache[k] \in CoalescedResult
    BY <1>4 DEF TypeOK, Hit, Usable, CoalescedResult
  <2>2. /\ reused' = [reused EXCEPT ![k][b] = @ + 1] /\ stored' = stored
        /\ stats'.hits = stats.hits + 1 /\ stats'.evictions = stats.evictions
        /\ cache' = [cache EXCEPT ![k].request_count = @ + 1]
    BY <1>4, <1>t DEF Hit
  <2>3. Total(reused') = Total(reused) + 1
    BY <2>1, <2>2, <1>t, TallyGrows
  <2>4. Entries' = Entries
    <3>1. cache'[k] # NoEntry /\ cache[k] # NoEntry
      BY <2>1, <2>2 DEF TypeOK, CoalescedResult, NoEntry
    <3>2. \A j \in Keys \ {k} : cache'[j] = cache[j]
      BY <2>2 DEF TypeOK
    <3> QED
      BY <3>1, <3>2 DEF Entries
  <2> QED
    BY <2>2, <2>3, <2>4
<1>5. ASSUME NEW t \in Threads, Miss(t) PROVE StatisticsMatch'
  <2> DEFINE k == key[t]
  <2>1. k \in Keys
    BY DEF TypeOK
  <2>2. /\ stats'.hits = stats.hits
        /\ stats'.evictions = stats.evictions + IF cache[k] = NoEntry THEN 0 ELSE 1
        /\ reused' = reused /\ stored' = stored
        /\ Entries' = Entries \ {k}
    BY <1>5, <1>t DEF Miss, Entries, TypeOK
  <2>3. Cardinality(Entries \ {k}) = IF k \in Entries THEN Cardinality(Entries) - 1 ELSE Cardinality(Entries)
    BY <1>f, FS_RemoveElement
  <2>4. k \in Entries <=> cache[k] # NoEntry
    BY <2>1 DEF Entries
  <2> HIDE DEF k
  <2> QED
    BY <2>2, <2>3, <2>4, <1>f, <1>t
<1>6. ASSUME NEW t \in Threads, NEW b \in BOOLEAN, Decide(t, b) PROVE StatisticsMatch'
  BY <1>6, <1>u DEF Decide
<1>7. ASSUME NEW t \in Threads, Abandon(t) PROVE StatisticsMatch'
  BY <1>7, <1>u DEF Abandon
<1>8. ASSUME NEW t \in Threads, Store(t) PROVE StatisticsMatch'
  <2> DEFINE k == key[t]
             b == checked[t]
  <2>1. k \in Keys /\ b \in BOOLEAN
    BY DEF TypeOK
  <2>2. /\ stored' = [stored EXCEPT ![k][b] = @ + 1]
        /\ stats' = stats /\ reused' = reused
        /\ Entries' = Entries \cup {k}
    BY <1>8, <2>1 DEF Store, Entries, TypeOK, NoEntry
  <2>3. Total(stored') = Total(stored) + 1
    BY <2>1, <2>2, <1>t, TallyGrows
  <2>4. Cardinality(Entries \cup {k}) = IF k \in Entries THEN Cardinality(Entries) ELSE Cardinality(Entries) + 1
    BY <1>f, FS_AddElement
  <2> HIDE DEF k
  <2> QED
    BY <2>2, <2>3, <2>4, <1>f, <1>t
<1>9. CASE UNCHANGED vars
  BY <1>9, <1>u DEF vars
<1> HIDE DEF StatisticsMatch
<1> QED
  BY <1>1, <1>2, <1>3, <1>4, <1>5, <1>6, <1>7, <1>8, <1>9 DEF Next, Call

\* The statistics of get_cached agree with what the cache was given and gave, through
\* any interleaving of calls and clears, if the keys in use are finitely many.
THEOREM StatisticsAgree ==
  ASSUME IsFiniteSet(Keys)
  PROVE  Spec => []StatsMatchTheCache
PROOF
<1>1. Init => StatisticsMatch
  BY StatisticsInit
<1>2. TypeOK /\ StatisticsMatch /\ [Next]_vars => StatisticsMatch'
  BY StatisticsStep
<1> QED
  BY <1>1, <1>2, SameStatistics, TypeInvariance, PTL DEF Spec
=============================================================================
