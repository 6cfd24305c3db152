------------------------- MODULE FixedWindowProofs -------------------------
(***************************************************************************)
(* Theorems about FixedWindow, for every number of threads, limit, window  *)
(* length and bound.  The argument: a thread charges window w only at or   *)
(* after its beginning w * Window, so an entry created for w lives at      *)
(* least until w ends; hence while w lasts there is one entry, its counter *)
(* never starts again, and it admits its first Limit requests only.        *)
(* What is decided in w but charged to a window before it comes from a     *)
(* thread that began before w, and each thread began one call at most      *)
(* before w that had not ended.                                            *)
(***************************************************************************)
EXTENDS FixedWindow, FiniteSetTheorems, TLAPS

\* A thread about to increment charges a window that has already begun.
StragglersLookBack == \A t \in Threads : current_window[t] <= WindowOf(now)

\* A window that has not ended has admitted nothing but through its entry.
OnTimeThroughEntry ==
  \A w \in Windows :
    /\ counters[w] = Missing => on_time[w] = 0
    /\ WindowOf(now) <= w => on_time[w] <= admitted_in[w]

\* The calls that began before w and will be decided in w or later.
Stragglers(w) == {t \in Threads : pc[t] = "increment" /\ current_window[t] < w}

\* Nothing is decided in a window that has not begun; while w lasts, what it decided on
\* charges to an earlier one and what it may still decide so take a thread each.
StragglersOnce ==
  \A w \in Windows :
    /\ WindowOf(now) < w => admits[w] = 0
    /\ WindowOf(now) = w => admits[w] + Cardinality(Stragglers(w)) <= on_time[w] + Cardinality(Threads)
    /\ admits[w] <= on_time[w] + Cardinality(Threads)

IInv ==
  /\ TypeOK
  /\ StragglersLookBack
  /\ EntryOutlivesItsWindow
  /\ RejectionsAreEarned
  /\ OnTimeThroughEntry
  /\ OnTimeWithinLimit
  /\ StragglersOnce

-----------------------------------------------------------------------------
\* Integer division: a time lies in the window it is mapped to.
LEMMA WindowContains ==
  ASSUME NEW t \in Nat
  PROVE  /\ WindowOf(t) \in Nat
         /\ WindowOf(t) * Window <= t
         /\ t < (WindowOf(t) + 1) * Window
  <1>1. t = Window * (t \div Window) + (t % Window) /\ t % Window \in 0 .. Window - 1
    BY WindowAssumption
  <1>2. t \div Window \in Nat
    BY WindowAssumption
  <1> QED
    BY <1>1, <1>2, WindowAssumption DEF WindowOf

\* A later time lies in the same window or in a later one.
LEMMA WindowMonotone ==
  ASSUME NEW s \in Nat, NEW t \in Nat, s <= t
  PROVE  WindowOf(s) <= WindowOf(t)
  <1>1. /\ WindowOf(s) \in Nat /\ WindowOf(s) * Window <= s
        /\ WindowOf(t) \in Nat /\ t < (WindowOf(t) + 1) * Window
    BY WindowContains
  <1>2. SUFFICES ASSUME WindowOf(t) + 1 <= WindowOf(s) PROVE FALSE
    BY <1>1
  <1>3. (WindowOf(t) + 1) * Window <= WindowOf(s) * Window
    BY <1>1, <1>2, WindowAssumption
  <1> QED
    BY <1>1, <1>3, WindowAssumption

LEMMA WindowsAreNat == Windows \subseteq Nat
  <1>1. ASSUME NEW t \in Times PROVE WindowOf(t) \in Nat
    BY <1>1, BoundsAssumption, WindowContains DEF Times
  <1> QED
    BY <1>1 DEF Windows

\* Threads that are no stragglers any more leave room.
LEMMA FewerThreads ==
  ASSUME NEW A \in SUBSET Threads, NEW B \in SUBSET Threads, A \subseteq B
  PROVE  /\ Cardinality(A) \in Nat /\ Cardinality(B) \in Nat /\ Cardinality(Threads) \in Nat
         /\ Cardinality(A) <= Cardinality(B) /\ Cardinality(B) <= Cardinality(Threads)
         /\ \A t \in B : t \notin A => Cardinality(A) <= Cardinality(B) - 1
  <1>1. IsFiniteSet(A) /\ IsFiniteSet(B) /\ Cardinality(B) <= Cardinality(Threads)
    BY ThreadsAssumption, FS_Subset
  <1>2. Cardinality(A) \in Nat /\ Cardinality(B) \in Nat /\ Cardinality(Threads) \in Nat
        /\ Cardinality(A) <= Cardinality(B)
    BY <1>1, ThreadsAssumption, FS_Subset, FS_CardinalityType
  <1>3. ASSUME NEW t \in B, t \notin A PROVE Cardinality(A) <= Cardinality(B) - 1
    <2>1. IsFiniteSet(B \ {t}) /\ Cardinality(B \ {t}) = Cardinality(B) - 1
      BY <1>1, FS_RemoveElement
    <2>2. A \in SUBSET (B \ {t})
      BY <1>3
    <2>3. Cardinality(A) <= Cardinality(B \ {t})
      BY <2>1, <2>2, FS_Subset
    <2> QED
      BY <2>1, <2>3
  <1> QED
    BY <1>1, <1>2, <1>3

LEMMA StragglersFacts ==
  /\ Cardinality(Threads) \in Nat
  /\ \A w : /\ Stragglers(w) \in SUBSET Threads
             /\ Cardinality(Stragglers(w)) \in Nat /\ Cardinality(Stragglers(w)) <= Cardinality(Threads)
  <1>1. \A w : Stragglers(w) \in SUBSET Threads
    BY DEF Stragglers
  <1> QED
    BY <1>1, FewerThreads

\* Steps that decide nothing, with no more stragglers than before in the window.
LEMMA NothingDecided ==
  ASSUME TypeOK, StragglersOnce, UNCHANGED <<now, admits, on_time>>,
         \A w \in Windows : WindowOf(now) = w => Stragglers(w)' \subseteq Stragglers(w)
  PROVE  StragglersOnce'
  <1>1. ASSUME NEW w \in Windows, WindowOf(now) = w
        PROVE  admits[w] + Cardinality(Stragglers(w)') <= on_time[w] + Cardinality(Threads)
    <2>1. Stragglers(w) \in SUBSET Threads /\ Stragglers(w)' \in SUBSET Threads
      BY DEF Stragglers
    <2>2. /\ Cardinality(Stragglers(w)') <= Cardinality(Stragglers(w))
          /\ Cardinality(Stragglers(w)') \in Nat /\ Cardinality(Stragglers(w)) \in Nat
          /\ Cardinality(Threads) \in Nat
      <3>1. Stragglers(w)' \subseteq Stragglers(w)
        BY <1>1
      <3> HIDE DEF Stragglers
      <3> QED
        BY <2>1, <3>1, FewerThreads
    <2>3. admits[w] + Cardinality(Stragglers(w)) <= on_time[w] + Cardinality(Threads)
          /\ admits[w] \in Nat /\ on_time[w] \in Nat
      BY <1>1 DEF StragglersOnce, TypeOK
    <2> QED
      BY <2>2, <2>3
  <1> QED
    BY <1>1 DEF StragglersOnce

-----------------------------------------------------------------------------
\* Every initial state satisfies the inductive invariant.
LEMMA InitIInv == Init => IInv
  <1> SUFFICES ASSUME Init PROVE IInv
    OBVIOUS
  <1>1. 0 \in Times /\ WindowOf(0) \in Windows
    BY BoundsAssumption DEF Times, Windows
  <1>2. TypeOK
    BY <1>1, BoundsAssumption DEF Init, TypeOK, Missing, Counter
  <1>3. StragglersLookBack
    <2>1. WindowOf(now) = WindowOf(0) /\ WindowOf(0) \in Nat
      BY <1>1, WindowsAreNat DEF Init
    <2> QED
      BY <2>1 DEF Init, StragglersLookBack
  <1>4. EntryOutlivesItsWindow /\ RejectionsAreEarned
    BY DEF Init, EntryOutlivesItsWindow, RejectionsAreEarned, Live, Missing
  <1>5. OnTimeThroughEntry /\ OnTimeWithinLimit
    BY LimitAssumption DEF Init, OnTimeThroughEntry, OnTimeWithinLimit
  <1>6. StragglersOnce
    BY StragglersFacts DEF Init, StragglersOnce
  <1> QED
    BY <1>2, <1>3, <1>4, <1>5, <1>6 DEF IInv

\* Time passing disturbs no entry, and the window it is in only moves forward.
LEMMA TickIInv == IInv /\ Tick => IInv'
  <1> SUFFICES ASSUME IInv, Tick PROVE IInv'
    OBVIOUS
  <1>1. TypeOK'
    BY BoundsAssumption DEF IInv, TypeOK, Tick, Times
  <1>2. /\ now \in Nat /\ now' \in Nat /\ now' = now + 1
        /\ WindowOf(now) \in Nat /\ WindowOf(now') \in Nat
        /\ WindowOf(now) <= WindowOf(now')
    <2>1. now \in Nat /\ now' \in Nat /\ now' = now + 1 /\ now <= now'
      BY BoundsAssumption DEF IInv, TypeOK, Tick, Times
    <2>2. WindowOf(now) \in Nat /\ WindowOf(now') \in Nat
      BY <2>1, WindowContains
    <2>3. WindowOf(now) <= WindowOf(now')
      BY <2>1, WindowMonotone
    <2> QED
      BY <2>1, <2>2, <2>3
  <1>3. StragglersLookBack'
    <2>1. ASSUME NEW t \in Threads PROVE current_window'[t] <= WindowOf(now')
      <3>1. /\ current_window'[t] = current_window[t]
            /\ current_window[t] \in Nat /\ current_window[t] <= WindowOf(now)
        BY WindowsAreNat DEF IInv, TypeOK, StragglersLookBack, Tick
      <3> QED
        BY <3>1, <1>2
    <2> QED
      BY <2>1 DEF StragglersLookBack
  <1>4. EntryOutlivesItsWindow' /\ OnTimeWithinLimit'
    BY DEF IInv, EntryOutlivesItsWindow, OnTimeWithinLimit, Tick
  <1>5. RejectionsAreEarned'
    BY <1>2 DEF IInv, TypeOK, Counter, RejectionsAreEarned, Live, Tick
  <1>6. OnTimeThroughEntry'
    BY <1>2, WindowsAreNat DEF IInv, TypeOK, OnTimeThroughEntry, Tick
  <1>7. StragglersOnce'
    <2>1. ASSUME NEW w \in Windows
          PROVE  /\ WindowOf(now') < w => admits[w] = 0
                 /\ WindowOf(now') = w => admits[w] + Cardinality(Stragglers(w)) <= on_time[w] + Cardinality(Threads)
      <3>1. admits[w] \in Nat /\ on_time[w] \in Nat /\ w \in Nat
        BY WindowsAreNat DEF IInv, TypeOK
      <3>2. /\ WindowOf(now) < w => admits[w] = 0
            /\ WindowOf(now) = w => admits[w] + Cardinality(Stragglers(w)) <= on_time[w] + Cardinality(Threads)
        BY DEF IInv, StragglersOnce
      <3> QED
        BY <1>2, <3>1, <3>2, StragglersFacts
    <2>2. UNCHANGED <<admits, on_time, pc, current_window>>
      BY DEF Tick
    <2>3. \A w \in Windows : Stragglers(w)' = Stragglers(w)
      BY <2>2 DEF Stragglers
    <2> QED
      BY <2>1, <2>2, <2>3 DEF IInv, StragglersOnce
  <1> QED
    BY <1>1, <1>3, <1>4, <1>5, <1>6, <1>7 DEF IInv

\* A reset empties the store and the history together.
LEMMA ClearIInv == IInv /\ Clear => IInv'
  <1> SUFFICES ASSUME IInv, Clear PROVE IInv'
    OBVIOUS
  <1>1. TypeOK'
    BY DEF IInv, TypeOK, Clear, Counter, Missing
  <1>2. StragglersLookBack'
    BY DEF IInv, StragglersLookBack, Clear
  <1>3. EntryOutlivesItsWindow' /\ OnTimeThroughEntry' /\ OnTimeWithinLimit'
    BY LimitAssumption
    DEF Clear, EntryOutlivesItsWindow, OnTimeThroughEntry, OnTimeWithinLimit
  <1>4. RejectionsAreEarned'
    BY BoundsAssumption
    DEF IInv, TypeOK, Times, Clear, RejectionsAreEarned, Live, Missing
  <1>5. StragglersOnce'
    <2>1. /\ admits' = [w \in Windows |-> 0] /\ on_time' = [w \in Windows |-> 0]
          /\ UNCHANGED <<now, pc, current_window>>
      BY DEF Clear
    <2>2. \A w \in Windows : Stragglers(w)' = Stragglers(w)
      BY <2>1 DEF Stragglers
    <2> QED
      BY <2>1, <2>2, StragglersFacts DEF StragglersOnce
  <1> QED
    BY <1>1, <1>2, <1>3, <1>4, <1>5 DEF IInv

\* Reading the clock records the present window.
LEMMA ReadClockIInv == \A t \in Threads : IInv /\ ReadClock(t) => IInv'
  <1> SUFFICES ASSUME NEW t \in Threads, IInv, ReadClock(t) PROVE IInv'
    OBVIOUS
  <1>1. now \in Times /\ WindowOf(now) \in Windows
    BY DEF IInv, TypeOK, Windows
  <1>2. TypeOK'
    BY <1>1, BoundsAssumption DEF IInv, TypeOK, ReadClock
  <1>3. StragglersLookBack'
    <2>1. ASSUME NEW u \in Threads PROVE current_window'[u] <= WindowOf(now')
      <3>1. now' = now /\ WindowOf(now) \in Nat
        BY <1>1, WindowsAreNat DEF ReadClock
      <3>2. CASE u = t
        BY <3>1, <3>2 DEF IInv, TypeOK, ReadClock
      <3>3. CASE u # t
        BY <3>1, <3>3 DEF IInv, TypeOK, StragglersLookBack, ReadClock
      <3> QED
        BY <3>2, <3>3
    <2> QED
      BY <2>1 DEF StragglersLookBack
  <1>4. EntryOutlivesItsWindow' /\ RejectionsAreEarned' /\ OnTimeThroughEntry' /\ OnTimeWithinLimit'
    BY DEF IInv, EntryOutlivesItsWindow, RejectionsAreEarned, OnTimeThroughEntry,
           OnTimeWithinLimit, ReadClock
  <1>5. StragglersOnce'
    <2>1. /\ current_window' = [current_window EXCEPT ![t] = WindowOf(now)]
          /\ pc' = [pc EXCEPT ![t] = "increment"]
          /\ UNCHANGED <<now, admits, on_time>>
      BY DEF ReadClock
    <2>2. WindowOf(now) \in Nat
      BY <1>1, WindowsAreNat
    <2>3. ASSUME NEW w \in Windows, WindowOf(now) = w
          PROVE  Stragglers(w)' \subseteq Stragglers(w)
      BY <2>1, <2>2, <2>3 DEF Stragglers, IInv, TypeOK
    <2> QED
      BY <2>1, <2>3, NothingDecided DEF IInv
  <1> QED
    BY <1>2, <1>3, <1>4, <1>5 DEF IInv

\* The charge and its decision: the step the whole invariant is for.
LEMMA IncrementIInv == \A t \in Threads : IInv /\ IncrementCounter(t) => IInv'
  <1> SUFFICES ASSUME NEW t \in Threads, IInv, IncrementCounter(t) PROVE IInv'
    OBVIOUS
  <1> DEFINE w == current_window[t]
             c == counters[w]
             d == Charged(w)
             ok == IF Allowed(d.count) THEN 1 ELSE 0
  <1>1. /\ now \in Nat /\ now \in Times /\ w \in Windows /\ w \in Nat /\ c \in Counter
        /\ WindowOf(now) \in Nat /\ w <= WindowOf(now)
    <2>1. now \in Nat /\ now \in Times /\ w \in Windows /\ w \in Nat /\ c \in Counter
      <3>1. now \in Times /\ w \in Windows /\ c \in Counter
        BY DEF IInv, TypeOK
      <3>2. now \in Nat
        BY <3>1, BoundsAssumption DEF Times
      <3>3. w \in Nat
        BY <3>1, WindowsAreNat
      <3> QED
        BY <3>1, <3>2, <3>3
    <2>2. WindowOf(now) \in Nat
      BY <2>1, WindowContains
    <2>3. w <= WindowOf(now)
      BY DEF IInv, StragglersLookBack
    <2> QED
      BY <2>1, <2>2, <2>3
  <1>2. /\ now' = now /\ current_window' = current_window
        /\ counters' = [counters EXCEPT ![w] = d]
        /\ admitted_in' = [admitted_in EXCEPT ![w] = IF Live(c, now) THEN @ + ok ELSE ok]
        /\ on_time' = [on_time EXCEPT ![w] = IF WindowOf(now) = w THEN @ + ok ELSE @]
        /\ admits' = [admits EXCEPT ![WindowOf(now)] = @ + ok]
    BY DEF IncrementCounter
  <1>3. ok \in {0, 1}
    OBVIOUS
  <1>4. /\ d \in Counter /\ d # Missing
        /\ Live(c, now) => d.count = c.count + 1 /\ d.expires_at = c.expires_at
        /\ ~Live(c, now) => d.count = 1 /\ d.expires_at = now + Window
    BY <1>1, WindowAssumption DEF Charged, Incremented, Counter, Missing
  <1>5. TypeOK'
    <2>1. admitted_in' \in [Windows -> Nat] /\ on_time' \in [Windows -> Nat]
      BY <1>1, <1>2, <1>3 DEF IInv, TypeOK
    <2>2. admits' \in [Windows -> Nat]
      <3>1. WindowOf(now) \in Windows
        BY <1>1 DEF Windows
      <3> QED
        BY <3>1, <1>2, <1>3 DEF IInv, TypeOK
    <2> QED
      BY <1>1, <1>2, <1>4, <2>1, <2>2 DEF IInv, TypeOK, IncrementCounter
  <1>6. StragglersLookBack'
    BY <1>2 DEF IInv, StragglersLookBack
  <1>7. EntryOutlivesItsWindow'
    <2>1. d.expires_at >= (w + 1) * Window
      <3>1. CASE Live(c, now)
        BY <1>1, <1>4, <3>1 DEF IInv, EntryOutlivesItsWindow, Live, Missing
      <3>2. CASE ~Live(c, now)
        <4>1. w * Window <= WindowOf(now) * Window /\ WindowOf(now) * Window <= now
          BY <1>1, WindowContains, WindowAssumption
        <4>2. w * Window <= now
          BY <4>1, <1>1, WindowAssumption
        <4> QED
          BY <4>2, <1>1, <1>4, <3>2, WindowAssumption
      <3> QED
        BY <3>1, <3>2
    <2> QED
      BY <2>1, <1>1, <1>2, <1>4 DEF IInv, TypeOK, EntryOutlivesItsWindow
  <1>8. RejectionsAreEarned'
    <2>1. Live(d, now) => admitted_in'[w] = (IF Allowed(d.count) THEN d.count ELSE Limit)
      <3>1. CASE Live(c, now)
        <4>1. admitted_in[w] = (IF Allowed(c.count) THEN c.count ELSE Limit)
          BY <1>1, <3>1 DEF IInv, RejectionsAreEarned
        <4> QED
          <5>1. admitted_in'[w] = admitted_in[w] + ok /\ admitted_in[w] \in Nat
            BY <1>1, <1>2, <3>1 DEF IInv, TypeOK
          <5>2. d.count = c.count + 1 /\ c.count \in Nat
            BY <1>1, <1>4, <3>1 DEF Counter
          <5> QED
            BY <4>1, <5>1, <5>2, LimitAssumption DEF Allowed
      <3>2. CASE ~Live(c, now)
        BY <1>1, <1>2, <1>4, <3>2, LimitAssumption DEF IInv, TypeOK, Allowed
      <3> QED
        BY <3>1, <3>2
    <2>2. ASSUME NEW v \in Windows, v # w
          PROVE  counters'[v] = counters[v] /\ admitted_in'[v] = admitted_in[v]
      BY <1>2, <2>2 DEF IInv, TypeOK
    <2>3. counters'[w] = d
      BY <1>1, <1>2 DEF IInv, TypeOK
    <2> QED
      BY <2>1, <2>2, <2>3, <1>2 DEF IInv, RejectionsAreEarned
  <1>9. OnTimeThroughEntry' /\ OnTimeWithinLimit'
    <2>1. counters'[w] # Missing
      BY <1>1, <1>2, <1>4 DEF IInv, TypeOK
    <2>2. CASE WindowOf(now) = w
      <3>1. on_time'[w] <= admitted_in'[w] /\ on_time'[w] <= Limit
        <4>1. CASE c = Missing
          BY <4>1, <2>2, <1>1, <1>2, <1>3, LimitAssumption
          DEF IInv, TypeOK, OnTimeThroughEntry, Live, Missing
        <4>2. CASE c # Missing
          <5>1. Live(c, now)
            <6>1. c.expires_at >= (w + 1) * Window /\ c.expires_at \in Nat
              BY <4>2, <1>1 DEF IInv, EntryOutlivesItsWindow, Counter
            <6>2. now < (w + 1) * Window
              BY <2>2, <1>1, WindowContains
            <6> QED
              BY <6>1, <6>2, <1>1, WindowAssumption DEF Live
          <5>2. admitted_in'[w] <= Limit
            BY <5>1, <1>1, <1>2, <1>4, LimitAssumption
            DEF IInv, TypeOK, RejectionsAreEarned, Allowed, Counter
          <5>3. /\ on_time[w] <= admitted_in[w]
                /\ on_time'[w] = on_time[w] + ok /\ admitted_in'[w] = admitted_in[w] + ok
            BY <5>1, <2>2, <1>1, <1>2 DEF IInv, TypeOK, OnTimeThroughEntry
          <5> QED
            BY <5>2, <5>3, <1>1, <1>3, LimitAssumption DEF IInv, TypeOK
        <4> QED
          BY <4>1, <4>2
      <3> QED
        BY <3>1, <2>1, <2>2, <1>1, <1>2 DEF IInv, TypeOK, OnTimeThroughEntry, OnTimeWithinLimit
    <2>3. CASE WindowOf(now) # w
      BY <2>1, <2>3, <1>1, <1>2 DEF IInv, TypeOK, OnTimeThroughEntry, OnTimeWithinLimit
    <2> QED
      BY <2>2, <2>3
  <1>10. StragglersOnce'
    <2>0. PICK n \in Windows : n = WindowOf(now)
      BY <1>1 DEF Windows
    <2> DEFINE x == Cardinality(Stragglers(n))
               y == Cardinality(Stragglers(n)')
               T == Cardinality(Threads)
    <2>1. n \in Windows /\ n \in Nat /\ w <= n
      BY <1>1, <2>0
    <2>2. /\ admits[n] \in Nat /\ on_time[n] \in Nat /\ admits[n] + x <= on_time[n] + T
          /\ admits'[n] = admits[n] + ok
          /\ w = n => on_time'[n] = on_time[n] + ok
          /\ w # n => on_time'[n] = on_time[n]
          /\ \A v \in Windows : v # n => admits'[v] = admits[v] /\ on_time'[v] = on_time[v]
      BY <1>1, <1>2, <2>0, <2>1 DEF IInv, TypeOK, StragglersOnce
    <2>3. /\ Stragglers(n)' \subseteq Stragglers(n)
          /\ w # n => t \in Stragglers(n) /\ t \notin Stragglers(n)'
      <3>1. pc[t] = "increment" /\ pc' = [pc EXCEPT ![t] = "idle"] /\ current_window' = current_window
        BY DEF IncrementCounter
      <3>2. Stragglers(n)' \subseteq Stragglers(n) /\ t \notin Stragglers(n)'
        BY <3>1 DEF Stragglers, IInv, TypeOK
      <3>3. w # n => w < n
        BY <1>1, <2>1
      <3>4. w # n => t \in Stragglers(n)
        BY <3>1, <3>3 DEF Stragglers
      <3> QED
        BY <3>2, <3>4
    <2>4. /\ x \in Nat /\ y \in Nat /\ T \in Nat /\ y <= x
          /\ w # n => y <= x - 1
      <3>1. Stragglers(n) \in SUBSET Threads /\ Stragglers(n)' \in SUBSET Threads
        BY DEF Stragglers
      <3> HIDE DEF Stragglers
      <3> QED
        BY <2>3, <3>1, FewerThreads
    <2> HIDE DEF w, ok, x, y, T
    <2>5. admits'[n] + y <= on_time'[n] + T /\ admits'[n] <= on_time'[n] + T
      <3>1. CASE w = n
        BY <1>3, <2>2, <2>4, <3>1
      <3>2. CASE w # n
        BY <1>3, <2>2, <2>4, <3>2
      <3> QED
        BY <3>1, <3>2
    <2>6. ASSUME NEW v \in Windows
          PROVE  /\ n < v => admits'[v] = 0
                 /\ n = v => admits'[v] + Cardinality(Stragglers(v)') <= on_time'[v] + Cardinality(Threads)
                 /\ admits'[v] <= on_time'[v] + Cardinality(Threads)
      <3>1. CASE v = n
        <4>1. ~ (n < n)
          BY <2>1
        <4>2. admits'[n] + Cardinality(Stragglers(n)') <= on_time'[n] + Cardinality(Threads)
          BY <2>5 DEF y, T
        <4>3. admits'[n] <= on_time'[n] + Cardinality(Threads)
          BY <2>5 DEF T
        <4> QED
          BY <3>1, <4>1, <4>2, <4>3
      <3>2. CASE v # n
        BY <2>0, <2>2, <3>2 DEF IInv, StragglersOnce
      <3> QED
        BY <3>1, <3>2
    <2> QED
      BY <1>2, <2>0, <2>6 DEF StragglersOnce
  <1> QED
    BY <1>5, <1>6, <1>7, <1>8, <1>9, <1>10 DEF IInv

-----------------------------------------------------------------------------
\* The inductive invariant holds in every reachable state.
THEOREM Invariance == Spec => []IInv
  <1>1. IInv /\ [Next]_vars => IInv'
    <2> SUFFICES ASSUME IInv, [Next]_vars PROVE IInv'
      OBVIOUS
    <2>1. CASE UNCHANGED vars
      BY <2>1 DEF vars, IInv, TypeOK, StragglersLookBack, EntryOutlivesItsWindow,
                  RejectionsAreEarned, OnTimeThroughEntry, OnTimeWithinLimit,
                  StragglersOnce, Stragglers
    <2> QED
      BY <2>1, TickIInv, ClearIInv, ReadClockIInv, IncrementIInv DEF Next
  <1> QED
    BY <1>1, InitIInv, PTL DEF Spec

\* Type correctness: the variables keep the values the code can give them.
THEOREM TypeCorrect == Spec => []TypeOK
  <1>1. IInv => TypeOK
    BY DEF IInv
  <1> QED
    BY <1>1, Invariance, PTL

\* The entry of a window lives until the window ends, whichever thread created it.
THEOREM EntriesOutliveWindows == Spec => []EntryOutlivesItsWindow
  <1>1. IInv => EntryOutlivesItsWindow
    BY DEF IInv
  <1> QED
    BY <1>1, Invariance, PTL

\* The promise of the fixed window: while a window lasts it admits at most Limit
\* requests, for every number of threads and every interleaving of their calls.
THEOREM WindowLimitHolds == Spec => []OnTimeWithinLimit
  <1>1. IInv => OnTimeWithinLimit
    BY DEF IInv
  <1> QED
    BY <1>1, Invariance, PTL

\* The first Limit requests a live counter saw were admitted, and no other.
THEOREM NoEarlyRejection == Spec => []RejectionsAreEarned
  <1>1. IInv => RejectionsAreEarned
    BY DEF IInv
  <1> QED
    BY <1>1, Invariance, PTL

\* Reading the clock twice costs one request per thread and no more: what is decided
\* while a window lasts exceeds its limit by at most the number of threads, whichever
\* window the decisions are charged to.
THEOREM OverrunBounded == Spec => []OverrunBoundedByThreads
  <1>1. IInv => OverrunBoundedByThreads
    <2> SUFFICES ASSUME IInv, NEW w \in Windows PROVE admits[w] <= Limit + Cardinality(Threads)
      BY DEF OverrunBoundedByThreads
    <2>1. /\ admits[w] <= on_time[w] + Cardinality(Threads) /\ on_time[w] <= Limit
          /\ admits[w] \in Nat /\ on_time[w] \in Nat
      BY DEF IInv, TypeOK, StragglersOnce, OnTimeWithinLimit
    <2> QED
      BY <2>1, StragglersFacts, LimitAssumption
  <1> QED
    BY <1>1, Invariance, PTL
=============================================================================
