-------------------------- MODULE SharedStateProofs --------------------------
(***************************************************************************)
(* Theorems about what outlives a request and is shared: by the workers    *)
(* the file of DynamicConfig and the database of SqliteCounter, by the     *)
(* clients of a pool what QuotaManager grants; for any number of each and  *)
(* all values of the constants.                                            *)
(***************************************************************************)
EXTENDS DynamicConfig, QuotaManager, TLAPS

-----------------------------------------------------------------------------
(***************************************************************************)
(* The file.  A worker saves only after its last entry, so the file holds  *)
(* an update that was accepted to the end, or nothing that can be parsed.  *)
(* No check made on the worker that accepted it is trusted by the one that *)
(* loads it: every entry is checked again, against the algorithms that     *)
(* this worker knows by then, and an algorithm once known stays known.     *)
(***************************************************************************)
Sound(u) == \A i \in Entries : u[i] # Bad

\* Validation goes entry by entry; a worker that saves has come to the end.
ValidatedSoFar ==
  /\ \A u \in applied : Sound(u)
  /\ \A w \in Workers : pc[w] = "apply" => \A i \in 1 .. entry[w] - 1 : update[w][i] # Bad
  /\ \A w \in Workers : pc[w] # "apply" => entry[w] = 1
  /\ \A w \in Workers : pc[w] \in {"save", "write"} => update[w] \in applied

FileWasAccepted == file \in applied \cup {Missing, Empty, Garbage}

NothingSurvivesACrash == \A w \in Workers : pc[w] = "down" => cache[w] = Nothing

IInv ==
  /\ TypeOK /\ ValidatedSoFar /\ FileWasAccepted /\ NothingSurvivesACrash
  /\ CacheShowsWhatRuns /\ LimitsHaveAnAlgorithm

\* LimitsHaveAnAlgorithm, of one worker's settings.
Served(config) ==
  \A i \in Entries :
    SetsLimit(i) /\ config[i] # Unconfigured => HasAlgorithm(config, Settings[i].endpoint)

-----------------------------------------------------------------------------
LEMMA ConstantFacts ==
  /\ Bad \notin Values /\ Default \notin Values /\ Unset \notin Values /\ Unconfigured \notin Values
  /\ Unset # Bad
  /\ Len(Settings) \in Nat /\ 1 \in Entries
  /\ Environment \in Config
  /\ Nothing \in Update
  BY ConfigAssumption DEF Entries, Config, Nothing, Update

\* An algorithm stays known while settings are only overlaid by values.
LEMMA AlgorithmsStay ==
  ASSUME NEW before, NEW after, NEW endpoint,
         \A j \in Entries : after[j] = before[j] \/ after[j] \in Values,
         HasAlgorithm(before, endpoint)
  PROVE  HasAlgorithm(after, endpoint)
  BY ConstantFacts DEF HasAlgorithm

\* The beginning of an update without a refused entry turns settings into settings.
LEMMA OverlaidFacts ==
  ASSUME NEW config \in Config, NEW u \in Update, Sound(u), NEW n \in Nat
  PROVE  /\ Overlaid(config, u) \in Config
         /\ Overlaid(config, Beginning(u, n)) \in Config
         /\ \A j \in Entries :
              Overlaid(config, Beginning(u, n))[j] = IF j <= n /\ u[j] # Unset THEN u[j] ELSE config[j]
  BY ConstantFacts DEF Overlaid, Beginning, Config, Update, Sound, Entries

\* What a restarted worker runs with if the file can be read: the n entries that it has
\* found acceptable.
LoadedUpTo(n) == Overlaid(Environment, Beginning(file, n))

LEMMA LoadedFacts ==
  ASSUME TypeOK, ValidatedSoFar, FileWasAccepted, NEW config \in Loaded
  PROVE  \/ Unreadable /\ config = Environment
         \/ /\ file \in applied /\ file \in Update /\ Sound(file)
            /\ \E n \in 0 .. Len(Settings) : config = LoadedUpTo(n) /\ StopsAfter(n, file, Environment)
  BY DEF Loaded, LoadedUpTo, Unreadable, TypeOK, ValidatedSoFar, FileWasAccepted

\* Every limit it has applied was checked against fewer algorithms than it knows now.
LEMMA LoadedIsServed ==
  ASSUME file \in Update, Sound(file), NEW n \in 0 .. Len(Settings), StopsAfter(n, file, Environment)
  PROVE  Served(LoadedUpTo(n))
  <1> DEFINE c == LoadedUpTo(n)
  <1>1. /\ \A m \in Nat : \A j \in Entries :
             LoadedUpTo(m)[j] = IF j <= m /\ file[j] # Unset THEN file[j] ELSE Environment[j]
        /\ \A j \in Entries : file[j] # Unset => file[j] \in Values
        /\ Entries = 1 .. Len(Settings) /\ Len(Settings) \in Nat /\ n \in Nat
    <2>1. \A j \in Entries : file[j] # Unset => file[j] \in Values
      BY DEF Update, Sound
    <2>2. Entries = 1 .. Len(Settings) /\ Len(Settings) \in Nat /\ n \in Nat /\ Environment \in Config
      BY ConstantFacts DEF Entries
    <2>3. ASSUME NEW m \in Nat, NEW j \in Entries
          PROVE  LoadedUpTo(m)[j] = IF j <= m /\ file[j] # Unset THEN file[j] ELSE Environment[j]
      BY <2>2, OverlaidFacts DEF LoadedUpTo
    <2> QED
      BY <2>1, <2>2, <2>3
  <1> SUFFICES ASSUME NEW i \in Entries, SetsLimit(i), c[i] # Unconfigured
               PROVE  HasAlgorithm(c, Settings[i].endpoint)
    BY DEF Served
  <1>2. CASE i <= n /\ file[i] # Unset
    <2>1. i - 1 \in Nat /\ i - 1 < n
      BY <1>1, <1>2
    <2>2. HasAlgorithm(LoadedUpTo(i - 1), Settings[i].endpoint)
      BY <1>1, <1>2 DEF StopsAfter, Accepts, LoadedUpTo
    <2>3. \A j \in Entries : c[j] = LoadedUpTo(i - 1)[j] \/ c[j] \in Values
      BY <1>1, <2>1
    <2> QED
      BY <2>2, <2>3, AlgorithmsStay
  <1>3. CASE ~ (i <= n /\ file[i] # Unset)
    <2>1. Environment[i] # Unconfigured
      BY <1>1, <1>3
    <2>2. HasAlgorithm(Environment, Settings[i].endpoint)
      BY <2>1, EnvironmentAssumption
    <2>3. \A j \in Entries : c[j] = Environment[j] \/ c[j] \in Values
      BY <1>1
    <2> QED
      BY <2>2, <2>3, AlgorithmsStay
  <1> QED
    BY <1>2, <1>3

LEMMA RestartFacts ==
  ASSUME TypeOK, ValidatedSoFar, FileWasAccepted, NEW config \in Loaded
  PROVE  config \in Config /\ Served(config)
  <1>1. CASE Unreadable /\ config = Environment
    BY <1>1, ConstantFacts, EnvironmentAssumption DEF Served
  <1>2. ASSUME file \in Update, Sound(file),
               NEW n \in 0 .. Len(Settings), config = LoadedUpTo(n), StopsAfter(n, file, Environment)
        PROVE  config \in Config /\ Served(config)
    BY <1>2, ConstantFacts, OverlaidFacts, LoadedIsServed DEF LoadedUpTo
  <1> QED
    BY <1>1, <1>2, LoadedFacts

LEMMA InitIInv == Init => IInv
  <1> SUFFICES ASSUME Init PROVE IInv
    OBVIOUS
  <1>1. TypeOK /\ ValidatedSoFar /\ FileWasAccepted /\ NothingSurvivesACrash /\ CacheShowsWhatRuns
    BY ConstantFacts, ConfigAssumption
    DEF Init, TypeOK, ValidatedSoFar, FileWasAccepted, NothingSurvivesACrash, CacheShowsWhatRuns
  <1>2. LimitsHaveAnAlgorithm
    BY EnvironmentAssumption DEF Init, LimitsHaveAnAlgorithm
  <1> QED
    BY <1>1, <1>2 DEF IInv

-----------------------------------------------------------------------------
\* What an entry that is accepted does to its worker.
LEMMA ApplyFacts ==
  ASSUME TypeOK, NEW w \in Workers, ApplyEntry(w)
  PROVE  /\ entry[w] \in Entries /\ update[w] \in Update /\ running[w] \in Config
         /\ update[w][entry[w]] \in Values \cup {Unset}
         /\ running'[w] \in Config
         /\ running' = [running EXCEPT ![w] = running'[w]]
         /\ \A j \in Entries :
              running'[w][j] = IF j = entry[w] /\ update[w][j] # Unset THEN update[w][j] ELSE running[w][j]
  <1> DEFINE i == entry[w]
             u == update[w]
  <1>1. /\ i \in Entries /\ u \in Update /\ running[w] \in Config /\ u[i] # Bad
        /\ u[i] \in Values \cup {Unset}
        /\ running \in [Workers -> Config]
    BY DEF ApplyEntry, Accepts, TypeOK, Update
  <1>2. CASE u[i] = Unset
    BY <1>1, <1>2 DEF ApplyEntry
  <1>3. CASE u[i] # Unset
    <2>1. running' = [running EXCEPT ![w] = [running[w] EXCEPT ![i] = u[i]]]
      BY <1>3 DEF ApplyEntry, Reconfigured
    <2>2. [running[w] EXCEPT ![i] = u[i]] \in Config
      BY <1>1, <1>3 DEF Config
    <2>3. \A j \in Entries : [running[w] EXCEPT ![i] = u[i]][j] = IF j = i THEN u[j] ELSE running[w][j]
      BY <1>1 DEF Config
    <2>4. running'[w] = [running[w] EXCEPT ![i] = u[i]]
      BY <1>1, <2>1
    <2> HIDE DEF i, u
    <2> QED
      BY <1>1, <1>3, <2>1, <2>2, <2>3, <2>4 DEF i, u
  <1> QED
    BY <1>2, <1>3

\* Every action preserves the types: settings come from accepted entries.
LEMMA TypeStep ==
  ASSUME IInv, Next PROVE TypeOK'
  <1> USE DEF IInv
  <1>1. ASSUME NEW w \in Workers, NEW u \in Update, Receive(w, u) PROVE TypeOK'
    BY <1>1, ConstantFacts, ConfigAssumption DEF Receive, Go, TypeOK
  <1>2. ASSUME NEW w \in Workers, ApplyEntry(w) PROVE TypeOK'
    <2>1. running' \in [Workers -> Config]
      BY <1>2, ApplyFacts DEF TypeOK
    <2>2. entry' \in [Workers -> Entries]
      <3>1. entry[w] # Len(Settings) => entry[w] + 1 \in Entries
        BY <1>2, ApplyFacts, ConstantFacts DEF Entries
      <3> QED
        BY <1>2, <3>1, ConstantFacts DEF ApplyEntry, TypeOK
    <2>3. applied' \subseteq Update
      BY <1>2, ApplyFacts DEF ApplyEntry, TypeOK
    <2>4. pc' \in [Workers -> {"idle", "apply", "save", "write", "down"}]
      BY <1>2 DEF ApplyEntry, Go, TypeOK
    <2> QED
      BY <1>2, <2>1, <2>2, <2>3, <2>4 DEF ApplyEntry, TypeOK
  <1>3. ASSUME NEW w \in Workers, Refuse(w) PROVE TypeOK'
    BY <1>3, ConstantFacts DEF Refuse, Leave, Go, TypeOK
  <1>4. ASSUME NEW w \in Workers, OpenFile(w) PROVE TypeOK'
    BY <1>4 DEF OpenFile, Go, TypeOK
  <1>5. ASSUME NEW w \in Workers, WriteFile(w) PROVE TypeOK'
    <2>1. update[w] \in Update /\ Sound(update[w])
      BY <1>5 DEF WriteFile, Leave, Go, TypeOK, ValidatedSoFar
    <2>2. wanted' \in Config
      BY <1>5, <2>1, OverlaidFacts, ConstantFacts DEF WriteFile, TypeOK
    <2>3. file' \in Update \cup {Garbage}
      BY <1>5, <2>1 DEF WriteFile, Written
    <2> QED
      BY <1>5, <2>2, <2>3, ConstantFacts DEF WriteFile, Leave, Go, Invalidated, TypeOK
  <1>6. ASSUME NEW w \in Workers, SaveFails(w) \/ Crash(w) PROVE TypeOK'
    <2>1. file' \in Update \cup {Missing, Empty, Garbage}
      BY <1>6 DEF SaveFails, Crash, Interrupted, Written, TypeOK
    <2> QED
      BY <1>6, <2>1, ConstantFacts DEF SaveFails, Crash, Leave, Go, Invalidated, TypeOK
  <1>7. ASSUME NEW w \in Workers, GetConfig(w) \/ CacheExpires(w) PROVE TypeOK'
    BY <1>7 DEF GetConfig, CacheExpires, Invalidated, TypeOK
  <1>8. ASSUME NEW w \in Workers, Restart(w) PROVE TypeOK'
    BY <1>8, RestartFacts DEF Restart, Go, TypeOK
  <1> QED
    BY <1>1, <1>2, <1>3, <1>4, <1>5, <1>6, <1>7, <1>8 DEF Next

\* Only a worker that has accepted its last entry adds to what may be saved.
LEMMA ValidatedStep ==
  ASSUME IInv, Next PROVE ValidatedSoFar' /\ FileWasAccepted'
  <1> USE DEF IInv
  <1>1. ASSUME NEW w \in Workers, NEW u \in Update, Receive(w, u) PROVE ValidatedSoFar' /\ FileWasAccepted'
    <2>1. entry[w] = 1
      BY <1>1 DEF Receive, Go, ValidatedSoFar
    <2> QED
      BY <1>1, <2>1 DEF Receive, Go, TypeOK, ValidatedSoFar, FileWasAccepted, Sound
  <1>2. ASSUME NEW w \in Workers, ApplyEntry(w) PROVE ValidatedSoFar' /\ FileWasAccepted'
    <2> DEFINE i == entry[w]
               u == update[w]
    <2>1. /\ i \in Entries /\ u[i] # Bad /\ pc[w] = "apply" /\ update' = update /\ file' = file
          /\ \A j \in 1 .. i - 1 : u[j] # Bad
      BY <1>2 DEF ApplyEntry, Accepts, Go, TypeOK, ValidatedSoFar
    <2>2. /\ i \in Nat /\ Len(Settings) \in Nat /\ Entries = 1 .. Len(Settings)
          /\ \A j \in 1 .. i : u[j] # Bad
      BY <2>1, ConstantFacts DEF Entries
    <2>3. \A v \in Workers \ {w} : pc'[v] = pc[v] /\ entry'[v] = entry[v]
      BY <1>2 DEF ApplyEntry, Go, TypeOK
    <2>4. CASE i = Len(Settings)
      <3>1. Sound(u)
        BY <2>2, <2>4 DEF Sound
      <3>2. pc'[w] = "save" /\ applied' = applied \cup {u} /\ entry'[w] = 1
        BY <1>2, <2>4 DEF ApplyEntry, Go, TypeOK
      <3>3. \A a \in applied' : Sound(a)
        BY <3>1, <3>2 DEF ValidatedSoFar
      <3> QED
        BY <2>1, <2>3, <3>2, <3>3 DEF ValidatedSoFar, FileWasAccepted, Sound
    <2>5. CASE i # Len(Settings)
      <3>1. pc'[w] = "apply" /\ applied' = applied /\ entry'[w] = i + 1
        BY <1>2, <2>5 DEF ApplyEntry, Go, TypeOK
      <3>2. \A j \in 1 .. entry'[w] - 1 : update'[w][j] # Bad
        BY <2>1, <2>2, <3>1
      <3> QED
        BY <2>1, <2>3, <3>1, <3>2 DEF ValidatedSoFar, FileWasAccepted, Sound
    <2> QED
      BY <2>4, <2>5
  <1>3. ASSUME NEW w \in Workers, Refuse(w) \/ WriteFile(w) \/ SaveFails(w) \/ Crash(w)
        PROVE  ValidatedSoFar' /\ FileWasAccepted'
    <2>1. /\ applied' = applied /\ pc'[w] \in {"idle", "down"} /\ entry'[w] = 1
          /\ \A v \in Workers \ {w} : pc'[v] = pc[v] /\ entry'[v] = entry[v] /\ update'[v] = update[v]
      BY <1>3 DEF Refuse, WriteFile, SaveFails, Crash, Leave, Go, TypeOK
    <2>2. ValidatedSoFar'
      BY <2>1 DEF ValidatedSoFar, Sound
    <2>3. FileWasAccepted'
      BY <1>3, <2>1
      DEF Refuse, WriteFile, SaveFails, Crash, Leave, Go, Interrupted, Written, ValidatedSoFar, FileWasAccepted
    <2> QED
      BY <2>2, <2>3
  <1>4. ASSUME NEW w \in Workers, OpenFile(w) PROVE ValidatedSoFar' /\ FileWasAccepted'
    BY <1>4 DEF OpenFile, Go, TypeOK, ValidatedSoFar, FileWasAccepted, Sound
  <1>5. ASSUME NEW w \in Workers, GetConfig(w) \/ CacheExpires(w) \/ Restart(w)
        PROVE  ValidatedSoFar' /\ FileWasAccepted'
    BY <1>5 DEF GetConfig, CacheExpires, Restart, Go, TypeOK, ValidatedSoFar, FileWasAccepted, Sound
  <1> QED
    BY <1>1, <1>2, <1>3, <1>4, <1>5 DEF Next

CacheIsTold == NothingSurvivesACrash /\ CacheShowsWhatRuns

\* A worker comes back to "idle" with its cache told, or marked as one that is not.
LEMMA CacheStep ==
  ASSUME IInv, Next PROVE CacheIsTold'
  <1> USE DEF IInv, CacheIsTold, CacheShowsWhatRuns, NothingSurvivesACrash, TypeOK
  <1>1. ASSUME NEW w \in Workers, NEW u \in Update, Receive(w, u) PROVE CacheIsTold'
    BY <1>1 DEF Receive, Go
  <1>2. ASSUME NEW w \in Workers, ApplyEntry(w) PROVE CacheIsTold'
    <2>1. pc'[w] \notin {"idle", "down"} /\ cache' = cache /\ dirty' = dirty
      BY <1>2 DEF ApplyEntry, Go
    <2>2. \A v \in Workers \ {w} : pc'[v] = pc[v] /\ running'[v] = running[v]
      BY <1>2, ApplyFacts DEF ApplyEntry, Go
    <2> QED
      BY <2>1, <2>2
  <1>3. ASSUME NEW w \in Workers, Refuse(w) \/ SaveFails(w) \/ Crash(w) PROVE CacheIsTold'
    BY <1>3 DEF Refuse, SaveFails, Crash, Leave, Go, Invalidated
  <1>4. ASSUME NEW w \in Workers, OpenFile(w) PROVE CacheIsTold'
    BY <1>4 DEF OpenFile, Go
  <1>5. ASSUME NEW w \in Workers, WriteFile(w) PROVE CacheIsTold'
    BY <1>5 DEF WriteFile, Leave, Go, Invalidated
  <1>6. ASSUME NEW w \in Workers, GetConfig(w) \/ CacheExpires(w) PROVE CacheIsTold'
    BY <1>6 DEF GetConfig, CacheExpires, Invalidated
  <1>7. ASSUME NEW w \in Workers, Restart(w) PROVE CacheIsTold'
    BY <1>7 DEF Restart, Go
  <1> QED
    BY <1>1, <1>2, <1>3, <1>4, <1>5, <1>6, <1>7 DEF Next

\* A limit comes into force only where there is an algorithm, and none goes.
LEMMA ServedStep ==
  ASSUME IInv, Next PROVE LimitsHaveAnAlgorithm'
  <1> USE DEF IInv
  <1>0. ASSUME NEW w \in Workers, running' = [running EXCEPT ![w] = running'[w]], Served(running'[w])
        PROVE  LimitsHaveAnAlgorithm'
    <2>1. ASSUME NEW v \in Workers PROVE Served(running'[v])
      <3>1. v # w => running'[v] = running[v]
        BY <1>0 DEF TypeOK
      <3> QED
        BY <1>0, <3>1 DEF LimitsHaveAnAlgorithm, Served
    <2> QED
      BY <2>1 DEF LimitsHaveAnAlgorithm, Served
  <1>1. ASSUME NEW w \in Workers, ApplyEntry(w) PROVE LimitsHaveAnAlgorithm'
    <2> DEFINE i == entry[w]
               u == update[w]
    <2>1. /\ \A j \in Entries : running'[w][j] = running[w][j] \/ running'[w][j] \in Values
          /\ running'[w][i] = running[w][i] \/ u[i] # Unset
          /\ \A j \in Entries \ {i} : running'[w][j] = running[w][j]
          /\ i \in Entries
      BY <1>1, ApplyFacts
    <2>2. u[i] # Unset /\ SetsLimit(i) => HasAlgorithm(running[w], Settings[i].endpoint)
      BY <1>1 DEF ApplyEntry, Accepts
    <2> HIDE DEF i, u
    <2>3. ASSUME NEW j \in Entries, SetsLimit(j), running'[w][j] # Unconfigured
          PROVE  HasAlgorithm(running'[w], Settings[j].endpoint)
      <3>1. HasAlgorithm(running[w], Settings[j].endpoint)
        BY <2>1, <2>2, <2>3 DEF LimitsHaveAnAlgorithm
      <3> QED
        BY <2>1, <3>1, AlgorithmsStay
    <2> QED
      BY <1>0, <1>1, <2>3, ApplyFacts DEF Served
  <1>2. ASSUME NEW w \in Workers, Restart(w) PROVE LimitsHaveAnAlgorithm'
    <2>1. running'[w] \in Loaded /\ running' = [running EXCEPT ![w] = running'[w]]
      BY <1>2 DEF Restart, TypeOK
    <2> QED
      BY <1>0, <2>1, RestartFacts
  <1>3. ASSUME NEW w \in Workers, Crash(w) PROVE LimitsHaveAnAlgorithm'
    <2>1. running'[w] = Environment /\ running' = [running EXCEPT ![w] = running'[w]]
      BY <1>3 DEF Crash, TypeOK
    <2> QED
      BY <1>0, <2>1, EnvironmentAssumption DEF Served
  <1>4. CASE running' = running
    BY <1>4 DEF LimitsHaveAnAlgorithm
  <1> QED
    BY <1>1, <1>2, <1>3, <1>4
    DEF Next, Receive, Refuse, OpenFile, WriteFile, SaveFails, GetConfig, CacheExpires

\* The inductive invariant holds in every reachable state.
LEMMA Invariance == Spec => []IInv
  <1>1. IInv /\ [Next]_vars => IInv'
    <2> SUFFICES ASSUME IInv, [Next]_vars PROVE IInv'
      OBVIOUS
    <2>1. CASE Next
      BY <2>1, TypeStep, ValidatedStep, CacheStep, ServedStep DEF IInv, CacheIsTold
    <2>2. CASE UNCHANGED vars
      BY <2>2 DEF vars, IInv, TypeOK, ValidatedSoFar, FileWasAccepted, NothingSurvivesACrash,
         CacheShowsWhatRuns, LimitsHaveAnAlgorithm, Sound
    <2> QED
      BY <2>1, <2>2
  <1> QED
    BY <1>1, InitIInv, PTL DEF Spec

-----------------------------------------------------------------------------
\* No setting that validation refuses ever gets into a worker's configuration or into
\* what the successful updates add up to, restarts from the file included.
THEOREM TypeCorrect == Spec => []TypeOK
  BY Invariance, PTL DEF IInv

\* get_config tells the truth between updates, of every worker that has not failed one.
THEOREM CacheIsTruthful == Spec => []CacheShowsWhatRuns
  BY Invariance, PTL DEF IInv

\* No worker ever serves a client's limit at an endpoint without an algorithm, because
\* the check of _update_clients is made again of every entry that __init__ loads.
THEOREM LimitsAreServed == Spec => []LimitsHaveAnAlgorithm
  BY Invariance, PTL DEF IInv

\* __init__ starts a worker with an update that was once accepted to the end, or the
\* beginning of one, which ends at a limit that this worker has no algorithm for; never
\* with a refused one, or with what crashes and other workers left of several.
THEOREM RestartsAreAccepted == Spec => RestartsFromAnAcceptedUpdate
  <1> DEFINE From(w, u, n) ==
               /\ running'[w] = Overlaid(Environment, Beginning(u, n))
               /\ n < Len(Settings) =>
                    u[n + 1] \in Values /\ SetsLimit(n + 1)
                      /\ ~ HasAlgorithm(running'[w], Settings[n + 1].endpoint)
             Accepted == \A w \in Workers :
               pc[w] = "down" /\ pc'[w] = "idle" =>
                 \E u \in applied \cup {Nothing} : \E n \in 0 .. Len(Settings) : From(w, u, n)
  <1>1. ASSUME IInv, Next PROVE Accepted
    <2> SUFFICES ASSUME NEW w \in Workers, pc[w] = "down", pc'[w] = "idle"
                 PROVE  \E u \in applied \cup {Nothing} : \E n \in 0 .. Len(Settings) : From(w, u, n)
      OBVIOUS
    <2>1. Restart(w)
      BY <1>1 DEF Next, Receive, ApplyEntry, Refuse, OpenFile, WriteFile, SaveFails, GetConfig,
         CacheExpires, Crash, Restart, Leave, Go, IInv, TypeOK
    <2>2. running'[w] \in Loaded
      BY <1>1, <2>1 DEF Restart, IInv, TypeOK
    <2>3. CASE Unreadable /\ running'[w] = Environment
      <3>1. Environment = Overlaid(Environment, Beginning(Nothing, Len(Settings)))
        BY ConstantFacts DEF Config, Overlaid, Beginning, Nothing
      <3>2. From(w, Nothing, Len(Settings)) /\ Len(Settings) \in 0 .. Len(Settings)
        BY <2>3, <3>1, ConstantFacts
      <3> QED
        BY <3>2
    <2>4. ASSUME file \in applied, file \in Update, Sound(file),
                 NEW n \in 0 .. Len(Settings), running'[w] = LoadedUpTo(n), StopsAfter(n, file, Environment)
          PROVE  \E u \in applied \cup {Nothing} : \E m \in 0 .. Len(Settings) : From(w, u, m)
      <3>1. ASSUME n < Len(Settings)
            PROVE  file[n + 1] \in Values /\ SetsLimit(n + 1)
                     /\ ~ HasAlgorithm(running'[w], Settings[n + 1].endpoint)
        <4>1. n + 1 \in Entries
          BY <3>1, ConstantFacts DEF Entries
        <4>2. file[n + 1] # Bad /\ file[n + 1] \in Values \cup {Bad, Unset}
          BY <2>4, <4>1 DEF Sound, Update
        <4> QED
          BY <2>4, <3>1, <4>2 DEF StopsAfter, Accepts, LoadedUpTo
      <3>2. From(w, file, n)
        BY <2>4, <3>1 DEF LoadedUpTo
      <3> QED
        BY <2>4, <3>2
    <2> QED
      BY <1>1, <2>2, <2>3, <2>4, LoadedFacts DEF IInv
  <1>2. IInv /\ [Next]_vars => [Accepted]_vars
    BY <1>1
  <1> QED
    BY <1>2, Invariance, PTL DEF Spec, RestartsFromAnAcceptedUpdate

-----------------------------------------------------------------------------
(***************************************************************************)
(* The other thing workers share is the database of SQLiteRepository.      *)
(* What the lock of a repository is worth: in a single worker it joins the *)
(* SELECT and the write that follows, so whatever a thread has read is     *)
(* still what the table holds when it writes, and no increment is lost,    *)
(* however many threads there are.  The lock says nothing about the other  *)
(* workers, and with two of them the theorem is false.                     *)
(***************************************************************************)
\* (The clock and its bound have the names that QuotaManager gives its own.)
CONSTANTS Threads, Ttl, MaxIncrements
VARIABLES row, read_row, read_at, started, counted

Sqlite == INSTANCE SqliteCounter

OneWorker == \A v, w \in Workers : v = w

SqliteInv ==
  /\ now \in Nat
  /\ row \in Sqlite!Counter
  /\ pc \in [Sqlite!Calls -> {"idle", "write"}]
  /\ read_row \in [Sqlite!Calls -> Sqlite!Counter]
  /\ read_at \in [Sqlite!Calls -> Nat]
  /\ \A c, d \in Sqlite!Calls : pc[c] = "write" /\ pc[d] = "write" => c = d
  /\ \A c \in Sqlite!Calls : pc[c] = "write" => read_row[c] = row
  /\ Sqlite!EveryIncrementCounts

LEMMA NoRowIsAlive == \A t \in Nat : ~ Sqlite!Live(Sqlite!Missing, t)
  BY DEF Sqlite!Live, Sqlite!Missing

\* While a thread holds the lock, no other thread of the worker is past its SELECT.
LEMMA LockExcludes ==
  ASSUME OneWorker, NEW c \in Sqlite!Calls, ~ Sqlite!Locked(c[1])
  PROVE  \A d \in Sqlite!Calls : pc[d] # "write"
  <1> SUFFICES ASSUME NEW d \in Sqlite!Calls, pc[d] = "write" PROVE FALSE
    OBVIOUS
  <1>1. /\ d[1] \in Workers /\ d[2] \in Threads /\ d = <<d[1], d[2]>>
        /\ c[1] \in Workers
    BY DEF Sqlite!Calls
  <1>2. d[1] = c[1]
    BY <1>1 DEF OneWorker
  <1> QED
    BY <1>1, <1>2 DEF Sqlite!Locked

LEMMA SqliteInit == Sqlite!Init => SqliteInv
  BY DEF Sqlite!Init, SqliteInv, Sqlite!Counter, Sqlite!Missing, Sqlite!EveryIncrementCounts

LEMMA SqliteNext ==
  ASSUME OneWorker, Ttl \in Nat
  PROVE  SqliteInv /\ [Sqlite!Next]_(Sqlite!vars) => SqliteInv'
  <1> SUFFICES ASSUME SqliteInv, [Sqlite!Next]_(Sqlite!vars) PROVE SqliteInv'
    OBVIOUS
  <1>1. CASE UNCHANGED Sqlite!vars
    BY <1>1 DEF Sqlite!vars, SqliteInv, Sqlite!EveryIncrementCounts
  <1>2. CASE Sqlite!Tick
    BY <1>2 DEF Sqlite!Tick, SqliteInv, Sqlite!EveryIncrementCounts
  <1>3. ASSUME NEW w \in Workers, Sqlite!Clear(w) PROVE SqliteInv'
    <2>1. \A c \in Sqlite!Calls : pc[c] # "write"
      <3> SUFFICES ASSUME NEW c \in Sqlite!Calls PROVE pc[c] # "write"
        OBVIOUS
      <3>1. c[1] \in Workers /\ ~ Sqlite!Locked(c[1])
        BY <1>3 DEF Sqlite!Clear, Sqlite!Calls, OneWorker
      <3> QED
        BY <3>1, LockExcludes
    <2> QED
      BY <1>3, <2>1 DEF Sqlite!Clear, SqliteInv, Sqlite!EveryIncrementCounts, Sqlite!Missing, Sqlite!Counter
  <1>4. ASSUME NEW c \in Sqlite!Calls, Sqlite!Select(c) PROVE SqliteInv'
    <2>1. \A d \in Sqlite!Calls : pc[d] # "write"
      BY <1>4, LockExcludes DEF Sqlite!Select
    <2> QED
      BY <1>4, <2>1 DEF Sqlite!Select, SqliteInv, Sqlite!EveryIncrementCounts
  <1>5. ASSUME NEW c \in Sqlite!Calls, Sqlite!Update(c) PROVE SqliteInv'
    <2>1. /\ read_row[c] = row /\ row # Sqlite!Missing
          /\ pc' = [pc EXCEPT ![c] = "idle"]
          /\ row' = [row EXCEPT !.count = row.count + 1]
          /\ counted' = counted + 1
          /\ UNCHANGED <<now, read_row, read_at>>
      BY <1>5, NoRowIsAlive DEF Sqlite!Update, SqliteInv
    <2>2. row' \in Sqlite!Counter /\ row'.count = row.count + 1
      BY <2>1 DEF SqliteInv, Sqlite!Counter
    <2>3. \A d \in Sqlite!Calls : pc'[d] # "write"
      BY <1>5, <2>1 DEF SqliteInv, Sqlite!Update
    <2> QED
      BY <2>1, <2>2, <2>3 DEF SqliteInv, Sqlite!EveryIncrementCounts
  <1>6. ASSUME NEW c \in Sqlite!Calls, Sqlite!InsertOrReplace(c) PROVE SqliteInv'
    <2>1. row' \in Sqlite!Counter /\ row'.count = 1 /\ counted' = 1
      BY <1>6 DEF Sqlite!InsertOrReplace, SqliteInv, Sqlite!Counter
    <2>2. \A d \in Sqlite!Calls : pc'[d] # "write"
      BY <1>6 DEF SqliteInv, Sqlite!InsertOrReplace
    <2> QED
      BY <1>6, <2>1, <2>2 DEF Sqlite!InsertOrReplace, SqliteInv, Sqlite!EveryIncrementCounts
  <1> QED
    BY <1>1, <1>2, <1>3, <1>4, <1>5, <1>6 DEF Sqlite!Next

\* With one worker process the count of a row is the number of increments committed
\* to it, for any number of threads, any ttl and any clearing in between.
THEOREM OneWorkerCountsEveryIncrement ==
  ASSUME OneWorker, Ttl \in Nat
  PROVE  Sqlite!Spec => []Sqlite!EveryIncrementCounts
  <1>1. SqliteInv => Sqlite!EveryIncrementCounts
    BY DEF SqliteInv
  <1> QED
    BY <1>1, SqliteInit, SqliteNext, PTL DEF Sqlite!Spec

-----------------------------------------------------------------------------
(***************************************************************************)
(* The pools.  The inductive invariant adds to the types a budget: what a  *)
(* pool granted since the mark is at most what its resets since then       *)
(* released, one limit if its window was renewed since then, and what it   *)
(* has used in the window it is in.                                        *)
(***************************************************************************)
\* The last window of p began at the mark or later (or p is new: its first window, which
\* begins with the next check, has nothing to release).
RenewedSinceMark(p) ==
  IF pools[p].last_reset = 0 \/ pools[p].last_reset >= mark THEN 1 ELSE 0

Budget ==
  now < mark + PoolWindow =>
    \A p \in Pools :
      granted[p] <= (renewals[p] + RenewedSinceMark(p)) * Limits[p] + pools[p].used

\* A pool whose first window has not begun has granted nothing of it.
NewPoolsUnused == \A p \in Pools : pools[p].last_reset = 0 => pools[p].used = 0

QuotaInv == QuotaTypeOK /\ NewPoolsUnused /\ Budget

\* A reset since the mark is one more limit to grant.
LEMMA OneMoreLimit ==
  ASSUME NEW n \in Nat, NEW limit \in Nat PROVE (n + 1) * limit = n * limit + limit
PROOF BY SMT

LEMMA QuotaInvariance == QuotaSpec => []QuotaInv
PROOF
<1> USE PoolsAssumption, PoolWindowAssumption, CostsAssumption, BoundsAssumption
<1>1. QuotaInit => QuotaInv
  BY DEF QuotaInit, QuotaInv, QuotaTypeOK, NewPoolsUnused, Budget, Times, Absent, Pool, RenewedSinceMark
<1>2. ASSUME QuotaInv, [QuotaNext]_quota_vars PROVE QuotaInv'
  <2> USE <1>2
  <2>t. QuotaTypeOK
    BY DEF QuotaInv
  <2>n. now \in Nat /\ mark \in Nat /\ now > 0 /\ PoolWindow \in Nat
    BY <2>t DEF QuotaTypeOK, Times
  <2>p. ASSUME NEW p \in Pools
        PROVE  /\ pools[p].used \in Nat /\ pools[p].last_reset \in Nat
               /\ pools[p].last_reset <= now /\ pools[p].used <= Limits[p]
               /\ Limits[p] \in Nat /\ granted[p] \in Nat /\ renewals[p] \in Nat
    <3>1. pools[p] \in Pool /\ Limits[p] \in Nat /\ granted[p] \in Nat /\ renewals[p] \in Nat
      BY <2>t DEF QuotaTypeOK
    <3>2. CASE pools[p] = Absent
      BY <2>n, <3>1, <3>2 DEF Absent, Pool
    <3>3. CASE pools[p] # Absent
      BY <2>t, <3>1, <3>3 DEF QuotaTypeOK, Pool
    <3> QED BY <3>2, <3>3
  <2>1. CASE Tick
    <3>1. QuotaTypeOK'
      <4>1. now' \in Times /\ mark' \in Times /\ mark' <= now'
        BY <2>1, <2>t, <2>n DEF Tick, QuotaTypeOK, Times
      <4>2. ASSUME NEW p \in Pools, pools'[p] # Absent
            PROVE  /\ pools'[p].total_limit = Limits[p]
                   /\ pools'[p].used <= Limits[p]
                   /\ pools'[p].last_reset <= now'
        <5>1. pools' = pools /\ now' = now + 1
          BY <2>1 DEF Tick
        <5> QED BY <5>1, <4>2, <2>t, <2>p, <2>n DEF QuotaTypeOK
      <4> QED BY <4>1, <4>2, <2>1, <2>t DEF Tick, QuotaTypeOK
    <3>2. Budget'
      BY <2>1, <2>n DEF Tick, QuotaInv, Budget, RenewedSinceMark
    <3>3. NewPoolsUnused'
      BY <2>1 DEF Tick, QuotaInv, NewPoolsUnused
    <3> QED BY <3>1, <3>2, <3>3 DEF QuotaInv
  <2>2. ASSUME NEW p \in Pools, NEW clients \in SUBSET Clients, CreatePool(p, clients) PROVE QuotaInv'
    <3>0. NewPool(Limits[p]) \in Pool /\ pools'[p] = NewPool(Limits[p])
      BY <2>2, <2>t DEF CreatePool, NewPool, Pool, QuotaTypeOK
    <3>1. QuotaTypeOK'
      <4>1. pools' \in [Pools -> Pool]
        BY <2>2, <2>t, <3>0 DEF CreatePool, QuotaTypeOK
      <4>2. members' \in [Pools -> SUBSET Clients] /\ client_to_pool' \in [Clients -> Pools \cup {NoPool}]
        BY <2>2, <2>t DEF CreatePool, QuotaTypeOK
      <4>3. granted' \in [Pools -> Nat] /\ renewals' \in [Pools -> Nat]
        BY <2>2, <2>t DEF CreatePool, QuotaTypeOK
      <4>4. now' = now /\ mark' = mark
        BY <2>2 DEF CreatePool
      <4>5. ASSUME NEW q \in Pools, pools'[q] # Absent
            PROVE  /\ pools'[q].total_limit = Limits[q]
                   /\ pools'[q].used <= Limits[q]
                   /\ pools'[q].last_reset <= now'
        <5>1. CASE q = p
          BY <3>0, <4>4, <5>1, <2>n DEF NewPool
        <5>2. CASE q # p
          <6>1. pools'[q] = pools[q]
            BY <2>2, <2>t, <5>2 DEF CreatePool, QuotaTypeOK
          <6> QED BY <6>1, <4>4, <4>5, <2>t DEF QuotaTypeOK
        <5> QED BY <5>1, <5>2
      <4> QED BY <4>1, <4>2, <4>3, <4>4, <4>5, <2>t DEF QuotaTypeOK
    <3>2. Budget'
      <4> SUFFICES ASSUME now < mark + PoolWindow, NEW q \in Pools
                   PROVE  (granted[q] <= (renewals[q] + RenewedSinceMark(q)) * Limits[q] + pools[q].used)'
        BY <2>2 DEF Budget, CreatePool
      <4>b. granted[q] <= (renewals[q] + RenewedSinceMark(q)) * Limits[q] + pools[q].used
        BY DEF QuotaInv, Budget
      <4>1. CASE q # p
        BY <2>2, <2>t, <4>1, <4>b DEF CreatePool, QuotaTypeOK, RenewedSinceMark
      <4>2. CASE q = p
        <5>1. granted' = granted /\ renewals'[q] = renewals[q] + 1 /\ RenewedSinceMark(q)' = 1 /\ pools'[q].used = 0
          BY <2>2, <2>t, <3>0, <4>2 DEF CreatePool, QuotaTypeOK, NewPool, RenewedSinceMark
        <5>2. (renewals[q] + 1 + 1) * Limits[q] = (renewals[q] + 1) * Limits[q] + Limits[q]
          BY <2>p, OneMoreLimit
        <5>3. (renewals[q] + RenewedSinceMark(q)) * Limits[q] <= (renewals[q] + 1) * Limits[q]
          <6>1. (renewals[q] + 1) * Limits[q] = renewals[q] * Limits[q] + Limits[q]
            BY <2>p, OneMoreLimit
          <6>2. CASE RenewedSinceMark(q) = 1
            BY <6>2, <2>p, <6>1
          <6>3. CASE RenewedSinceMark(q) = 0
            BY <6>3, <2>p, <6>1
          <6> QED BY <6>2, <6>3 DEF RenewedSinceMark
        <5>4. granted[q] <= (renewals[q] + 1) * Limits[q] + Limits[q]
          BY <4>b, <5>3, <2>p DEF RenewedSinceMark
        <5> QED BY <5>1, <5>2, <5>4, <2>p
      <4> QED BY <4>1, <4>2
    <3>3. NewPoolsUnused'
      BY <2>2, <2>t, <3>0 DEF CreatePool, QuotaInv, NewPoolsUnused, NewPool, QuotaTypeOK
    <3> QED BY <3>1, <3>2, <3>3 DEF QuotaInv
  <2>3. ASSUME NEW p \in Pools, NEW c \in Clients, AddMember(p, c) PROVE QuotaInv'
    <3>1. QuotaTypeOK'
      BY <2>3, <2>t DEF AddMember, QuotaTypeOK
    <3>2. Budget'
      BY <2>3 DEF AddMember, QuotaInv, Budget, RenewedSinceMark
    <3>3. NewPoolsUnused'
      BY <2>3 DEF AddMember, QuotaInv, NewPoolsUnused
    <3> QED BY <3>1, <3>2, <3>3 DEF QuotaInv
  <2>4. ASSUME NEW c \in Clients, NEW cost \in Costs, CheckPoolQuota(c, cost) PROVE QuotaInv'
    <3> DEFINE p == client_to_pool[c]
               units == IF Grants(pools[p], PoolWindow, cost, now) THEN cost ELSE 0
               r == Renewed(pools[p], PoolWindow, now)
               a == AfterCheck(pools[p], PoolWindow, cost, now)
    <3>c. cost \in Nat
      OBVIOUS
    <3>0. p \in Pools /\ pools[p] # Absent
      BY <2>4, <2>t DEF CheckPoolQuota, QuotaTypeOK, Exists
    <3>f. /\ pools[p] \in Pool /\ pools[p].total_limit = Limits[p] /\ pools[p].used <= Limits[p]
      BY <3>0, <2>t DEF QuotaTypeOK
    <3>r. /\ r \in Pool /\ r.total_limit = Limits[p]
          /\ r.used = (IF Due(pools[p], PoolWindow, now) THEN 0 ELSE pools[p].used)
          /\ r.last_reset = (IF Due(pools[p], PoolWindow, now) THEN now ELSE pools[p].last_reset)
      BY <3>f, <2>n DEF Renewed, Pool
    <3>a. /\ a \in Pool /\ a.total_limit = Limits[p] /\ a.used <= Limits[p]
          /\ a.used = r.used + units /\ a.last_reset = r.last_reset
          /\ units \in Nat
      <4>1. CASE HasRoom(r, cost)
        <5>1. units = cost
          BY <4>1 DEF Grants
        <5>2. a = [r EXCEPT !.used = r.used + cost]
          BY <4>1 DEF AfterCheck
        <5>3. r.used + cost <= Limits[p] /\ r.used + cost \in Nat
          BY <4>1, <3>r, <3>c, <2>p, <3>0 DEF HasRoom, Remaining, Pool
        <5> HIDE DEF r, a, units
        <5> QED BY <5>1, <5>2, <5>3, <3>r, <3>c DEF Pool
      <4>2. CASE ~ HasRoom(r, cost)
        <5>1. units = 0 /\ a = r
          BY <4>2 DEF Grants, AfterCheck
        <5>2. r.used <= Limits[p] /\ r.used \in Nat
          BY <3>r, <2>p, <3>0
        <5> HIDE DEF r, a, units
        <5> QED BY <5>1, <5>2, <3>r
      <4> QED BY <4>1, <4>2
    <3>s. /\ pools' = [pools EXCEPT ![p] = a]
          /\ granted' = [granted EXCEPT ![p] = granted[p] + units]
          /\ UNCHANGED <<now, members, client_to_pool, mark, renewals>>
      BY <2>4 DEF CheckPoolQuota
    <3>d. Due(pools[p], PoolWindow, now) <=> now - pools[p].last_reset >= PoolWindow
      BY DEF Due
    <3> HIDE DEF a, units, r, p
    <3>1. QuotaTypeOK'
      <4>1. pools' \in [Pools -> Pool] /\ granted' \in [Pools -> Nat]
        BY <3>s, <3>a, <3>0, <2>t, <2>p DEF QuotaTypeOK
      <4>2. ASSUME NEW q \in Pools, pools'[q] # Absent
            PROVE  /\ pools'[q].total_limit = Limits[q]
                   /\ pools'[q].used <= Limits[q]
                   /\ pools'[q].last_reset <= now'
        <5>1. CASE q = p
          <6>1. pools'[q] = a
            BY <3>s, <3>0, <2>t, <5>1 DEF QuotaTypeOK
          <6> QED BY <6>1, <5>1, <3>a, <3>r, <3>s, <3>0, <2>p, <2>n
        <5>2. CASE q # p
          <6>1. pools'[q] = pools[q]
            BY <3>s, <2>t, <5>2 DEF QuotaTypeOK
          <6> QED BY <6>1, <3>s, <4>2, <2>t DEF QuotaTypeOK
        <5> QED BY <5>1, <5>2
      <4> QED BY <4>1, <4>2, <3>s, <2>t DEF QuotaTypeOK
    <3>2. Budget'
      <4> SUFFICES ASSUME now < mark + PoolWindow, NEW q \in Pools
                   PROVE  (granted[q] <= (renewals[q] + RenewedSinceMark(q)) * Limits[q] + pools[q].used)'
        BY <3>s DEF Budget
      <4>b. granted[q] <= (renewals[q] + RenewedSinceMark(q)) * Limits[q] + pools[q].used
        BY DEF QuotaInv, Budget
      <4>1. CASE q # p
        <5>1. pools'[q] = pools[q] /\ granted'[q] = granted[q]
          BY <3>s, <2>t, <4>1 DEF QuotaTypeOK
        <5> QED BY <5>1, <4>b, <3>s DEF RenewedSinceMark
      <4>2. CASE q = p
        <5>1. pools'[q] = a /\ granted'[q] = granted[q] + units /\ renewals' = renewals /\ mark' = mark
          BY <3>s, <3>0, <2>t, <4>2 DEF QuotaTypeOK
        <5>2. CASE ~ Due(pools[p], PoolWindow, now)
          <6>1. a.used = pools[q].used + units /\ a.last_reset = pools[q].last_reset
            BY <5>2, <3>a, <3>r, <4>2
          <6>2. RenewedSinceMark(q)' = RenewedSinceMark(q)
            BY <6>1, <5>1 DEF RenewedSinceMark
          <6> DEFINE m == (renewals[q] + RenewedSinceMark(q)) * Limits[q]
          <6>3. m \in Nat
            BY <2>p DEF RenewedSinceMark
          <6>4. granted[q] <= m + pools[q].used
            BY <4>b
          <6>5. ((renewals[q] + RenewedSinceMark(q)) * Limits[q])' = m
            BY <6>2, <5>1
          <6> HIDE DEF m
          <6>6. granted[q] + units <= m + (pools[q].used + units)
            BY <6>3, <6>4, <3>a, <2>p
          <6> QED BY <5>1, <6>1, <6>5, <6>6
        <5>3. CASE Due(pools[p], PoolWindow, now)
          <6>1. a.used = units /\ a.last_reset = now
            BY <5>3, <3>a, <3>r
          <6>2. \* its last window began before the mark, or it is new: either way
                \* what the old window granted fits in one limit
                granted[q] <= (renewals[q] + 1) * Limits[q]
            <7>1. (renewals[q] + 1) * Limits[q] = renewals[q] * Limits[q] + Limits[q]
              BY <2>p, OneMoreLimit
            <7>2. pools[q].last_reset < mark
              BY <5>3, <3>d, <4>2, <2>p, <2>n
            <7>3. CASE pools[q].last_reset = 0
              <8>1. RenewedSinceMark(q) = 1
                BY <7>3 DEF RenewedSinceMark
              <8>2. pools[q].used = 0
                BY <7>3 DEF QuotaInv, NewPoolsUnused
              <8> QED BY <8>1, <8>2, <4>b, <2>p
            <7>4. CASE pools[q].last_reset # 0
              <8>1. RenewedSinceMark(q) = 0
                BY <7>2, <7>4, <2>p, <2>n DEF RenewedSinceMark
              <8>2. granted[q] <= renewals[q] * Limits[q] + pools[q].used
                BY <8>1, <4>b, <2>p
              <8> QED BY <8>2, <7>1, <2>p
            <7> QED BY <7>3, <7>4
          <6>3. RenewedSinceMark(q)' = 1
            <7>1. mark <= now
              BY <2>t DEF QuotaTypeOK
            <7> QED BY <7>1, <6>1, <5>1 DEF RenewedSinceMark
          <6> QED BY <5>1, <6>1, <6>2, <6>3, <3>a, <2>p
        <5> QED BY <5>2, <5>3
      <4> QED BY <4>1, <4>2
    <3>3. NewPoolsUnused'
      <4> SUFFICES ASSUME NEW q \in Pools, pools'[q].last_reset = 0 PROVE pools'[q].used = 0
        BY DEF NewPoolsUnused
      <4>1. CASE q # p
        BY <3>s, <2>t, <4>1 DEF QuotaTypeOK, QuotaInv, NewPoolsUnused
      <4>2. CASE q = p
        <5>1. pools'[q] = a
          BY <3>s, <3>0, <2>t, <4>2 DEF QuotaTypeOK
        <5>2. pools[q].last_reset = 0 /\ ~ Due(pools[p], PoolWindow, now)
          BY <5>1, <3>a, <3>r, <2>n, <4>2
        <5>3. now >= PoolWindow
          BY <2>t DEF QuotaTypeOK, Times
        <5> QED BY <5>2, <5>3, <3>d, <4>2, <2>n
      <4> QED BY <4>1, <4>2
    <3> QED BY <3>1, <3>2, <3>3 DEF QuotaInv
  <2>5. \* one reset: what was used moves to the budget as one more limit
        ASSUME NEW q \in Pools, now < mark + PoolWindow,
               granted'[q] = granted[q], mark' = mark, renewals'[q] = renewals[q] + 1,
               pools'[q].used = 0, pools'[q].last_reset = pools[q].last_reset
        PROVE  (granted[q] <= (renewals[q] + RenewedSinceMark(q)) * Limits[q] + pools[q].used)'
    <3> DEFINE n == renewals[q] + RenewedSinceMark(q)
    <3>1. granted[q] <= n * Limits[q] + pools[q].used
      BY <2>5 DEF QuotaInv, Budget
    <3>2. n \in Nat /\ n' = n + 1
      BY <2>5, <2>p DEF RenewedSinceMark
    <3>3. (n + 1) * Limits[q] = n * Limits[q] + Limits[q]
      BY <3>2, <2>p, OneMoreLimit
    <3>4. n * Limits[q] \in Nat
      BY <3>2, <2>p
    <3> HIDE DEF n
    <3>5. granted[q] <= (n + 1) * Limits[q] + 0
      BY <3>1, <3>3, <3>4, <2>p
    <3>6. (n * Limits[q])' = (n + 1) * Limits[q]
      BY <3>2
    <3>7. (granted[q] <= n * Limits[q] + pools[q].used)'
      BY <3>5, <3>6, <2>5
    <3> QED BY <3>7 DEF n
  <2>6. ASSUME NEW p \in Pools, ResetPool(p) PROVE QuotaInv'
    <3>1. /\ pools' = [pools EXCEPT ![p] = [pools[p] EXCEPT !.used = 0]]
          /\ renewals' = [renewals EXCEPT ![p] = renewals[p] + 1]
          /\ UNCHANGED <<now, members, client_to_pool, mark, granted>>
      BY <2>6 DEF ResetPool, Emptied
    <3>2. /\ pools'[p] \in Pool /\ pools'[p].used = 0
          /\ pools'[p].total_limit = pools[p].total_limit
          /\ pools'[p].last_reset = pools[p].last_reset
      BY <3>1, <2>t DEF QuotaTypeOK, Pool
    <3>3. QuotaTypeOK'
      <4>1. pools' \in [Pools -> Pool] /\ renewals' \in [Pools -> Nat]
        BY <3>1, <3>2, <2>t DEF QuotaTypeOK
      <4>2. ASSUME NEW q \in Pools, pools'[q] # Absent
            PROVE  /\ pools'[q].total_limit = Limits[q]
                   /\ pools'[q].used <= Limits[q]
                   /\ pools'[q].last_reset <= now'
        <5>1. CASE q = p
          <6>1. pools[p] # Absent
            BY <2>6 DEF ResetPool, Exists
          <6> QED BY <5>1, <6>1, <3>1, <3>2, <2>t, <2>p DEF QuotaTypeOK
        <5>2. CASE q # p
          <6>1. pools'[q] = pools[q]
            BY <3>1, <2>t, <5>2 DEF QuotaTypeOK
          <6> QED BY <6>1, <3>1, <4>2, <2>t DEF QuotaTypeOK
        <5> QED BY <5>1, <5>2
      <4> QED BY <4>1, <4>2, <3>1, <2>t DEF QuotaTypeOK
    <3>4. Budget'
      <4> SUFFICES ASSUME now < mark + PoolWindow, NEW q \in Pools
                   PROVE  (granted[q] <= (renewals[q] + RenewedSinceMark(q)) * Limits[q] + pools[q].used)'
        BY <3>1 DEF Budget
      <4>1. CASE q # p
        <5>1. pools'[q] = pools[q] /\ renewals'[q] = renewals[q]
          BY <3>1, <2>t, <4>1 DEF QuotaTypeOK
        <5> QED BY <5>1, <3>1 DEF QuotaInv, Budget, RenewedSinceMark
      <4>2. CASE q = p
        <5>1. renewals'[q] = renewals[q] + 1
          BY <3>1, <2>t, <4>2 DEF QuotaTypeOK
        <5> QED BY <2>5, <5>1, <3>1, <3>2, <4>2
      <4> QED BY <4>1, <4>2
    <3>5. NewPoolsUnused'
      BY <3>1, <3>2, <2>t DEF QuotaInv, NewPoolsUnused, QuotaTypeOK
    <3> QED BY <3>3, <3>4, <3>5 DEF QuotaInv
  <2>7. CASE ResetAll
    <3>1. ASSUME NEW q \in Pools
          PROVE  /\ pools'[q] \in Pool /\ pools'[q].used = 0
                 /\ pools'[q].last_reset = pools[q].last_reset
                 /\ pools'[q] # Absent => pools[q] # Absent
                 /\ pools[q] # Absent => pools'[q].total_limit = pools[q].total_limit
                 /\ renewals'[q] = renewals[q] + 1
      <4>1. pools'[q] = IF pools[q] # Absent THEN [pools[q] EXCEPT !.used = 0] ELSE Absent
        BY <2>7 DEF ResetAll, Exists, Emptied
      <4>2. pools[q] \in Pool
        BY <2>t DEF QuotaTypeOK
      <4>3. renewals'[q] = renewals[q] + 1
        BY <2>7 DEF ResetAll
      <4> QED BY <4>1, <4>2, <4>3 DEF Pool, Absent
    <3>2. UNCHANGED <<now, members, client_to_pool, mark, granted>>
      BY <2>7 DEF ResetAll
    <3>3. QuotaTypeOK'
      <4>1. pools' \in [Pools -> Pool] /\ renewals' \in [Pools -> Nat]
        BY <2>7, <3>1, <2>p DEF ResetAll
      <4>2. ASSUME NEW q \in Pools, pools'[q] # Absent
            PROVE  /\ pools'[q].total_limit = Limits[q]
                   /\ pools'[q].used <= Limits[q]
                   /\ pools'[q].last_reset <= now'
        BY <3>1, <3>2, <4>2, <2>t, <2>p DEF QuotaTypeOK
      <4> QED BY <4>1, <4>2, <3>2, <2>t DEF QuotaTypeOK
    <3>4. Budget'
      BY <3>1, <3>2, <2>5 DEF Budget
    <3>5. NewPoolsUnused'
      BY <3>1 DEF NewPoolsUnused
    <3> QED BY <3>3, <3>4, <3>5 DEF QuotaInv
  <2>8. CASE Observe
    <3>1. QuotaTypeOK'
      <4>1. now' = now /\ mark' = now /\ pools' = pools
        BY <2>8 DEF Observe
      <4>2. granted' \in [Pools -> Nat] /\ renewals' \in [Pools -> Nat]
        BY <2>8 DEF Observe
      <4>3. mark' \in Times /\ mark' <= now'
        BY <4>1, <2>n, <2>t DEF QuotaTypeOK
      <4> QED BY <2>8, <4>1, <4>2, <4>3, <2>t DEF Observe, QuotaTypeOK
    <3>2. NewPoolsUnused'
      BY <2>8 DEF Observe, QuotaInv, NewPoolsUnused
    <3>3. Budget'
      <4> SUFFICES ASSUME NEW q \in Pools
                   PROVE  (granted[q] <= (renewals[q] + RenewedSinceMark(q)) * Limits[q] + pools[q].used)'
        BY DEF Budget
      <4>1. granted'[q] = 0 /\ renewals'[q] = 0 /\ pools' = pools
        BY <2>8 DEF Observe
      <4>2. CASE RenewedSinceMark(q)' = 0
        BY <4>1, <4>2, <2>p
      <4>3. CASE RenewedSinceMark(q)' = 1
        BY <4>1, <4>3, <2>p
      <4> QED BY <4>2, <4>3 DEF RenewedSinceMark
    <3> QED BY <3>1, <3>2, <3>3 DEF QuotaInv
  <2>9. CASE UNCHANGED quota_vars
    <3>1. QuotaTypeOK'
      BY <2>9, <2>t DEF quota_vars, QuotaTypeOK
    <3>2. NewPoolsUnused'
      BY <2>9 DEF quota_vars, QuotaInv, NewPoolsUnused
    <3>3. Budget'
      BY <2>9 DEF quota_vars, QuotaInv, Budget, RenewedSinceMark
    <3> QED BY <3>1, <3>2, <3>3 DEF QuotaInv
  <2> QED BY <2>1, <2>2, <2>3, <2>4, <2>6, <2>7, <2>8, <2>9 DEF QuotaNext
<1> QED BY <1>1, <1>2, PTL DEF QuotaSpec

\* The type invariant: among it, no pool ever counts more than its limit as used.
THEOREM QuotaTypeCorrect == QuotaSpec => []QuotaTypeOK
PROOF
<1>1. QuotaInv => QuotaTypeOK
  BY DEF QuotaInv
<1> QED BY <1>1, QuotaInvariance, PTL

\* No pool grants more than twice its limit while a window lasts, counted from any
\* instant, plus one limit for every reset.
THEOREM PoolGrantsBounded == QuotaSpec => []GrantsBounded
PROOF
<1> USE PoolsAssumption, PoolWindowAssumption, BoundsAssumption
<1>1. QuotaInv => GrantsBounded
  <2> SUFFICES ASSUME QuotaInv, now < mark + PoolWindow, NEW p \in Pools
               PROVE  granted[p] <= (2 + renewals[p]) * Limits[p]
    BY DEF GrantsBounded
  <2> DEFINE n == renewals[p]
  <2>1. /\ n \in Nat /\ Limits[p] \in Nat /\ granted[p] \in Nat
        /\ pools[p].used \in Nat /\ pools[p].used <= Limits[p]
    <3>1. n \in Nat /\ Limits[p] \in Nat /\ granted[p] \in Nat /\ pools[p] \in Pool
      BY DEF QuotaInv, QuotaTypeOK
    <3>2. CASE pools[p] = Absent
      BY <3>1, <3>2 DEF Absent
    <3>3. CASE pools[p] # Absent
      BY <3>1, <3>3 DEF QuotaInv, QuotaTypeOK, Pool
    <3> QED BY <3>2, <3>3
  <2>2. granted[p] <= (n + RenewedSinceMark(p)) * Limits[p] + pools[p].used
    BY DEF QuotaInv, Budget
  <2>3. /\ (n + 1) * Limits[p] = n * Limits[p] + Limits[p]
        /\ (n + 1 + 1) * Limits[p] = (n + 1) * Limits[p] + Limits[p]
    BY <2>1, OneMoreLimit
  <2>4. RenewedSinceMark(p) = 0 \/ RenewedSinceMark(p) = 1
    BY DEF RenewedSinceMark
  <2> HIDE DEF n
  <2>5. granted[p] <= (n + 1 + 1) * Limits[p]
    <3>1. CASE RenewedSinceMark(p) = 1
      BY <3>1, <2>1, <2>2, <2>3
    <3>2. CASE RenewedSinceMark(p) = 0
      BY <3>2, <2>1, <2>2, <2>3
    <3> QED BY <2>4, <3>1, <3>2
  <2>6. n + 1 + 1 = 2 + n
    BY <2>1
  <2> QED BY <2>5, <2>6 DEF n
<1> QED BY <1>1, QuotaInvariance, PTL
=============================================================================
