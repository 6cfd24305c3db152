---------------------------- MODULE DynamicConfig ----------------------------
(***************************************************************************)
(* DynamicConfigManager (src/app/services/dynamic_config.py), one in every *)
(* worker process, over the one file they share.  An update is a list of   *)
(* entries, applied one by one to the worker that received it and then     *)
(* written to the file: opening the file truncates it, and the text        *)
(* follows later.  An entry that sets a client's limit is refused if the   *)
(* worker knows no algorithm for the endpoint, and earlier updates may     *)
(* have made one known.  A worker may crash at any moment; when it starts  *)
(* again it has the settings of its environment, and applies what the file *)
(* says as it would an update.                                             *)
(***************************************************************************)
EXTENDS Integers, Sequences

CONSTANTS
  Workers,      \* the server processes
  Settings,     \* what can be set, in the order of an update: <<[section, endpoint], ...>>
  Environment,  \* each setting's value from the environment: Default or Unconfigured
  Values,       \* what settings may be set to
  Bad,          \* a value that is refused by any worker
  Default,      \* the value of a setting that the environment gives
  Unconfigured, \* of a setting it does not: no such limit, no such endpoint
  Unset,        \* in an update: it does not speak of this setting
  Missing,      \* of the file: there is none
  Empty,        \* of the file: opened for writing, and nothing written yet
  Garbage,      \* of the file: two texts over each other, or part of one
  MaxUpdates    \* bound of the model: updates received

Entries == 1 .. Len(Settings)

ASSUME ConfigAssumption ==
  /\ {Bad, Default, Unconfigured, Unset} \cap Values = {}
  /\ Bad # Unset /\ Default # Unconfigured /\ Unset \notin {Default, Unconfigured}
  /\ Len(Settings) \in Nat \ {0}
  /\ Environment \in [Entries -> {Default, Unconfigured}]
  /\ MaxUpdates \in Nat

VARIABLES
  running,   \* what each worker's RateLimiterService uses
  cache,     \* the entry of its ConfigCache, or Nothing
  pc,        \* where its apply_update is; the manager's lock is held unless "idle"
  entry,     \* the entry it applies next
  update,    \* the update it is working on
  file,      \* the file at _file_path
  received,  \* updates received so far
  applied,   \* history: updates that some worker has accepted to the end
  wanted,    \* history: the settings of the updates that were answered 200
  dirty      \* history: workers that have failed an update since their last good one

vars == <<running, cache, pc, entry, update, file, received, applied, wanted, dirty>>

Config == [Entries -> Values \cup {Default, Unconfigured}]
Update == [Entries -> Values \cup {Bad, Unset}]
Nothing == [i \in Entries |-> Unset]
Overlaid(config, u) == [i \in Entries |-> IF u[i] = Unset THEN config[i] ELSE u[i]]

\* The first n entries of an update.
Beginning(u, n) == [i \in Entries |-> IF i <= n THEN u[i] ELSE Unset]

SetsLimit(i) == Settings[i].section = "clients"

\* `endpoint in self._rate_limiter.algorithms`
HasAlgorithm(config, endpoint) ==
  \E i \in Entries :
    Settings[i].section = "algorithms" /\ Settings[i].endpoint = endpoint /\ config[i] # Unconfigured

\* Settings.get_clients and get_endpoint_algorithms speak of the same endpoints.
ASSUME EnvironmentAssumption ==
  \A i \in Entries :
    SetsLimit(i) /\ Environment[i] # Unconfigured => HasAlgorithm(Environment, Settings[i].endpoint)

TypeOK ==
  /\ running \in [Workers -> Config]
  /\ cache \in [Workers -> Config \cup {Nothing}]
  /\ pc \in [Workers -> {"idle", "apply", "save", "write", "down"}]
  /\ entry \in [Workers -> Entries]
  /\ update \in [Workers -> Update]
  /\ file \in Update \cup {Missing, Empty, Garbage}
  /\ received \in 0 .. MaxUpdates
  /\ applied \subseteq Update
  /\ wanted \in Config
  /\ dirty \subseteq Workers

Init ==
  /\ running = [w \in Workers |-> Environment]
  /\ cache = [w \in Workers |-> Nothing]
  /\ pc = [w \in Workers |-> "idle"]
  /\ entry = [w \in Workers |-> 1]
  /\ update = [w \in Workers |-> Nothing]
  /\ file = Missing
  /\ received = 0
  /\ applied = {}
  /\ wanted = Environment
  /\ dirty = {}

-----------------------------------------------------------------------------
Go(w, from, to) == pc[w] = from /\ pc' = [pc EXCEPT ![w] = to]

\* apply_update returns or raises, and forgets its argument.
Leave(w, from) ==
  /\ Go(w, from, "idle")
  /\ update' = [update EXCEPT ![w] = Nothing]
  /\ entry' = [entry EXCEPT ![w] = 1]

\* POST /admin/config reaches one of the workers.  A body that is no JSON is an update
\* without entries.
Receive(w, u) ==
  /\ Go(w, "idle", "apply")
  /\ received < MaxUpdates /\ received' = received + 1
  /\ update' = [update EXCEPT ![w] = u]
  /\ UNCHANGED <<running, cache, entry, file, applied, wanted, dirty>>

\* The checks of _update_clients, _update_algorithms, _update_weights and
\* _update_time_policies on one entry, in a worker that runs with config.  (A faulty
\* variant looks at the endpoint only.)
AcceptsAnyValue(config, i, value) ==
  value # Unset /\ SetsLimit(i) => HasAlgorithm(config, Settings[i].endpoint)

Accepts(config, i, value) ==
  /\ value # Bad
  /\ value # Unset /\ SetsLimit(i) => HasAlgorithm(config, Settings[i].endpoint)

\* The service of the worker reads the new setting from its next request on.
Reconfigured(w, i, value) == [running EXCEPT ![w][i] = value]

\* An entry that is accepted is in force at once ...
ApplyEntry(w) ==
  LET i == entry[w]
      u == update[w]
      last == i = Len(Settings)
  IN  /\ Accepts(running[w], i, u[i])
      /\ Go(w, "apply", IF last THEN "save" ELSE "apply")
      /\ running' = IF u[i] = Unset THEN running ELSE Reconfigured(w, i, u[i])
      /\ entry' = [entry EXCEPT ![w] = IF last THEN 1 ELSE i + 1]
      /\ applied' = IF last THEN applied \cup {u} ELSE applied
      /\ UNCHANGED <<cache, update, file, received, wanted, dirty>>

\* ... and stays in force if a later one raises ValueError.  (Faulty variant: the
\* refused update is saved.)
RefuseButSave(w) ==
  /\ ~ Accepts(running[w], entry[w], update[w][entry[w]])
  /\ Leave(w, "apply")
  /\ file' = update[w]
  /\ dirty' = dirty \cup {w}
  /\ UNCHANGED <<running, cache, received, applied, wanted>>

Refuse(w) ==
  /\ ~ Accepts(running[w], entry[w], update[w][entry[w]])
  /\ Leave(w, "apply")
  /\ dirty' = dirty \cup {w}
  /\ UNCHANGED <<running, cache, file, received, applied, wanted>>

\* ConfigCache.invalidate("config")
Invalidated(w) == [cache EXCEPT ![w] = Nothing]

\* _save: open(path, "w") truncates what is there.
OpenFile(w) ==
  /\ Go(w, "save", "write")
  /\ file' = Empty
  /\ UNCHANGED <<running, cache, entry, update, received, applied, wanted, dirty>>

\* json.dump, and the file is closed.  Each worker writes from the beginning of the
\* file: over the text of one that has written since both had opened it, of which the
\* end follows if it was longer.
Written(w) == {update[w]} \cup (IF file = Empty THEN {} ELSE {Garbage})

\* (Faulty variant: the cached configuration is left in place.)
WriteFileKeepingCache(w) ==
  /\ Leave(w, "write")
  /\ file' \in Written(w)
  /\ wanted' = Overlaid(wanted, update[w])
  /\ dirty' = dirty \ {w}
  /\ UNCHANGED <<running, cache, received, applied>>

WriteFile(w) ==
  /\ Leave(w, "write")
  /\ file' \in Written(w)
  /\ cache' = Invalidated(w)
  /\ wanted' = Overlaid(wanted, update[w])
  /\ dirty' = dirty \ {w}
  /\ UNCHANGED <<running, received, applied>>

\* What a write that does not come to its end leaves: nothing of it, part, or all.
Interrupted(w) == {file} \cup (IF pc[w] = "write" THEN Written(w) \cup {Garbage} ELSE {})

\* The disk fails: _save logs the error and raises it again.
SaveFails(w) ==
  /\ Leave(w, "save") \/ Leave(w, "write")
  /\ file' \in Interrupted(w)
  /\ dirty' = dirty \cup {w}
  /\ UNCHANGED <<running, cache, received, applied, wanted>>

\* get_config loads the cache; its entry expires a second later.
GetConfig(w) ==
  /\ pc[w] = "idle" /\ cache[w] = Nothing
  /\ cache' = [cache EXCEPT ![w] = running[w]]
  /\ UNCHANGED <<running, pc, entry, update, file, received, applied, wanted, dirty>>

CacheExpires(w) ==
  /\ cache[w] # Nothing
  /\ cache' = Invalidated(w)
  /\ UNCHANGED <<running, pc, entry, update, file, received, applied, wanted, dirty>>

\* The process and what it had in memory are gone.
Crash(w) ==
  /\ pc' = [pc EXCEPT ![w] = "down"]
  /\ pc[w] # "down"
  /\ running' = [running EXCEPT ![w] = Environment]
  /\ cache' = Invalidated(w)
  /\ update' = [update EXCEPT ![w] = Nothing]
  /\ entry' = [entry EXCEPT ![w] = 1]
  /\ file' \in Interrupted(w)
  /\ dirty' = dirty \ {w}
  /\ UNCHANGED <<received, applied, wanted>>

\* __init__ applies what it finds in the file, and does not save it.  At an entry that
\* this worker refuses it stops: the exception is logged, like that of a text that
\* cannot be parsed, and what was applied stays.
StopsAfter(n, u, config) ==
  /\ \A i \in 1 .. n : Accepts(Overlaid(config, Beginning(u, i - 1)), i, u[i])
  /\ n < Len(Settings) => ~ Accepts(Overlaid(config, Beginning(u, n)), n + 1, u[n + 1])

Unreadable == file \in {Missing, Empty, Garbage}

\* (Faulty variant: what was once saved is not checked again.)
LoadedUnchecked == {IF Unreadable THEN Environment ELSE Overlaid(Environment, file)}

Loaded ==
  IF Unreadable THEN {Environment}
  ELSE {Overlaid(Environment, Beginning(file, n)) :
          n \in {m \in 0 .. Len(Settings) : StopsAfter(m, file, Environment)}}

Restart(w) ==
  /\ Go(w, "down", "idle")
  /\ \E config \in Loaded : running' = [running EXCEPT ![w] = config]
  /\ UNCHANGED <<cache, entry, update, file, received, applied, wanted, dirty>>

Next ==
  \E w \in Workers :
    \/ \E u \in Update : Receive(w, u)
    \/ ApplyEntry(w) \/ Refuse(w)
    \/ OpenFile(w) \/ WriteFile(w) \/ SaveFails(w)
    \/ GetConfig(w) \/ CacheExpires(w)
    \/ Crash(w) \/ Restart(w)

Spec == Init /\ [][Next]_vars

-----------------------------------------------------------------------------
\* Whatever crashes and other workers did to the file, a worker starts with its
\* environment and, above it, the beginning of one update that a worker once accepted to
\* the end, or none.  It is all of that update, unless the next entry limits a client at
\* an endpoint that is known to the worker that accepted it, and not to this one.
RestartsFromAnAcceptedUpdate ==
  [][\A w \in Workers :
       pc[w] = "down" /\ pc'[w] = "idle" =>
         \E u \in applied \cup {Nothing} : \E n \in 0 .. Len(Settings) :
           /\ running'[w] = Overlaid(Environment, Beginning(u, n))
           /\ n < Len(Settings) =>
                u[n + 1] \in Values /\ SetsLimit(n + 1)
                  /\ ~ HasAlgorithm(running'[w], Settings[n + 1].endpoint)]_vars

\* Between updates, get_config shows what the worker runs with, unless an update
\* has failed half way: only then is the cache not told of what changed.
CacheShowsWhatRuns ==
  \A w \in Workers :
    pc[w] = "idle" /\ w \notin dirty => cache[w] \in {Nothing, running[w]}

\* In no worker does a client have a limit at an endpoint without an algorithm, where
\* every request of its would raise ValueError: not while an update is half applied, not
\* after one was refused, and not after a restart from an update that another worker, or
\* the same one with other settings, has accepted.
LimitsHaveAnAlgorithm ==
  \A w \in Workers : \A i \in Entries :
    SetsLimit(i) /\ running[w][i] # Unconfigured => HasAlgorithm(running[w], Settings[i].endpoint)


=============================================================================
