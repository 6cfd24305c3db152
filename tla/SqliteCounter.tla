---------------------------- MODULE SqliteCounter ----------------------------
(***************************************************************************)
(* SQLiteRepository.increment_counter and clear, for one key               *)
(* (src/app/repositories/sqlite_repository.py).  Every worker process has  *)
(* its own repository, and with it its own lock; they share the database.  *)
(* The SELECT runs outside any transaction (Python's sqlite3 begins one    *)
(* with the first write), so between it and the write and commit other     *)
(* processes may commit, and time may pass.                                *)
(***************************************************************************)
EXTENDS CounterStore, FiniteSets

CONSTANTS
  Workers,        \* the server processes
  Threads,        \* the threads of each of them
  Ttl,            \* the ttl of the key, in ticks of the clock
  MaxTime,        \* bound of the model: the clock stops here
  MaxIncrements   \* bound of the model: increments that may be started

VARIABLES
  now,        \* time.time()
  row,        \* the row of the key in the table counters
  pc,         \* where each thread of each worker is
  read_row,   \* what its SELECT returned
  read_at,    \* the local variable `now`
  started,    \* increments started so far
  counted     \* history: increments committed to the row that is there now

vars == <<now, row, pc, read_row, read_at, started, counted>>

Calls == Workers \X Threads

TypeOK ==
  /\ now \in 0 .. MaxTime
  /\ row \in Counter
  /\ pc \in [Calls -> {"idle", "write"}]
  /\ read_row \in [Calls -> Counter]
  /\ read_at \in [Calls -> 0 .. MaxTime]
  /\ started \in 0 .. MaxIncrements
  /\ counted \in 0 .. MaxIncrements

Init ==
  /\ now = 0
  /\ row = Missing
  /\ pc = [c \in Calls |-> "idle"]
  /\ read_row = [c \in Calls |-> Missing]
  /\ read_at = [c \in Calls |-> 0]
  /\ started = 0
  /\ counted = 0

-----------------------------------------------------------------------------
Tick ==
  /\ now < MaxTime
  /\ now' = now + 1
  /\ UNCHANGED <<row, pc, read_row, read_at, started, counted>>

\* self._lock is held by a thread of the worker.
Locked(worker) == \E t \in Threads : pc[<<worker, t>>] = "write"

\* with self._lock: now = time.time(); SELECT.
Select(c) ==
  /\ ~ Locked(c[1])
  /\ pc[c] = "idle"
  /\ started < MaxIncrements /\ started' = started + 1
  /\ pc' = [pc EXCEPT ![c] = "write"]
  /\ read_row' = [read_row EXCEPT ![c] = row]
  /\ read_at' = [read_at EXCEPT ![c] = now]
  /\ UNCHANGED <<now, row, counted>>

\* UPDATE changes the count of whatever row there is by then, and of none if the
\* table was cleared ...
Update(c) ==
  /\ pc[c] = "write" /\ Live(read_row[c], read_at[c])
  /\ row' = IF row = Missing THEN row ELSE [row EXCEPT !.count = read_row[c].count + 1]
  /\ counted' = IF row = Missing THEN counted ELSE counted + 1
  /\ pc' = [pc EXCEPT ![c] = "idle"]
  /\ UNCHANGED <<now, read_row, read_at, started>>

\* ... and INSERT OR REPLACE replaces it.
InsertOrReplace(c) ==
  /\ pc[c] = "write" /\ ~ Live(read_row[c], read_at[c])
  /\ row' = [count |-> 1, expires_at |-> read_at[c] + Ttl]
  /\ counted' = 1
  /\ pc' = [pc EXCEPT ![c] = "idle"]
  /\ UNCHANGED <<now, read_row, read_at, started>>

\* clear: DELETE FROM the tables, under the lock of the worker.
Clear(worker) ==
  /\ ~ Locked(worker)
  /\ row' = Missing
  /\ counted' = 0
  /\ UNCHANGED <<now, pc, read_row, read_at, started>>

Next ==
  \/ Tick
  \/ \E worker \in Workers : Clear(worker)
  \/ \E c \in Calls : Select(c) \/ Update(c) \/ InsertOrReplace(c)

Spec == Init /\ [][Next]_vars

-----------------------------------------------------------------------------
\* sqlite_repository.py:70, "Increment counter atomically in SQLite": the count of
\* the row is the number of increments committed to it.
EveryIncrementCounts == row.count = counted

=============================================================================
