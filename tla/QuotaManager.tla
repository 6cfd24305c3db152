---------------------------- MODULE QuotaManager ----------------------------
(***************************************************************************)
(* QuotaManager (src/app/services/quota_sharing.py): clients that draw on  *)
(* shared pools.  Every operation is one critical section, so it is one    *)
(* action; the clients' calls come in any order and at any time.           *)
(***************************************************************************)
EXTENDS QuotaPool, FiniteSets

CONSTANTS
  Clients,
  Pools,
  NoPool,       \* of a client: it is not in _client_to_pool
  Limits,       \* total_limit of each pool
  PoolWindow,   \* window of every pool, in ticks of the clock
  Costs,        \* the costs requests may have
  MaxTime,      \* bound of the model: the clock stops here
  MaxGrants,    \* bound of the model: units a pool may grant since the mark
  MaxRenewals   \* bound of the model: resets of a pool since the mark

ASSUME PoolsAssumption == NoPool \notin Pools /\ Limits \in [Pools -> Nat \ {0}]
ASSUME PoolWindowAssumption == PoolWindow \in Nat \ {0}
ASSUME CostsAssumption == Costs \subseteq Nat \ {0}
ASSUME BoundsAssumption == MaxTime \in Nat /\ MaxGrants \in Nat /\ MaxRenewals \in Nat

VARIABLES
  now,             \* time.time()
  pools,           \* _pools: what is known of a pool that exists
  members,         \* QuotaPool.members, of every pool
  client_to_pool,  \* _client_to_pool
  mark,            \* history: an instant from which grants are counted
  granted,         \* history: units each pool granted since the mark
  renewals         \* history: administrator's resets of each pool since the mark

quota_vars == <<now, pools, members, client_to_pool, mark, granted, renewals>>

\* The clock starts a window after 0, as the epoch's clock does.
Times == PoolWindow .. PoolWindow + MaxTime
Absent == [total_limit |-> 0, used |-> 0, last_reset |-> 0]
Pool == [total_limit : Nat, used : Nat, last_reset : Nat]

QuotaTypeOK ==
  /\ now \in Times
  /\ pools \in [Pools -> Pool]
  /\ \A p \in Pools :
       pools[p] # Absent =>
         /\ pools[p].total_limit = Limits[p]
         /\ pools[p].used <= Limits[p]
         /\ pools[p].last_reset <= now
  /\ members \in [Pools -> SUBSET Clients]
  /\ client_to_pool \in [Clients -> Pools \cup {NoPool}]
  /\ mark \in Times /\ mark <= now
  /\ granted \in [Pools -> Nat]
  /\ renewals \in [Pools -> Nat]

QuotaInit ==
  /\ now = PoolWindow
  /\ pools = [p \in Pools |-> Absent]
  /\ members = [p \in Pools |-> {}]
  /\ client_to_pool = [c \in Clients |-> NoPool]
  /\ mark = now
  /\ granted = [p \in Pools |-> 0]
  /\ renewals = [p \in Pools |-> 0]

-----------------------------------------------------------------------------
Exists(p) == pools[p] # Absent

Tick ==
  /\ now < PoolWindow + MaxTime
  /\ now' = now + 1
  /\ UNCHANGED <<pools, members, client_to_pool, mark, granted, renewals>>

\* create_pool: a pool of that name is replaced, and its clients are not forgotten.
CreatePool(p, clients) ==
  /\ renewals[p] < MaxRenewals
  /\ pools' = [pools EXCEPT ![p] = NewPool(Limits[p])]
  /\ members' = [members EXCEPT ![p] = clients]
  /\ client_to_pool' = [c \in Clients |-> IF c \in clients THEN p ELSE client_to_pool[c]]
  /\ renewals' = [renewals EXCEPT ![p] = @ + 1]
  /\ UNCHANGED <<now, mark, granted>>

\* add_member (of a pool that does not exist it changes nothing)
AddMember(p, c) ==
  /\ Exists(p)
  /\ members' = [members EXCEPT ![p] = @ \cup {c}]
  /\ client_to_pool' = [client_to_pool EXCEPT ![c] = p]
  /\ UNCHANGED <<now, pools, mark, granted, renewals>>

\* check_pool_quota.  A client of no pool is not constrained, and changes nothing.
CheckPoolQuota(c, cost) ==
  LET p == client_to_pool[c]
      units == IF Grants(pools[p], PoolWindow, cost, now) THEN cost ELSE 0
  IN  /\ p # NoPool
      /\ Exists(p)
      /\ granted[p] + units <= MaxGrants
      /\ pools' = [pools EXCEPT ![p] = AfterCheck(@, PoolWindow, cost, now)]
      /\ granted' = [granted EXCEPT ![p] = @ + units]
      /\ UNCHANGED <<now, members, client_to_pool, mark, renewals>>

\* reset_pool, and reset_all
ResetPool(p) ==
  /\ Exists(p) /\ renewals[p] < MaxRenewals
  /\ pools' = [pools EXCEPT ![p] = Emptied(@)]
  /\ renewals' = [renewals EXCEPT ![p] = @ + 1]
  /\ UNCHANGED <<now, members, client_to_pool, mark, granted>>

ResetAll ==
  /\ \A p \in Pools : renewals[p] < MaxRenewals
  /\ pools' = [p \in Pools |-> IF Exists(p) THEN Emptied(pools[p]) ELSE Absent]
  /\ renewals' = [p \in Pools |-> renewals[p] + 1]
  /\ UNCHANGED <<now, members, client_to_pool, mark, granted>>

\* An observer starts to count here.  (Not the program's: it changes only history.)
Observe ==
  /\ mark' = now
  /\ granted' = [p \in Pools |-> 0]
  /\ renewals' = [p \in Pools |-> 0]
  /\ UNCHANGED <<now, pools, members, client_to_pool>>

QuotaNext ==
  \/ Tick
  \/ \E p \in Pools, clients \in SUBSET Clients : CreatePool(p, clients)
  \/ \E p \in Pools, c \in Clients : AddMember(p, c)
  \/ \E c \in Clients, cost \in Costs : CheckPoolQuota(c, cost)
  \/ \E p \in Pools : ResetPool(p)
  \/ ResetAll
  \/ Observe

QuotaSpec == QuotaInit /\ [][QuotaNext]_quota_vars

-----------------------------------------------------------------------------
\* From any instant on, for as long as a window lasts, a pool grants at most twice
\* its limit, whatever its members ask for and however they divide it; each reset
\* or re-creation of the pool adds one limit.  The window starts when the first
\* request after the last one comes, so the two halves may touch.
GrantsBounded ==
  now < mark + PoolWindow => \A p \in Pools : granted[p] <= (2 + renewals[p]) * Limits[p]
=============================================================================
