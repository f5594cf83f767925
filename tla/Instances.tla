------------------------------ MODULE Instances ------------------------------
(***************************************************************************)
(* The life of the process (src/index.js, createMemoryCache, setupApi) in  *)
(* several instances that share one MySQL and one Redis, as in a rolling   *)
(* update or with more than one replica: the migrations of the schema with *)
(* crashes between their steps, the wait for the identity provider, and    *)
(* cacheKey of several instances on one transfer.                          *)
(*                                                                         *)
(* knex runs the migrations in a transaction that takes a lock in a table; *)
(* MySQL commits it with the first ALTER or CREATE TABLE, and each of      *)
(* these at once.                                                          *)
(***************************************************************************)
EXTENDS Naturals, Sequences

CONSTANTS
    Pods,        \* the instances
    MaxVersions, \* bound on the versions of the record; the last has ended
    MaxCrashes   \* bound on the crashes

ASSUME InstancesAssumption == MaxVersions \in Nat \ {0} /\ MaxCrashes \in Nat

VARIABLES
    applied,  \* what the migrations have made of the schema
    recorded, \* the number of migrations recorded as completed
    lock,     \* the migrations' lock: free, taken, or committed as taken
    idp,      \* does the identity provider answer?
    pc,       \* what each instance is doing
    run,      \* and its sync: none, read or selected
    redis,    \* the version of the record in Redis
    row,      \* the version in MySQL, 0 if there is no row
    data,     \* the version an instance has read from Redis
    existing, \* the version it has read from MySQL
    crashes,  \* crashes so far
    mixed,    \* ghost: did another sync overlap with this one?
    cut       \* ghost: was create_sync_state_table cut off between its statements?

bootVars == <<applied, recorded, lock, idp, pc, crashes, cut>>
syncVars == <<run, redis, row, data, existing, mixed>>
vars == <<bootVars, syncVars>>

-----------------------------------------------------------------------------
(* The migrations, in the order of their names: what each needs, what its  *)
(* first statement adds and what those after it add (table.index and       *)
(* table.unique are an ALTER TABLE each; one stands for several), and      *)
(* whether it looks first for what the first one adds.                     *)

create_transfer_table ==
    [needs |-> {}, adds |-> "transfer", alters |-> {"transfer_indexes"}, checks |-> FALSE]

(* Mutant: a table that is there already is taken for complete.            *)
create_fx_quotes_table_IfNotExists ==
    [needs |-> {}, adds |-> "fx_quote", alters |-> {"fx_quote_indexes"}, checks |-> TRUE]

create_fx_quotes_table ==
    [needs |-> {}, adds |-> "fx_quote", alters |-> {"fx_quote_indexes"}, checks |-> FALSE]

create_fxtransfer_table ==
    [needs |-> {}, adds |-> "fx_transfer", alters |-> {"fx_transfer_indexes"}, checks |-> FALSE]

add_performance_indexes ==
    [needs |-> {"transfer"}, adds |-> "redis_key_UNIQUE", alters |-> {"indexes"},
     checks |-> FALSE]

(* Mutant: the table may be partitioned already.                           *)
add_transfer_partitioning_Unchecked ==
    [needs |-> {"transfer"}, adds |-> "partitions", alters |-> {}, checks |-> FALSE]

add_transfer_partitioning ==
    [needs |-> {"transfer"}, adds |-> "partitions", alters |-> {}, checks |-> TRUE]

add_transfer_compression ==
    [needs |-> {"transfer"}, adds |-> "compression", alters |-> {}, checks |-> TRUE]

(* Mutant: the index is not given the name that is looked for.             *)
add_transfer_id_index_Renamed ==
    [needs |-> {"transfer"}, adds |-> "id_index_2", alters |-> {}, checks |-> TRUE]

add_transfer_id_index ==
    [needs |-> {"transfer"}, adds |-> "id_index", alters |-> {}, checks |-> TRUE]

(* The unique key of key_pattern is added after the table.                 *)
create_sync_state_table ==
    [needs |-> {}, adds |-> "sync_state", alters |-> {"key_pattern_unique"}, checks |-> TRUE]

migrations ==
    <<create_transfer_table, create_fx_quotes_table, create_fxtransfer_table,
      add_performance_indexes, add_transfer_partitioning, add_transfer_compression,
      add_transfer_id_index, create_sync_state_table>>

-----------------------------------------------------------------------------
Init ==
    /\ applied = {} /\ recorded = 0 /\ lock = "free" /\ idp = FALSE
    /\ pc = [p \in Pods |-> "down"] /\ run = [p \in Pods |-> "none"]
    /\ redis = 1 /\ row = 0
    /\ data = [p \in Pods |-> 0] /\ existing = [p \in Pods |-> 0]
    /\ crashes = 0
    /\ mixed = [p \in Pods |-> FALSE]
    /\ cut = FALSE

Goes(p, state) == pc' = [pc EXCEPT ![p] = state]

Start(p) ==
    /\ pc[p] = "down"
    /\ Goes(p, "booting")
    /\ UNCHANGED <<applied, recorded, lock, idp, crashes, cut, syncVars>>

(* migrate.latest takes the lock; another transaction that holds it is     *)
(* waited for.                                                             *)
TakesLock(p) ==
    /\ pc[p] = "booting" /\ lock = "free"
    /\ lock' = "taken"
    /\ Goes(p, "migrating")
    /\ UNCHANGED <<applied, recorded, idp, crashes, cut, syncVars>>

(* It throws if the lock was committed, and so does createMemoryCache.     *)
Locked(p) ==
    /\ pc[p] = "booting" /\ lock = "committed"
    /\ Goes(p, "down")
    /\ UNCHANGED <<applied, recorded, lock, idp, crashes, cut, syncVars>>

(* The next migration's up begins; its first statement fails when it has   *)
(* been applied before, unless the migration looks, and is then done.      *)
up(p) ==
    /\ pc[p] = "migrating" /\ recorded < Len(migrations)
    /\ LET m == migrations[recorded + 1]
       IN IF m.adds \in applied
            THEN IF m.checks
                   THEN Goes(p, "recording") /\ UNCHANGED <<applied, lock>>
                   ELSE Goes(p, "down") /\ lock' = "free" /\ UNCHANGED applied
            ELSE /\ m.needs \subseteq applied
                 /\ applied' = applied \cup {m.adds}
                 /\ lock' = "committed"
                 /\ Goes(p, IF m.alters = {} THEN "recording" ELSE "altering")
    /\ UNCHANGED <<recorded, idp, crashes, cut, syncVars>>

(* Its further statements. *)
Alters(p) ==
    /\ pc[p] = "altering"
    /\ applied' = applied \cup migrations[recorded + 1].alters
    /\ Goes(p, "recording")
    /\ UNCHANGED <<recorded, lock, idp, crashes, cut, syncVars>>

Records(p) ==
    /\ pc[p] = "recording"
    /\ recorded' = recorded + 1
    /\ Goes(p, "migrating")
    /\ UNCHANGED <<applied, lock, idp, crashes, cut, syncVars>>

(* The migrations are done: the first sync begins, which may copy the      *)
(* record or stop before it, and then setupApi.                            *)
createMemoryCache(p) ==
    /\ pc[p] = "migrating" /\ recorded = Len(migrations)
    /\ lock' = "free"
    /\ Goes(p, "discovering")
    /\ UNCHANGED <<applied, recorded, idp, crashes, cut, syncVars>>

(* Issuer.discover is repeated every second until it succeeds; then the    *)
(* server listens.                                                         *)
discover(p) ==
    /\ pc[p] = "discovering" /\ idp
    /\ Goes(p, "listening")
    /\ UNCHANGED <<applied, recorded, lock, idp, crashes, cut, syncVars>>

Migrating == {"migrating", "altering", "recording"}

(* The process is killed; a transaction of its migrations is rolled back.  *)
Crash(p) ==
    /\ pc[p] # "down" /\ crashes < MaxCrashes
    /\ crashes' = crashes + 1
    /\ Goes(p, "down")
    /\ lock' = IF pc[p] \in Migrating /\ lock = "taken" THEN "free" ELSE lock
    /\ cut' = (cut \/ (pc[p] = "altering" /\ recorded + 1 = Len(migrations)))
    /\ run' = [run EXCEPT ![p] = "none"]
    /\ data' = [data EXCEPT ![p] = 0] /\ existing' = [existing EXCEPT ![p] = 0]
    /\ mixed' = [mixed EXCEPT ![p] = FALSE]
    /\ UNCHANGED <<applied, recorded, idp, redis, row>>

(* An operator frees a lock that was left behind.                          *)
ReleaseLock ==
    /\ lock = "committed" /\ \A p \in Pods : pc[p] \notin Migrating
    /\ lock' = "free"
    /\ UNCHANGED <<applied, recorded, idp, pc, crashes, cut, syncVars>>

IdentityProvider ==
    /\ ~idp /\ idp' = TRUE
    /\ UNCHANGED <<applied, recorded, lock, pc, crashes, cut, syncVars>>

-----------------------------------------------------------------------------
(* cacheKey of one transfer.                                               *)

Ended(version) == version = MaxVersions

(* The connector changes the record. *)
RedisChanges ==
    /\ redis < MaxVersions /\ redis' = redis + 1
    /\ UNCHANGED <<bootVars, run, row, data, existing, mixed>>

(* Mutant: what has been read once is not read again.                      *)
Reads_Cached(p) == data' = [data EXCEPT ![p] = IF @ = 0 THEN redis ELSE @]

(* redisCache.get. *)
Reads(p) == data' = [data EXCEPT ![p] = redis]

CacheKey(p) ==
    /\ pc[p] \in {"discovering", "listening"} /\ run[p] = "none"
    /\ Reads(p)
    /\ run' = [run EXCEPT ![p] = "read"]
    /\ mixed' = [q \in Pods |->
                    IF q = p THEN \E o \in Pods \ {p} : run[o] # "none"
                             ELSE run[q] # "none"]
    /\ UNCHANGED <<bootVars, redis, row, existing>>

Selects(p) ==
    /\ run[p] = "read"
    /\ existing' = [existing EXCEPT ![p] = row]
    /\ run' = [run EXCEPT ![p] = "selected"]
    /\ UNCHANGED <<bootVars, redis, row, data, mixed>>

(* Mutant: a row is never updated.                                         *)
Written_InsertOnly(p) == IF existing[p] = 0 /\ row = 0 THEN data[p] ELSE row

(* A row that another instance has inserted since makes the INSERT fail;   *)
(* an UPDATE is made unless the status was null and is null.  It waits for *)
(* the transaction of another instance that holds the row.                 *)
Written(p) ==
    IF existing[p] = 0
      THEN IF row = 0 THEN data[p] ELSE row
      ELSE IF Ended(existing[p]) \/ Ended(data[p]) THEN data[p] ELSE row

Writes(p) ==
    /\ run[p] = "selected"
    /\ row' = Written(p)
    /\ run' = [run EXCEPT ![p] = "none"]
    /\ existing' = [existing EXCEPT ![p] = 0]
    /\ mixed' = [mixed EXCEPT ![p] = FALSE]
    /\ UNCHANGED <<bootVars, redis, data>>

-----------------------------------------------------------------------------
Boots(p) ==
    \/ Start(p) \/ TakesLock(p) \/ Locked(p) \/ up(p) \/ Alters(p) \/ Records(p)
    \/ createMemoryCache(p) \/ discover(p)

Syncs(p) == CacheKey(p) \/ Selects(p) \/ Writes(p)

Next ==
    \/ \E p \in Pods : Boots(p) \/ Crash(p) \/ Syncs(p)
    \/ ReleaseLock \/ IdentityProvider \/ RedisChanges

(* Kubernetes restarts what has ended, calls to MySQL and Redis return, an *)
(* operator frees a lock left behind, and the provider comes up at last.   *)
(* An instance that waits for the lock gets it, however often another one  *)
(* comes and goes.                                                         *)
Fairness ==
    /\ \A p \in Pods : WF_vars(Boots(p)) /\ SF_vars(TakesLock(p)) /\ WF_vars(Syncs(p))
    /\ SF_vars(ReleaseLock) /\ WF_vars(IdentityProvider)

Spec == Init /\ [][Next]_vars /\ Fairness

-----------------------------------------------------------------------------
(* Properties.                                                             *)

Objects ==
    {"transfer", "transfer_indexes", "fx_quote", "fx_quote_indexes", "fx_transfer",
     "fx_transfer_indexes", "redis_key_UNIQUE", "indexes", "partitions", "compression",
     "id_index", "sync_state", "key_pattern_unique"}

TypeOK ==
    /\ applied \subseteq Objects /\ recorded \in 0..8
    /\ lock \in {"free", "taken", "committed"} /\ idp \in BOOLEAN
    /\ pc \in [Pods -> {"down", "booting", "discovering", "listening"} \cup Migrating]
    /\ run \in [Pods -> {"none", "read", "selected"}]
    /\ redis \in 1..MaxVersions /\ row \in 0..MaxVersions
    /\ data \in [Pods -> 0..MaxVersions] /\ existing \in [Pods -> 0..MaxVersions]
    /\ crashes \in 0..MaxCrashes /\ mixed \in [Pods -> BOOLEAN]
    /\ cut \in BOOLEAN

(* "This MUST run BEFORE data sync starts" (add_transfer_partitioning.js,  *)
(* line 7): whichever instance ran the migrations, and whatever crashed in *)
(* between, no instance syncs before the schema is complete, but for one   *)
(* key.  When create_sync_state_table was cut off after its CREATE TABLE,  *)
(* the table is found the next time (line 27), the migration is recorded,  *)
(* and sync_state keeps no unique key for onConflict in saveSyncState.     *)
SchemaBeforeSync ==
    \A p \in Pods :
        run[p] # "none" \/ pc[p] \in {"discovering", "listening"} =>
            \/ applied = Objects
            \/ cut /\ applied = Objects \ {"key_pattern_unique"}

(* A crash between a statement of one of the first four migrations and its *)
(* record: these do not look whether they have been applied, so their      *)
(* first statement fails from now on and no instance boots any more.       *)
Broken ==
    /\ recorded < 4
    /\ <<"transfer", "fx_quote", "fx_transfer", "redis_key_UNIQUE">>[recorded + 1] \in applied

(* A crash in any other migration is recovered from: every instance comes  *)
(* up at last, whichever of them crashed where, unless the schema is       *)
(* broken for good.                                                        *)
ComesUp == \A p \in Pods : <>[](pc[p] = "listening" \/ Broken)

(* A row only goes back to an earlier version of its record if two syncs   *)
(* overlap (index.js:397).                                                 *)
RowOnlyAdvances ==
    [][row' < row => \E p \in Pods : run[p] = "selected" /\ mixed[p]]_vars

(* What overlapping syncs have done to the row of an ended transfer the    *)
(* next sync makes good.                                                   *)
RowSettles == <>[](redis = MaxVersions /\ ~Broken => row = MaxVersions)
=============================================================================
