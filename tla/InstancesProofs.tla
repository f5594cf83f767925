--------------------------- MODULE InstancesProofs ---------------------------
(***************************************************************************)
(* Proofs about Instances, for any set of instances and any number of      *)
(* crashes and versions.                                                   *)
(***************************************************************************)
EXTENDS Instances, TLAPS

USE InstancesAssumption

Serving == {"discovering", "listening"}

Key == "key_pattern_unique"

(* There are eight migrations, which leave no object out; those that look  *)
(* for what their first statement adds have no other, but for the last.    *)
LEMMA Order ==
  /\ Len(migrations) = 8
  /\ \A i \in 1..8 :
        migrations[i].adds \in Objects \ {Key} /\ migrations[i].alters \subseteq Objects
  /\ \A i \in 1..7 : migrations[i].checks => migrations[i].alters = {}
  /\ \A i \in 1..7 : migrations[i].adds # "sync_state" /\ "sync_state" \notin migrations[i].alters
  /\ migrations[8].adds = "sync_state" /\ migrations[8].alters = {Key}
  /\ \A o \in Objects \ {Key} :
        \/ \E i \in 1..8 : migrations[i].adds = o
        \/ \E i \in 1..7 : o \in migrations[i].alters
  <1> USE DEF migrations, create_transfer_table, create_fx_quotes_table, create_fxtransfer_table,
        add_performance_indexes, add_transfer_partitioning, add_transfer_compression,
        add_transfer_id_index, create_sync_state_table
  <1>1. Len(migrations) = 8
    OBVIOUS
  <1>2. /\ migrations[1].adds = "transfer" /\ migrations[2].adds = "fx_quote"
        /\ migrations[3].adds = "fx_transfer" /\ migrations[4].adds = "redis_key_UNIQUE"
        /\ migrations[5].adds = "partitions" /\ migrations[6].adds = "compression"
        /\ migrations[7].adds = "id_index" /\ migrations[8].adds = "sync_state"
    OBVIOUS
  <1>3. /\ migrations[1].alters = {"transfer_indexes"}
        /\ migrations[2].alters = {"fx_quote_indexes"}
        /\ migrations[3].alters = {"fx_transfer_indexes"}
        /\ migrations[4].alters = {"indexes"}
        /\ migrations[5].alters = {} /\ migrations[6].alters = {} /\ migrations[7].alters = {}
        /\ migrations[8].alters = {Key}
    BY DEF Key
  <1>4. /\ ~migrations[1].checks /\ ~migrations[2].checks
        /\ ~migrations[3].checks /\ ~migrations[4].checks
    OBVIOUS
  <1> HIDE DEF migrations
  <1>5. \A i \in 1..8 : i \in 1..7 \/ i = 8
    OBVIOUS
  <1>6. \A i \in 1..7 : i = 1 \/ i = 2 \/ i = 3 \/ i = 4 \/ i = 5 \/ i = 6 \/ i = 7
    OBVIOUS
  <1>7. \A i \in 1..8 : migrations[i].adds \in Objects \ {Key}
    BY <1>2, <1>5, <1>6 DEF Objects, Key
  <1>8. \A i \in 1..8 : migrations[i].alters \subseteq Objects
    BY <1>3, <1>5, <1>6 DEF Objects, Key
  <1>9. \A i \in 1..7 : migrations[i].checks => migrations[i].alters = {}
    BY <1>3, <1>4, <1>6
  <1>10. \A i \in 1..7 :
            migrations[i].adds # "sync_state" /\ "sync_state" \notin migrations[i].alters
    BY <1>2, <1>3, <1>6
  <1>11. \A o \in Objects \ {Key} :
            \/ \E i \in 1..8 : migrations[i].adds = o
            \/ \E i \in 1..7 : o \in migrations[i].alters
    BY <1>2, <1>3 DEF Objects, Key
  <1> QED
    BY <1>1, <1>2, <1>3, <1>7, <1>8, <1>9, <1>10, <1>11

-----------------------------------------------------------------------------
(* The types.                                                              *)

Flags == idp \in BOOLEAN /\ mixed \in [Pods -> BOOLEAN] /\ cut \in BOOLEAN

Types ==
    /\ applied \subseteq Objects /\ recorded \in 0..8
    /\ lock \in {"free", "taken", "committed"}
    /\ pc \in [Pods -> {"down", "booting"} \cup Migrating \cup Serving]
    /\ run \in [Pods -> {"none", "read", "selected"}]
    /\ redis \in 1..MaxVersions /\ row \in 0..MaxVersions
    /\ data \in [Pods -> 0..MaxVersions] /\ existing \in [Pods -> 0..MaxVersions]
    /\ crashes \in 0..MaxCrashes

(* One instance at a time migrates, and it holds the lock.                 *)
Exclusive ==
    /\ \A p, q \in Pods : pc[p] \in Migrating /\ pc[q] \in Migrating => p = q
    /\ \A p \in Pods : pc[p] \in Migrating => lock # "free"

(* What is recorded has been applied, and so has what is about to be: by   *)
(* all statements of a migration, but for the last one's second.           *)
RecordedApplied ==
    /\ \A i \in 1..recorded :
          migrations[i].adds \in applied /\ (i # 8 => migrations[i].alters \subseteq applied)
    /\ \A p \in Pods : pc[p] \in {"altering", "recording"} =>
          recorded < 8 /\ migrations[recorded + 1].adds \in applied
    /\ \A p \in Pods : pc[p] = "recording" /\ recorded # 7 =>
          migrations[recorded + 1].alters \subseteq applied

(* The key is missing only while the last migration is at it, or after it  *)
(* was cut off.                                                            *)
KeyFollows ==
    "sync_state" \in applied =>
        \/ Key \in applied
        \/ cut
        \/ recorded = 7 /\ \E p \in Pods : pc[p] = "altering"

(* An instance that serves or syncs has seen all migrations recorded.      *)
ServesMigrated ==
    /\ \A p \in Pods : pc[p] \in Serving => recorded = 8
    /\ \A p \in Pods : run[p] # "none" => pc[p] \in Serving

BootInv == Types /\ Exclusive /\ RecordedApplied /\ KeyFollows /\ ServesMigrated

LEMMA InitBoot == Init => BootInv /\ Flags
  <1>1. Init => Flags
    BY Zenon DEF Init, Flags
  <1>2. Init => BootInv
    BY DEF Init, BootInv, Types, Exclusive, RecordedApplied, KeyFollows, ServesMigrated, Migrating,
           Serving
  <1> QED
    BY <1>1, <1>2

LEMMA NextFlags == Flags /\ [Next]_vars => Flags'
  <1> SUFFICES ASSUME Flags, [Next]_vars PROVE Flags'
    OBVIOUS
  <1> USE DEF Flags
  <1>1. ASSUME NEW p \in Pods, Boots(p) PROVE Flags'
    BY <1>1 DEF Boots, Start, TakesLock, Locked, up, Alters, Records, createMemoryCache, discover,
                syncVars
  <1>2. ASSUME NEW p \in Pods, Crash(p) PROVE Flags'
    <2>1. cut' \in BOOLEAN
      BY <1>2, Zenon DEF Crash
    <2> QED
      BY <1>2, <2>1 DEF Crash
  <1>3. ASSUME NEW p \in Pods, CacheKey(p) PROVE Flags'
    <2>1. mixed' \in [Pods -> BOOLEAN]
      BY <1>3, Zenon DEF CacheKey
    <2> QED
      BY <1>3, <2>1 DEF CacheKey, bootVars
  <1>4. ASSUME NEW p \in Pods, Selects(p) \/ Writes(p) PROVE Flags'
    BY <1>4 DEF Selects, Writes, bootVars
  <1>5. CASE ReleaseLock \/ IdentityProvider \/ RedisChanges
    BY <1>5 DEF ReleaseLock, IdentityProvider, RedisChanges, syncVars, bootVars
  <1>6. CASE UNCHANGED vars
    BY <1>6 DEF vars, bootVars, syncVars
  <1> QED
    BY <1>1, <1>2, <1>3, <1>4, <1>5, <1>6 DEF Next, Syncs

(* The value a sync leaves in the row is a version.                        *)
LEMMA WrittenType == ASSUME Types, NEW p \in Pods PROVE Written(p) \in 0..MaxVersions
  BY DEF Types, Written

LEMMA NextBoot == BootInv /\ [Next]_vars => BootInv'
  <1> SUFFICES ASSUME BootInv, [Next]_vars PROVE BootInv'
    OBVIOUS
  <1> USE Order DEF BootInv, Types, Exclusive, RecordedApplied, KeyFollows, ServesMigrated,
                    Migrating, Serving
  <1>1. ASSUME NEW p \in Pods, Start(p) PROVE BootInv'
    BY <1>1 DEF Start, Goes, syncVars
  <1>2. ASSUME NEW p \in Pods, TakesLock(p) PROVE BootInv'
    BY <1>2 DEF TakesLock, Goes, syncVars
  <1>3. ASSUME NEW p \in Pods, Locked(p) PROVE BootInv'
    BY <1>3 DEF Locked, Goes, syncVars
  <1>4. ASSUME NEW p \in Pods, up(p) PROVE BootInv'
    <2>1. /\ pc[p] = "migrating" /\ recorded < 8 /\ recorded + 1 \in 1..8
          /\ UNCHANGED <<recorded, idp, crashes, cut, run, redis, row, data, existing>>
      BY <1>4 DEF up, syncVars
    <2>m. \A q \in Pods : pc[q] # "altering" /\ pc[q] # "recording"
      BY <2>1
    <2>2. CASE /\ migrations[recorded + 1].adds \in applied /\ migrations[recorded + 1].checks
               /\ Goes(p, "recording") /\ UNCHANGED <<applied, lock>>
      <3>1. recorded # 7 => migrations[recorded + 1].alters = {}
        BY <2>1, <2>2
      <3>2. "sync_state" \in applied => Key \in applied \/ cut
        BY <2>m
      <3> QED
        BY <2>1, <2>2, <2>m, <3>1, <3>2 DEF Goes
    <2>3. CASE Goes(p, "down") /\ lock' = "free" /\ UNCHANGED applied
      BY <2>1, <2>3, <2>m DEF Goes
    <2>4. CASE /\ applied' = applied \cup {migrations[recorded + 1].adds}
               /\ lock' = "committed"
               /\ Goes(p, IF migrations[recorded + 1].alters = {} THEN "recording" ELSE "altering")
      <3> DEFINE next == IF migrations[recorded + 1].alters = {} THEN "recording" ELSE "altering"
      <3>1. next \in {"recording", "altering"}
        OBVIOUS
      <3>2. next = "recording" => recorded # 7 /\ migrations[recorded + 1].alters = {}
        OBVIOUS
      <3>3. pc' = [pc EXCEPT ![p] = next]
        BY <2>4 DEF Goes
      <3> HIDE DEF next
      <3>4. Types' /\ Exclusive' /\ ServesMigrated'
        BY <2>1, <2>4, <3>1, <3>3
      <3>5. RecordedApplied'
        BY <2>1, <2>4, <2>m, <3>1, <3>2, <3>3
      <3>6. KeyFollows'
        <4>1. CASE recorded = 7
          BY <4>1, <2>1, <3>1, <3>2, <3>3
        <4>2. CASE recorded # 7
          <5>1. migrations[recorded + 1].adds # "sync_state"
            BY <4>2, <2>1
          <5> QED
            BY <4>2, <5>1, <2>1, <2>4, <2>m
        <4> QED
          BY <4>1, <4>2
      <3> QED
        BY <3>4, <3>5, <3>6
    <2> QED
      BY <1>4, <2>2, <2>3, <2>4 DEF up
  <1>5. ASSUME NEW p \in Pods, Records(p) PROVE BootInv'
    BY <1>5 DEF Records, Goes, syncVars
  <1>6. ASSUME NEW p \in Pods, createMemoryCache(p) PROVE BootInv'
    BY <1>6 DEF createMemoryCache, Goes, syncVars
  <1>7. ASSUME NEW p \in Pods, discover(p) PROVE BootInv'
    BY <1>7 DEF discover, Goes, syncVars
  <1>8. ASSUME NEW p \in Pods, Crash(p) PROVE BootInv'
    <2>1. /\ pc' = [pc EXCEPT ![p] = "down"] /\ UNCHANGED <<applied, recorded, redis, row>>
          /\ run' = [run EXCEPT ![p] = "none"] /\ lock' \in {lock, "free"}
          /\ lock' = "free" => lock = "free" \/ pc[p] \in Migrating
          /\ data' = [data EXCEPT ![p] = 0] /\ existing' = [existing EXCEPT ![p] = 0]
          /\ crashes' = crashes + 1 /\ crashes < MaxCrashes
      BY <1>8 DEF Crash, Goes
    <2>2. /\ cut => cut'
          /\ pc[p] = "altering" /\ recorded + 1 = Len(migrations) => cut'
      BY <1>8, Zenon DEF Crash
    <2>3. Types'
      BY <2>1
    <2>4. Exclusive' /\ RecordedApplied' /\ ServesMigrated'
      BY <2>1
    <2>5. KeyFollows'
      BY <2>1, <2>2
    <2> QED
      BY <2>3, <2>4, <2>5
  <1>9. ASSUME NEW p \in Pods, CacheKey(p) PROVE BootInv'
    BY <1>9 DEF CacheKey, Reads, bootVars
  <1>10. ASSUME NEW p \in Pods, Selects(p) PROVE BootInv'
    BY <1>10 DEF Selects, bootVars
  <1>11. ASSUME NEW p \in Pods, Writes(p) PROVE BootInv'
    BY <1>11, WrittenType DEF Writes, bootVars
  <1>12. CASE ReleaseLock
    BY <1>12 DEF ReleaseLock, syncVars
  <1>13. CASE IdentityProvider \/ RedisChanges
    BY <1>13 DEF IdentityProvider, RedisChanges, syncVars, bootVars
  <1>14. CASE UNCHANGED vars
    BY <1>14 DEF vars, bootVars, syncVars
  <1>15. ASSUME NEW p \in Pods, Alters(p) PROVE BootInv'
    <2>1. /\ pc[p] = "altering" /\ recorded < 8 /\ recorded + 1 \in 1..8
          /\ applied' = applied \cup migrations[recorded + 1].alters
          /\ pc' = [pc EXCEPT ![p] = "recording"]
          /\ UNCHANGED <<recorded, lock, idp, crashes, cut, run, redis, row, data, existing>>
      BY <1>15 DEF Alters, Goes, syncVars
    <2>m. \A q \in Pods \ {p} : pc[q] # "altering" /\ pc[q] # "recording"
      BY <2>1
    <2>2. Types' /\ Exclusive' /\ ServesMigrated'
      BY <2>1
    <2>3. RecordedApplied'
      BY <2>1, <2>m
    <2>4. KeyFollows'
      <3>1. CASE recorded = 7
        BY <3>1, <2>1
      <3>2. CASE recorded # 7
        <4>1. "sync_state" \notin migrations[recorded + 1].alters
          BY <3>2, <2>1
        <4> QED
          BY <3>2, <4>1, <2>1
      <3> QED
        BY <3>1, <3>2
    <2> QED
      BY <2>2, <2>3, <2>4
  <1> QED
    BY <1>1, <1>2, <1>3, <1>4, <1>5, <1>6, <1>7, <1>8, <1>9, <1>10, <1>11, <1>12, <1>13, <1>14,
       <1>15 DEF Next, Boots, Syncs

(* Every reachable state is well typed, however many instances there are.  *)
THEOREM TypeCorrect == Spec => []TypeOK
  <1>1. BootInv /\ Flags => TypeOK
    BY DEF BootInv, Types, Flags, TypeOK, Migrating, Serving
  <1> QED
    BY <1>1, InitBoot, NextBoot, NextFlags, PTL DEF Spec

(* No instance syncs before every migration has been applied in full,      *)
(* whichever instance applied it and whatever crashed in between, but for  *)
(* the key of sync_state after a crash between the two statements of its   *)
(* migration.                                                              *)
THEOREM SyncsCompleteSchema == Spec => []SchemaBeforeSync
  <1>1. BootInv => SchemaBeforeSync
    <2> SUFFICES ASSUME BootInv, NEW p \in Pods, run[p] # "none" \/ pc[p] \in Serving
                 PROVE  applied = Objects \/ (cut /\ applied = Objects \ {Key})
      BY DEF SchemaBeforeSync, Serving, Key
    <2>1. recorded = 8
      BY DEF BootInv, ServesMigrated
    <2>2. \A o \in Objects \ {Key} : o \in applied
      BY <2>1, Order DEF BootInv, RecordedApplied
    <2>3. Key \in applied \/ cut
      BY <2>1, <2>2 DEF BootInv, KeyFollows, Objects, Key
    <2> QED
      BY <2>2, <2>3 DEF BootInv, Types
  <1> QED
    BY <1>1, InitBoot, NextBoot, PTL DEF Spec

-----------------------------------------------------------------------------
(* Overlapping syncs.                                                      *)

(* A sync that no other has overlapped with is alone, and has read what    *)
(* the row shows or a later version.                                       *)
Alone(p) ==
    run[p] # "none" /\ ~mixed[p] =>
        /\ \A o \in Pods \ {p} : run[o] = "none"
        /\ row <= data[p]

OverlapInv == row <= redis /\ \A p \in Pods : Alone(p) /\ data[p] <= redis

LEMMA InitOverlap == Init => OverlapInv
  BY DEF Init, OverlapInv, Alone

(* A write leaves the row alone or puts the version read into it.          *)
LEMMA WrittenCases == ASSUME NEW p \in Pods PROVE Written(p) = row \/ Written(p) = data[p]
  BY DEF Written

LEMMA NextOverlap == BootInv /\ OverlapInv /\ [Next]_vars => OverlapInv'
  <1> SUFFICES ASSUME BootInv, OverlapInv, [Next]_vars PROVE OverlapInv'
    OBVIOUS
  <1> USE DEF OverlapInv, Alone
  <1>t. /\ redis \in Nat /\ row \in Nat /\ data \in [Pods -> Nat]
        /\ run \in [Pods -> {"none", "read", "selected"}]
    BY DEF BootInv, Types
  <1>1. ASSUME NEW p \in Pods, Boots(p) PROVE OverlapInv'
    BY <1>1 DEF Boots, Start, TakesLock, Locked, up, Alters, Records, createMemoryCache, discover,
                syncVars
  <1>2. ASSUME NEW p \in Pods, Crash(p) PROVE OverlapInv'
    BY <1>2, <1>t DEF Crash
  <1>3. ASSUME NEW p \in Pods, CacheKey(p) PROVE OverlapInv'
    <2>1. ~mixed'[p] => \A o \in Pods \ {p} : run[o] = "none"
      BY <1>3, Zenon DEF CacheKey
    <2>2. \A q \in Pods \ {p} : ~mixed'[q] => run[q] = "none"
      BY <1>3, Zenon DEF CacheKey
    <2>3. /\ \A q \in Pods \ {p} : run'[q] = run[q] /\ data'[q] = data[q]
          /\ data'[p] = redis /\ UNCHANGED <<redis, row>>
      BY <1>3, <1>t DEF CacheKey, Reads
    <2> QED
      BY <2>1, <2>2, <2>3, <1>t
  <1>4. ASSUME NEW p \in Pods, Selects(p) PROVE OverlapInv'
    BY <1>4, <1>t DEF Selects
  <1>5. ASSUME NEW p \in Pods, Writes(p) PROVE OverlapInv'
    BY <1>5, <1>t, WrittenCases DEF Writes
  <1>6. CASE ReleaseLock \/ IdentityProvider \/ RedisChanges
    BY <1>6, <1>t DEF ReleaseLock, IdentityProvider, RedisChanges, syncVars
  <1>7. CASE UNCHANGED vars
    BY <1>7 DEF vars, syncVars
  <1> QED
    BY <1>1, <1>2, <1>3, <1>4, <1>5, <1>6, <1>7 DEF Next, Syncs

Advances == row' < row => \E p \in Pods : run[p] = "selected" /\ mixed[p]

(* A row goes back only if two syncs overlap, whoever runs them.           *)
THEOREM RowAdvances == Spec => RowOnlyAdvances
  <1>1. BootInv /\ OverlapInv /\ [Next]_vars => [Advances]_vars
    <2> SUFFICES ASSUME BootInv, OverlapInv, [Next]_vars, row' < row
                 PROVE  \E p \in Pods : run[p] = "selected" /\ mixed[p]
      BY DEF Advances
    <2>1. row \in Nat /\ ~(row < row) /\ \A p \in Pods : data[p] \in Nat
      BY DEF BootInv, Types
    <2>2. PICK p \in Pods : Writes(p)
      BY <2>1 DEF Next, Boots, Start, TakesLock, Locked, up, Alters, Records, createMemoryCache,
         discover, Crash, Syncs, CacheKey, Selects, ReleaseLock, IdentityProvider, RedisChanges,
         vars, syncVars
    <2>3. run[p] = "selected" /\ row' = Written(p)
      BY <2>2 DEF Writes
    <2>4. ~(row <= data[p])
      BY <2>1, <2>3, WrittenCases
    <2> QED
      BY <2>3, <2>4 DEF OverlapInv, Alone
  <1>2. RowOnlyAdvances <=> [][Advances]_vars
    BY DEF RowOnlyAdvances, Advances
  <1> QED
    BY <1>1, <1>2, InitBoot, NextBoot, InitOverlap, NextOverlap, PTL DEF Spec
=============================================================================
