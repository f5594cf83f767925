------------------------------- MODULE Mirror -------------------------------
(***************************************************************************)
(* What the cache database promises its readers (Transfer, FxpConversion): *)
(* the MySQL tables are a copy of the Redis records that only moves        *)
(* forward, is never ahead of Redis, and catches up with every record that *)
(* has reached its final state.  How the copy is made (SCAN cursors,       *)
(* batches, transactions, checkpoints) is CacheSync's business.            *)
(***************************************************************************)
EXTENDS Naturals

CONSTANTS
    Keys,       \* the Redis keys the connector writes
    Usable,     \* those whose record cacheKey can turn into a row
    MaxVersion, \* a record is written at most MaxVersion times (bound)
    FinalFrom   \* a record is final from its FinalFrom-th write on

VARIABLES
    redis,  \* redis[k]: how many times record k has been written, 0 = absent
    row     \* row[k]: the write of k its MySQL row shows, 0 = no row

vars == <<redis, row>>

Versions == 0..MaxVersion

Init ==
    /\ redis \in [Keys -> Versions]
    /\ row = [k \in Keys |-> 0]

(* The connector writes a record. *)
Update(k) ==
    /\ redis[k] < MaxVersion
    /\ redis' = [redis EXCEPT ![k] = @ + 1]
    /\ UNCHANGED row

(* A batch becomes visible: any set of rows moves forward, none past Redis. *)
Copy ==
    /\ row' \in [Keys -> Versions]
    /\ \A k \in Keys : row[k] <= row'[k] /\ row'[k] <= redis[k]
    /\ \A k \in Keys \ Usable : row'[k] = row[k]
    /\ UNCHANGED redis

Next == Copy \/ \E k \in Keys : Update(k)

Spec == Init /\ [][Next]_vars
=============================================================================
