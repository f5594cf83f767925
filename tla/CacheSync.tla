------------------------------ MODULE CacheSync ------------------------------
(***************************************************************************)
(* syncDB (src/lib/cacheDatabase/index.js): the run that copies the Redis  *)
(* records into MySQL, page by page of a SCAN, with a checkpoint per key   *)
(* pattern in sync_state, and the process that starts it, crashes and is   *)
(* restarted.  One run at a time: overlapping runs are SyncScheduler's.    *)
(*                                                                         *)
(* A record is abstracted to its version: how often the connector wrote    *)
(* it.  A version before FinalFrom has a pending status (success = null in *)
(* the row), a later one a final status.                                   *)
(***************************************************************************)
EXTENDS Naturals, FiniteSets

CONSTANTS
    Keys,           \* Redis keys
    None,           \* no key
    PatternOf,      \* PatternOf[k]: index in redisKeys of the pattern k matches
    Page,           \* Page[k]: the SCAN cursor whose call returns k
    NumPages,       \* a full SCAN takes NumPages calls (bound)
    Unusable,       \* keys whose record does not parse or has no direction
    MaxVersion,     \* a record is written at most MaxVersion times (bound)
    FinalFrom,      \* first version with a final status
    MAX_INITIAL_SYNC_KEYS,
    PoolMax,        \* connections of the knex pool
    MaxFaults       \* failures, timeouts and crashes of a behaviour (bound)

Patterns == 1..2    \* indices of redisKeys, in the order of the for loop

ASSUME SyncAssumption ==
    /\ IsFiniteSet(Keys)
    /\ None \notin Keys
    /\ NumPages \in Nat \ {0}
    /\ PatternOf \in [Keys -> Patterns]
    /\ Page \in [Keys -> 0..NumPages - 1]
    /\ Unusable \subseteq Keys
    /\ MaxVersion \in Nat
    /\ FinalFrom \in Nat \ {0}
    /\ MAX_INITIAL_SYNC_KEYS \in Nat \ {0}
    /\ PoolMax \in Nat \ {0}
    /\ MaxFaults \in Nat

VARIABLES
    redis,          \* redis[k]: version in Redis, 0 = absent
    faults,         \* faults so far (bound)
    row,            \* row[k]: version the committed row shows, 0 = no row
    sync_state,     \* sync_state[p]: the checkpoint row of pattern p
    late,           \* checkpoint writes given up on that MySQL may still apply
    history,        \* ghost: the SCAN cycle each checkpoint comes from
    leaked,         \* pool connections held by transactions nobody will end
    pc,             \* where the run stands; "down": the process is dead
    isInitialSync,
    pat,            \* pattern being processed
    totalProcessed, \* keys processed by this run
    cursor, nextCursor, patternTotalProcessed,
    keys,           \* keys of the current batch
    todo,           \* those the loop of processBatch has still to finish
    current,        \* the key cacheKey is working on, or None
    version,        \* the version cacheKey read for it
    buf,            \* the rows as the open transaction sees them
    isTimedOut,
    cycle           \* ghost: the SCAN cycle the run goes on with

outside == <<redis, faults>>
tables  == <<row, sync_state, late, history>>
scan    == <<cursor, nextCursor, patternTotalProcessed>>
batch   == <<keys, todo, current, version, buf, isTimedOut>>
vars    == <<redis, faults, row, sync_state, late, history, leaked, pc, isInitialSync,
             pat, totalProcessed, cursor, nextCursor, patternTotalProcessed,
             keys, todo, current, version, buf, isTimedOut, cycle>>

Versions   == 0..MaxVersion
Cursors    == 0..NumPages - 1
Usable     == Keys \ Unusable
Final(v)   == v >= FinalFrom
KeysOf(p)  == {k \in Keys : PatternOf[k] = p}
Checkpoint == [last_cursor : Cursors, total_processed : Nat]
NoRows     == [k \in Keys |-> 0]

(* A cycle: the versions of the pattern's keys in Redis when its first     *)
(* page was scanned, and the keys whose processing has failed in it.       *)
Cycle   == [seen : [Keys -> Versions], excused : SUBSET Keys]
NoCycle == [seen |-> NoRows, excused |-> {}]

-----------------------------------------------------------------------------

Init ==
    /\ redis \in [Keys -> Versions]
    /\ faults = 0
    /\ row = NoRows
    /\ sync_state = [p \in Patterns |-> [last_cursor |-> 0, total_processed |-> 0]]
    /\ late = {} /\ history = [p \in Patterns |-> NoCycle]
    /\ leaked = 0
    /\ pc = "load" /\ isInitialSync = TRUE /\ pat = 1 /\ totalProcessed = 0
    /\ cursor = 0 /\ nextCursor = 0 /\ patternTotalProcessed = 0
    /\ keys = {} /\ todo = {} /\ current = None /\ version = 0
    /\ buf = NoRows /\ isTimedOut = FALSE
    /\ cycle = NoCycle

Fault == faults < MaxFaults /\ faults' = faults + 1

(* Locals of the for body and of processBatch go out of scope. *)
DropLocals ==
    /\ cursor' = 0 /\ nextCursor' = 0 /\ patternTotalProcessed' = 0
    /\ keys' = {} /\ todo' = {} /\ current' = None /\ version' = 0
    /\ buf' = NoRows /\ isTimedOut' = FALSE
    /\ cycle' = NoCycle

(* Mutant: the loop over the patterns goes one too far. *)
LeavePattern_OneTooFar ==
    /\ DropLocals
    /\ \/ pat <= 2 /\ pat' = pat + 1 /\ pc' = "load"
       \/ pat = 3 /\ pat' = 3 /\ pc' = "idle"
    /\ UNCHANGED <<isInitialSync, totalProcessed>>

(* break, an exception out of the while loop, or the end of a cycle. *)
LeavePattern ==
    /\ DropLocals
    /\ \/ pat = 1 /\ pat' = 2 /\ pc' = "load"
       \/ pat = 2 /\ pat' = 2 /\ pc' = "idle"
    /\ UNCHANGED <<isInitialSync, totalProcessed>>

StartRun(initial) ==
    /\ pc' = "load"
    /\ isInitialSync' = initial
    /\ pat' = 1
    /\ totalProcessed' = 0
    /\ UNCHANGED <<redis, faults, tables, leaked, scan, batch, cycle>>

-----------------------------------------------------------------------------
(* The connector writes a record; the timer starts a background run.       *)

RedisUpdate(k) ==
    /\ redis[k] < MaxVersion
    /\ redis' = [redis EXCEPT ![k] = @ + 1]
    /\ UNCHANGED <<faults, tables, leaked, pc, isInitialSync, pat,
                   totalProcessed, scan, batch, cycle>>

StartSync == pc = "idle" /\ StartRun(FALSE)

-----------------------------------------------------------------------------
(* loadSyncState.  It needs a connection, and so does everything after it; *)
(* a run leaves the pattern when it leaks one, so only this step can find  *)
(* the pool empty.                                                         *)

Load ==
    /\ pc = "load"
    /\ leaked < PoolMax
    /\ cursor' = sync_state[pat].last_cursor
    /\ patternTotalProcessed' = sync_state[pat].total_processed
    /\ cycle' = history[pat]
    /\ pc' = "scan"
    /\ UNCHANGED <<outside, tables, leaked, isInitialSync, pat, totalProcessed,
                   nextCursor, batch>>

LoadFails ==
    /\ pc = "load"
    /\ \/ leaked = PoolMax /\ UNCHANGED faults
       \/ Fault
    /\ LeavePattern
    /\ UNCHANGED <<redis, tables, leaked>>

-----------------------------------------------------------------------------
(* redisCache.scan: one page, and the cursor of the next; '0' after the    *)
(* last.  A key that is in Redis throughout a cycle is on the page its     *)
(* slot belongs to.                                                        *)

PageKeys == {k \in KeysOf(pat) : Page[k] = cursor /\ redis[k] > 0}

NextCursor == IF cursor = NumPages - 1 THEN 0 ELSE cursor + 1

NewCycle ==
    [seen |-> [k \in Keys |-> IF k \in KeysOf(pat) THEN redis[k] ELSE 0], excused |-> {}]

(* Mutant: a page without keys is taken for the end of the cycle. *)
Scan_EmptyPageEnds ==
    /\ pc = "scan"
    /\ nextCursor' = IF PageKeys = {} THEN 0 ELSE NextCursor
    /\ keys' = PageKeys
    /\ \/ PageKeys # {} /\ pc' = "begin"
       \/ PageKeys = {} /\ pc' = "check"
    /\ cycle' = IF cursor = 0 THEN NewCycle ELSE cycle
    /\ UNCHANGED <<outside, tables, leaked, isInitialSync, pat, totalProcessed,
                   cursor, patternTotalProcessed, todo, current, version, buf,
                   isTimedOut>>

Scan ==
    /\ pc = "scan"
    /\ nextCursor' = NextCursor
    /\ keys' = PageKeys
    /\ \/ PageKeys # {} /\ pc' = "begin"
       \/ PageKeys = {} /\ pc' = "check"
    /\ cycle' = IF cursor = 0 THEN NewCycle ELSE cycle
    /\ UNCHANGED <<outside, tables, leaked, isInitialSync, pat, totalProcessed,
                   cursor, patternTotalProcessed, todo, current, version, buf,
                   isTimedOut>>

ScanFails ==
    /\ pc = "scan"
    /\ Fault
    /\ LeavePattern
    /\ UNCHANGED <<redis, tables, leaked>>

-----------------------------------------------------------------------------
(* processBatch                                                            *)

Begin ==
    /\ pc = "begin"
    /\ todo' = keys
    /\ buf' = row
    /\ pc' = "keys"
    /\ UNCHANGED <<outside, tables, leaked, isInitialSync, pat, totalProcessed,
                   scan, keys, current, version, isTimedOut, cycle>>

(* The timer fires while db.transaction() is pending: there is no trx to   *)
(* roll back yet, and when it arrives the loop throws into a catch that    *)
(* does not roll back because isTimedOut is set.                           *)
BeginTimesOut ==
    /\ pc = "begin"
    /\ Fault
    /\ leaked' = leaked + 1
    /\ LeavePattern
    /\ UNCHANGED <<redis, tables>>

BeginFails ==
    /\ pc = "begin"
    /\ Fault
    /\ LeavePattern
    /\ UNCHANGED <<redis, tables, leaked>>

(* cacheKey, first await: the record is read from Redis. *)
ReadKey(k) ==
    /\ pc = "keys"
    /\ ~isTimedOut
    /\ current = None
    /\ k \in todo
    /\ current' = k
    /\ version' = redis[k]
    /\ UNCHANGED <<outside, tables, leaked, pc, isInitialSync, pat,
                   totalProcessed, scan, keys, todo, buf, isTimedOut, cycle>>

(* Mutant: a row that exists is never updated. *)
NeedsWrite_InsertOnly(old, new) == old = 0

(* `existing.success !== row.success`: null against null is no change, but *)
(* MySQL returns 1 or 0 where the row has true or false, so a final status *)
(* always differs.                                                         *)
NeedsWrite(old, new) == old = 0 \/ Final(old) \/ Final(new)

Stored ==
    IF current \in Usable /\ NeedsWrite(buf[current], version)
    THEN [buf EXCEPT ![current] = version]
    ELSE buf

KeyDone ==
    /\ pc = "keys"
    /\ ~isTimedOut
    /\ current # None
    /\ todo' = todo \ {current}
    /\ current' = None
    /\ version' = 0
    /\ UNCHANGED <<redis, tables, leaked, pc, isInitialSync, pat,
                   totalProcessed, scan, keys, isTimedOut>>

StoreKey ==
    /\ KeyDone
    /\ buf' = Stored
    /\ UNCHANGED <<faults, cycle>>

(* redisCache.get, SELECT or the write fails or times out: the error stays *)
(* in cacheKey or in the loop, the write may have happened all the same.   *)
StoreFails ==
    /\ KeyDone
    /\ Fault
    /\ buf' \in {buf, Stored}
    /\ cycle' = [cycle EXCEPT !.excused = @ \union {current}]

(* The timer fires with the transaction open and rolls it back ... *)
BatchTimesOut ==
    /\ pc = "keys"
    /\ ~isTimedOut
    /\ Fault
    /\ isTimedOut' = TRUE
    /\ buf' = row
    /\ UNCHANGED <<redis, tables, leaked, pc, isInitialSync, pat,
                   totalProcessed, scan, keys, todo, current, version, cycle>>

(* Mutant: the timeout of a batch is not noticed. *)
BatchThrows_Ignored ==
    /\ pc = "keys"
    /\ isTimedOut
    /\ pc' = "save"
    /\ isTimedOut' = FALSE /\ todo' = {} /\ current' = None /\ version' = 0
    /\ UNCHANGED <<outside, tables, leaked, isInitialSync, pat, totalProcessed,
                   scan, keys, buf, cycle>>

(* ... and the loop, or the check before commit, throws. *)
BatchThrows ==
    /\ pc = "keys"
    /\ isTimedOut
    /\ LeavePattern
    /\ UNCHANGED <<outside, tables, leaked>>

Commit ==
    /\ pc = "keys"
    /\ todo = {}
    /\ ~isTimedOut
    /\ row' = buf
    /\ patternTotalProcessed' = patternTotalProcessed + Cardinality(keys)
    /\ totalProcessed' = totalProcessed + Cardinality(keys)
    /\ pc' = "save"
    /\ buf' = NoRows
    /\ UNCHANGED <<outside, sync_state, late, history, leaked, isInitialSync, pat, cursor,
                   nextCursor, keys, todo, current, version, isTimedOut, cycle>>

(* The outcome of a COMMIT that reports an error is unknown. *)
CommitFails ==
    /\ pc = "keys"
    /\ todo = {}
    /\ ~isTimedOut
    /\ Fault
    /\ row' \in {row, buf}
    /\ LeavePattern
    /\ UNCHANGED <<redis, sync_state, late, history, leaked>>

-----------------------------------------------------------------------------
(* saveSyncState after a batch, and after the last page.                   *)

(* A checkpoint at the start of a cycle comes from none. *)
CycleOf(cp) == IF cp.last_cursor = 0 THEN NoCycle ELSE cycle

Saves(cp) ==
    /\ sync_state' = [sync_state EXCEPT ![pat] = cp]
    /\ history' = [history EXCEPT ![pat] = CycleOf(cp)]

AfterBatch == [last_cursor |-> nextCursor, total_processed |-> patternTotalProcessed]

AfterCycle == [last_cursor |-> 0, total_processed |-> 0]

Save ==
    /\ pc = "save"
    /\ Saves(AfterBatch)
    /\ pc' = "check"
    /\ UNCHANGED <<outside, row, late, leaked, isInitialSync, pat,
                   totalProcessed, scan, batch, cycle>>

(* A save fails, or is given up on and applied all the same: at once, or   *)
(* when the run has long gone on, since withTimeout does not cancel it.    *)
SaveGoesWrong(cp) ==
    /\ Fault
    /\ \/ UNCHANGED <<sync_state, history, late>>
       \/ Saves(cp) /\ UNCHANGED late
       \/ /\ late' = late \union {[pattern |-> pat, checkpoint |-> cp, of |-> CycleOf(cp)]}
          /\ UNCHANGED <<sync_state, history>>
    /\ LeavePattern
    /\ UNCHANGED <<redis, row, leaked>>

SaveFails == pc = "save" /\ SaveGoesWrong(AfterBatch)

LateSaveLands(s) ==
    /\ sync_state' = [sync_state EXCEPT ![s.pattern] = s.checkpoint]
    /\ history' = [history EXCEPT ![s.pattern] = s.of]
    /\ late' = late \ {s}
    /\ UNCHANGED <<outside, row, leaked, pc, isInitialSync, pat,
                   totalProcessed, scan, batch, cycle>>

(* cycleComplete: the loop ends whether or not the reset is saved. *)
Reset ==
    /\ pc = "check"
    /\ nextCursor = 0
    /\ Saves(AfterCycle)
    /\ LeavePattern
    /\ UNCHANGED <<outside, row, late, leaked>>

ResetFails == pc = "check" /\ nextCursor = 0 /\ SaveGoesWrong(AfterCycle)

(* Mutant: the limit may be exceeded by a batch. *)
InitialLimit_OffByOne == isInitialSync /\ patternTotalProcessed > MAX_INITIAL_SYNC_KEYS

InitialLimit == isInitialSync /\ patternTotalProcessed >= MAX_INITIAL_SYNC_KEYS

NextPage ==
    /\ pc = "check"
    /\ nextCursor # 0
    /\ ~InitialLimit
    /\ cursor' = nextCursor
    /\ pc' = "scan"
    /\ keys' = {}
    /\ UNCHANGED <<outside, tables, leaked, isInitialSync, pat, totalProcessed,
                   nextCursor, patternTotalProcessed, todo, current, version,
                   buf, isTimedOut, cycle>>

StopAtLimit ==
    /\ pc = "check"
    /\ nextCursor # 0
    /\ InitialLimit
    /\ LeavePattern
    /\ UNCHANGED <<outside, tables, leaked>>

-----------------------------------------------------------------------------
(* The process dies: MySQL rolls its transactions back and frees its       *)
(* connections.  It comes back with an initial run.                        *)

Crash ==
    /\ pc # "down"
    /\ Fault
    /\ pc' = "down"
    /\ leaked' = 0
    /\ DropLocals
    /\ isInitialSync' = TRUE /\ pat' = 1 /\ totalProcessed' = 0
    /\ UNCHANGED <<redis, tables>>

(* Mutant: the migrations at boot recreate the tables. *)
Restart_Recreates ==
    /\ pc = "down"
    /\ row' = NoRows
    /\ pc' = "load"
    /\ UNCHANGED <<outside, sync_state, late, history, leaked, isInitialSync, pat,
                   totalProcessed, scan, batch, cycle>>

Restart == pc = "down" /\ StartRun(TRUE)

-----------------------------------------------------------------------------

ProcessBatch ==
    \/ Begin \/ StoreKey \/ BatchThrows \/ Commit
    \/ \E k \in Keys : ReadKey(k)

(* What the program does by itself, once nothing goes wrong any more. *)
Progress ==
    \/ StartSync \/ Restart
    \/ Load \/ Scan \/ ProcessBatch
    \/ Save \/ Reset \/ NextPage \/ StopAtLimit
    \/ leaked = PoolMax /\ LoadFails

GoesWrong ==
    \/ LoadFails \/ ScanFails
    \/ BeginTimesOut \/ BeginFails \/ StoreFails \/ BatchTimesOut \/ CommitFails
    \/ SaveFails \/ ResetFails
    \/ Crash

Next ==
    \/ Progress
    \/ GoesWrong
    \/ \E k \in Keys : RedisUpdate(k)
    \/ \E s \in late : LateSaveLands(s)

Spec == Init /\ [][Next]_vars

(* setInterval keeps starting runs, Kubernetes restarts the pod, and the   *)
(* timeouts make every await settle.                                       *)
FairSpec == Spec /\ WF_vars(Progress)

-----------------------------------------------------------------------------
Flags == isInitialSync \in BOOLEAN /\ isTimedOut \in BOOLEAN

(* Type correctness: the state of the run, of its tables and of the pool.  *)
TypeOK ==
    /\ Flags
    /\ redis \in [Keys -> Versions]
    /\ faults \in 0..MaxFaults
    /\ row \in [Keys -> Versions]
    /\ sync_state \in [Patterns -> Checkpoint]
    /\ late \subseteq [pattern : Patterns, checkpoint : Checkpoint, of : Cycle]
    /\ history \in [Patterns -> Cycle]
    /\ leaked \in 0..PoolMax
    /\ pc \in {"down", "idle", "load", "scan", "begin", "keys", "save", "check"}
    /\ pat \in Patterns
    /\ totalProcessed \in Nat
    /\ cursor \in Cursors /\ nextCursor \in Cursors
    /\ patternTotalProcessed \in Nat
    /\ todo \subseteq keys /\ keys \subseteq Keys
    /\ current \in todo \union {None}
    /\ version \in Versions
    /\ buf \in [Keys -> Versions]
    /\ cycle \in Cycle

-----------------------------------------------------------------------------
(* The row shows what the record said when it was copied, up to refreshes  *)
(* of a pending record, which the sync skips.                              *)
CaughtUp(shown, seen) == shown > 0 /\ (Final(seen) => shown >= seen)

(* k needs nothing more in cycle c: it was not there when the cycle began, *)
(* has no usable record, failed (and is logged), or its row is in.         *)
SettledIn(rows, c, k) ==
    \/ c.seen[k] = 0
    \/ k \in Unusable \union c.excused
    \/ CaughtUp(rows[k], c.seen[k])

(* A checkpoint never runs ahead of the rows: a record its cursor has      *)
(* passed is in its table as Redis held it when the cycle began that the   *)
(* checkpoint comes from, whatever timed out, landed late, was rolled      *)
(* back, crashed or was restarted.  A save that lands late may put the     *)
(* checkpoint of an earlier cycle over that of a later one: the pages it   *)
(* then skips are those of its own cycle, and what has been written to     *)
(* them since waits for the next cycle (EventuallyListed, FinalMirrored).  *)
CheckpointSound ==
    \A k \in Keys :
        Page[k] < sync_state[PatternOf[k]].last_cursor
            => SettledIn(row, history[PatternOf[k]], k)

(* The safety limit of the first sync (index.js:961): if no page holds     *)
(* more than n keys, each pattern stops with the batch that reaches        *)
(* MAX_INITIAL_SYNC_KEYS, however often the process died before and        *)
(* whatever total the checkpoint already holds.                            *)
PagesHold(n) ==
    \A p \in Patterns, c \in Cursors :
        Cardinality({k \in KeysOf(p) : Page[k] = c}) <= n

InitialSyncBounded ==
    \A n \in 0..Cardinality(Keys) :
        isInitialSync /\ PagesHold(n)
            => totalProcessed <= pat * (MAX_INITIAL_SYNC_KEYS - 1 + n)

(* The tables are the mirror their readers expect (see Mirror). *)
M == INSTANCE Mirror WITH
         Keys <- Keys, Usable <- Usable, MaxVersion <- MaxVersion,
         FinalFrom <- FinalFrom, redis <- redis, row <- row

MirrorSpec == M!Spec

(* A final record reaches its table, with the data of its last write.      *)
FinalMirrored ==
    \A k \in Usable : (Final(redis[k]) ~> Final(redis[k]) /\ row[k] = redis[k])

(* Every record gets a row. *)
EventuallyListed == \A k \in Usable : (redis[k] > 0 ~> row[k] > 0)

-----------------------------------------------------------------------------
(* A statement of the sources that the code does not keep.                 *)

(* index.js:748 "Create timeout that will rollback transaction": when no   *)
(* batch is being processed, no transaction is open.                       *)
NoOpenTransaction == pc \in {"idle", "load"} => leaked = 0
=============================================================================
