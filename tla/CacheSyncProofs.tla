--------------------------- MODULE CacheSyncProofs ---------------------------
(***************************************************************************)
(* Proofs about CacheSync, for any keys, pages, bounds and faults.         *)
(***************************************************************************)
EXTENDS CacheSync, FiniteSetTheorems, TLAPS

USE DEF Patterns, Versions, Cursors, Checkpoint, SyncAssumption

(* Outside processBatch no key is being processed, and a run that holds a  *)
(* checkpoint has a free connection.                                       *)
Quiet ==
    /\ pc # "keys" => todo = {} /\ current = None
    /\ pc \in {"scan", "begin", "keys", "save", "check"} => leaked < PoolMax

TypeInv == TypeOK /\ Quiet

-----------------------------------------------------------------------------

(* A batch is a finite set of keys, so the counters it adds to are numbers. *)
LEMMA BatchSize == ASSUME NEW S \in SUBSET Keys PROVE Cardinality(S) \in Nat
  BY SyncAssumption, FS_Subset, FS_CardinalityType

LEMMA NoCycleType == NoCycle \in Cycle
  BY SyncAssumption DEF NoCycle, Cycle, NoRows

LEMMA InitType == Init => TypeInv
  <1>1. Init => Flags
    BY DEF Init, Flags
  <1> QED
    BY <1>1, NoCycleType, SyncAssumption DEF Init, TypeInv, TypeOK, Quiet, NoRows

(* Dropping the locals keeps their types. *)
LEMMA DropLocalsType ==
  ASSUME DropLocals
  PROVE  /\ cursor' \in Cursors /\ nextCursor' \in Cursors
         /\ patternTotalProcessed' \in Nat
         /\ keys' = {} /\ todo' = {} /\ current' = None
         /\ version' \in Versions
         /\ buf' \in [Keys -> Versions]
         /\ cycle' \in Cycle
  BY NoCycleType, SyncAssumption DEF DropLocals, NoRows

LEMMA LeavePatternType ==
  ASSUME TypeInv, LeavePattern, Flags',
         redis' \in [Keys -> Versions], faults' \in 0..MaxFaults,
         row' \in [Keys -> Versions],
         sync_state' \in [Patterns -> Checkpoint],
         late' \subseteq [pattern : Patterns, checkpoint : Checkpoint, of : Cycle],
         history' \in [Patterns -> Cycle],
         leaked' \in 0..PoolMax
  PROVE  TypeInv'
  BY DropLocalsType DEF LeavePattern, TypeInv, TypeOK, Quiet

LEMMA FaultType == ASSUME TypeInv, Fault PROVE faults' \in 0..MaxFaults
  BY SyncAssumption DEF Fault, TypeInv, TypeOK

LEMMA CheckpointType ==
  ASSUME TypeInv PROVE AfterBatch \in Checkpoint /\ AfterCycle \in Checkpoint
  BY SyncAssumption DEF AfterBatch, AfterCycle, TypeInv, TypeOK

LEMMA SavesType ==
  ASSUME TypeInv, NEW cp \in Checkpoint, Saves(cp)
  PROVE  sync_state' \in [Patterns -> Checkpoint] /\ history' \in [Patterns -> Cycle]
  BY NoCycleType DEF Saves, CycleOf, TypeInv, TypeOK

LEMMA SaveGoesWrongType ==
  ASSUME TypeInv, NEW cp \in Checkpoint, SaveGoesWrong(cp), Flags'
  PROVE  TypeInv'
  <1>1. [pattern |-> pat, checkpoint |-> cp, of |-> CycleOf(cp)]
            \in [pattern : Patterns, checkpoint : Checkpoint, of : Cycle]
    BY NoCycleType DEF CycleOf, TypeInv, TypeOK
  <1>2. /\ sync_state' \in [Patterns -> Checkpoint] /\ history' \in [Patterns -> Cycle]
        /\ late' \subseteq [pattern : Patterns, checkpoint : Checkpoint, of : Cycle]
    BY <1>1, SavesType DEF SaveGoesWrong, TypeInv, TypeOK
  <1>3. Fault /\ LeavePattern /\ UNCHANGED <<redis, row, leaked>>
    BY DEF SaveGoesWrong
  <1> QED
    BY <1>2, <1>3, FaultType, LeavePatternType DEF TypeInv, TypeOK

(* The two flags are only ever assigned constants. *)
LEMMA NextFlags == Flags /\ [Next]_vars => Flags'
  <1> SUFFICES ASSUME Flags, [Next]_vars PROVE Flags'
    OBVIOUS
  <1>1. LeavePattern => Flags'
    BY DEF LeavePattern, DropLocals, Flags
  <1>2. KeyDone => Flags'
    BY DEF KeyDone, Flags
  <1>3. UNCHANGED vars => Flags'
    BY DEF vars, Flags
  <1>4. Progress => Flags'
    BY <1>1, <1>2 DEF Progress, ProcessBatch, StartSync, Restart, StartRun, Load, LoadFails,
       Scan, Begin, ReadKey, StoreKey, BatchThrows, Commit, Save, Reset, NextPage, StopAtLimit,
       Flags, batch
  <1>5. GoesWrong => Flags'
    BY <1>1, <1>2 DEF GoesWrong, LoadFails, ScanFails, BeginTimesOut, BeginFails, StoreFails,
       BatchTimesOut, CommitFails, SaveFails, ResetFails, SaveGoesWrong, Crash, DropLocals, Flags
  <1>6. ASSUME NEW k \in Keys, RedisUpdate(k) PROVE Flags'
    BY <1>6 DEF RedisUpdate, Flags, batch
  <1>7. ASSUME NEW s \in late, LateSaveLands(s) PROVE Flags'
    BY <1>7 DEF LateSaveLands, Flags, batch
  <1> QED
    BY <1>3, <1>4, <1>5, <1>6, <1>7 DEF Next

LEMMA NextType == TypeInv /\ [Next]_vars => TypeInv'
  <1> SUFFICES ASSUME TypeInv, [Next]_vars PROVE TypeInv'
    OBVIOUS
  <1>f. Flags'
    BY NextFlags DEF TypeInv, TypeOK
  <1> USE SyncAssumption, <1>f
  <1>1. CASE StartSync
    BY <1>1 DEF StartSync, StartRun, TypeInv, TypeOK, Quiet, tables, scan, batch
  <1>2. CASE Restart
    BY <1>2 DEF Restart, StartRun, TypeInv, TypeOK, Quiet, tables, scan, batch
  <1>3. CASE Load
    BY <1>3 DEF Load, TypeInv, TypeOK, Quiet, outside, tables, batch
  <1>4. CASE Scan
    <2>1. NextCursor \in Cursors
      BY DEF NextCursor, TypeInv, TypeOK
    <2>2. PageKeys \subseteq Keys
      BY DEF PageKeys, KeysOf
    <2>3. cycle' \in Cycle
      BY <1>4 DEF Scan, NewCycle, Cycle, TypeInv, TypeOK
    <2> QED
      BY <1>4, <2>1, <2>2, <2>3 DEF Scan, TypeInv, TypeOK, Quiet, outside, tables
  <1>5. CASE Begin
    BY <1>5 DEF Begin, TypeInv, TypeOK, Quiet, outside, tables, scan
  <1>6. CASE StoreKey
    <2>1. Stored \in [Keys -> Versions]
      BY DEF Stored, TypeInv, TypeOK
    <2> QED
      BY <1>6, <2>1 DEF StoreKey, KeyDone, TypeInv, TypeOK, Quiet, tables, scan
  <1>7. CASE BatchThrows
    BY <1>7, LeavePatternType DEF BatchThrows, outside, tables, TypeInv, TypeOK
  <1>8. CASE Commit
    <2>1. Cardinality(keys) \in Nat
      BY BatchSize DEF TypeInv, TypeOK
    <2>2. buf' \in [Keys -> Versions]
      BY <1>8 DEF Commit, NoRows, TypeInv, TypeOK
    <2> QED
      BY <1>8, <2>1, <2>2 DEF Commit, TypeInv, TypeOK, Quiet, outside
  <1>9. ASSUME NEW k \in Keys, ReadKey(k) PROVE TypeInv'
    BY <1>9 DEF ReadKey, TypeInv, TypeOK, Quiet, outside, tables, scan
  <1>10. CASE Save
    <2>1. sync_state' \in [Patterns -> Checkpoint] /\ history' \in [Patterns -> Cycle]
      BY <1>10, CheckpointType, SavesType DEF Save
    <2> QED
      BY <1>10, <2>1 DEF Save, TypeInv, TypeOK, Quiet, outside, scan, batch
  <1>11. CASE Reset
    <2>1. sync_state' \in [Patterns -> Checkpoint] /\ history' \in [Patterns -> Cycle]
      BY <1>11, CheckpointType, SavesType DEF Reset
    <2> QED
      BY <1>11, <2>1, LeavePatternType DEF Reset, outside, TypeInv, TypeOK
  <1>12. CASE NextPage
    BY <1>12 DEF NextPage, TypeInv, TypeOK, Quiet, outside, tables
  <1>13. CASE StopAtLimit
    BY <1>13, LeavePatternType DEF StopAtLimit, outside, tables, TypeInv, TypeOK
  <1>14. CASE LoadFails
    BY <1>14, FaultType, LeavePatternType DEF LoadFails, tables, TypeInv, TypeOK
  <1>15. CASE ScanFails
    BY <1>15, FaultType, LeavePatternType DEF ScanFails, tables, TypeInv, TypeOK
  <1>16. CASE BeginTimesOut
    <2>1. leaked' \in 0..PoolMax
      BY <1>16 DEF BeginTimesOut, TypeInv, TypeOK, Quiet
    <2> QED
      BY <1>16, <2>1, FaultType, LeavePatternType DEF BeginTimesOut, tables, TypeInv, TypeOK
  <1>17. CASE BeginFails
    BY <1>17, FaultType, LeavePatternType DEF BeginFails, tables, TypeInv, TypeOK
  <1>18. CASE StoreFails
    <2>1. buf' \in [Keys -> Versions]
      BY <1>18 DEF StoreFails, KeyDone, Stored, TypeInv, TypeOK
    <2>2. current \in Keys
      BY <1>18 DEF StoreFails, KeyDone, TypeInv, TypeOK
    <2>3. cycle' \in Cycle
      BY <1>18, <2>2 DEF StoreFails, Cycle, TypeInv, TypeOK
    <2> QED
      BY <1>18, <2>1, <2>3, FaultType DEF StoreFails, KeyDone, TypeInv, TypeOK, Quiet, tables, scan
  <1>19. CASE BatchTimesOut
    BY <1>19, FaultType DEF BatchTimesOut, TypeInv, TypeOK, Quiet, tables, scan
  <1>20. CASE CommitFails
    BY <1>20, FaultType, LeavePatternType DEF CommitFails, TypeInv, TypeOK
  <1>21. CASE SaveFails
    BY <1>21, CheckpointType, SaveGoesWrongType DEF SaveFails
  <1>22. CASE ResetFails
    BY <1>22, CheckpointType, SaveGoesWrongType DEF ResetFails
  <1>23. CASE Crash
    BY <1>23, FaultType, DropLocalsType DEF Crash, TypeInv, TypeOK, Quiet, tables
  <1>24. ASSUME NEW k \in Keys, RedisUpdate(k) PROVE TypeInv'
    BY <1>24 DEF RedisUpdate, TypeInv, TypeOK, Quiet, tables, scan, batch
  <1>25. ASSUME NEW s \in late, LateSaveLands(s) PROVE TypeInv'
    <2>1. s \in [pattern : Patterns, checkpoint : Checkpoint, of : Cycle]
      BY DEF TypeInv, TypeOK
    <2> QED
      BY <1>25, <2>1 DEF LateSaveLands, TypeInv, TypeOK, Quiet, outside, scan, batch
  <1>26. CASE UNCHANGED vars
    BY <1>26 DEF vars, TypeInv, TypeOK, Quiet
  <1> QED
    BY <1>1, <1>2, <1>3, <1>4, <1>5, <1>6, <1>7, <1>8, <1>9, <1>10, <1>11, <1>12,
       <1>13, <1>14, <1>15, <1>16, <1>17, <1>18, <1>19, <1>20, <1>21, <1>22,
       <1>23, <1>24, <1>25, <1>26 DEF Next, Progress, ProcessBatch, GoesWrong

(* Every reachable state is well typed: no run leaves a variable of the    *)
(* sync, its checkpoint row or its connection count outside its domain.    *)
THEOREM TypeCorrect == Spec => []TypeOK
  <1>1. TypeInv => TypeOK
    BY DEF TypeInv
  <1> QED
    BY InitType, NextType, <1>1, PTL DEF Spec
-----------------------------------------------------------------------------
(* The rows, as committed and as the open transaction sees them, lie       *)
(* between what was committed before and what Redis holds now.             *)

RowsBehind == \A k \in Keys : row[k] <= redis[k]

BufBetween ==
    pc = "keys" =>
        \A k \in Keys :
            /\ row[k] <= buf[k] /\ buf[k] <= redis[k]
            /\ k \in todo \union Unusable => buf[k] = row[k]

ReadBetween ==
    current # None => row[current] <= version /\ version <= redis[current]

RowInv == RowsBehind /\ BufBetween /\ ReadBetween

LEMMA InitRows == Init => RowInv
  BY SyncAssumption DEF Init, RowInv, RowsBehind, BufBetween, ReadBetween, NoRows

(* Storing a key keeps the transaction's rows between those bounds. *)
LEMMA StoredBetween ==
  ASSUME TypeInv, RowInv, KeyDone
  PROVE  \A k \in Keys :
            /\ row[k] <= Stored[k] /\ Stored[k] <= redis[k]
            /\ k \in todo' \union Unusable => Stored[k] = row[k]
  <1>1. current \in todo /\ pc = "keys" /\ todo' = todo \ {current} /\ current \in Keys
    BY DEF KeyDone, TypeInv, TypeOK
  <1>2. row \in [Keys -> Nat] /\ buf \in [Keys -> Nat] /\ redis \in [Keys -> Nat] /\ version \in Nat
    BY SyncAssumption DEF TypeInv, TypeOK
  <1>3. CASE Stored = buf
    BY <1>1, <1>2, <1>3 DEF RowInv, BufBetween
  <1>4. CASE current \in Usable /\ Stored = [buf EXCEPT ![current] = version]
    BY <1>1, <1>2, <1>4, SyncAssumption DEF RowInv, BufBetween, ReadBetween, Usable
  <1> QED
    BY <1>3, <1>4 DEF Stored

LEMMA NextRows == TypeInv /\ RowInv /\ [Next]_vars => RowInv'
  <1> SUFFICES ASSUME TypeInv, RowInv, [Next]_vars PROVE RowInv'
    OBVIOUS
  <1> USE DEF RowInv, RowsBehind, BufBetween, ReadBetween
  <1>t. /\ row \in [Keys -> Nat] /\ buf \in [Keys -> Nat] /\ redis \in [Keys -> Nat]
        /\ version \in Nat /\ current \in todo \union {None} /\ todo \subseteq Keys
    BY SyncAssumption DEF TypeInv, TypeOK
  (* Steps that touch neither the rows nor Redis and end outside processBatch. *)
  <1>0. ASSUME UNCHANGED <<row, redis>>, pc' # "keys", current' = None PROVE RowInv'
    BY <1>0
  <1>q. pc # "keys" => current = None
    BY DEF TypeInv, Quiet
  <1>l. ASSUME LeavePattern, UNCHANGED <<row, redis>> PROVE RowInv'
    BY <1>l, <1>0 DEF LeavePattern, DropLocals
  <1>1. CASE StartSync \/ Restart
    BY <1>1, <1>0, <1>q DEF StartSync, Restart, StartRun, tables, batch
  <1>2. CASE Load \/ Scan
    BY <1>2, <1>0, <1>q DEF Load, Scan, outside, tables, batch
  <1>3. CASE Begin
    BY <1>3, <1>t, <1>q DEF Begin, outside, tables
  <1>4. CASE StoreKey
    <2>1. buf' = Stored /\ KeyDone
      BY <1>4 DEF StoreKey
    <2> QED
      BY <2>1, StoredBetween DEF KeyDone, tables
  <1>5. CASE StoreFails
    <2>1. buf' \in {buf, Stored} /\ KeyDone
      BY <1>5 DEF StoreFails
    <2>2. CASE buf' = buf
      BY <2>1, <2>2 DEF KeyDone, tables
    <2>3. CASE buf' = Stored
      BY <2>1, <2>3, StoredBetween DEF KeyDone, tables
    <2> QED
      BY <2>1, <2>2, <2>3
  <1>6. CASE BatchThrows
    BY <1>6, <1>l DEF BatchThrows, outside, tables
  <1>7. CASE Commit
    <2>1. row' = buf /\ pc = "keys" /\ pc' = "save" /\ current' = current /\ redis' = redis
      BY <1>7 DEF Commit, outside
    <2>2. current = None
      BY <1>7, <1>t DEF Commit
    <2> QED
      BY <2>1, <2>2, <1>t
  <1>8. ASSUME NEW k \in Keys, ReadKey(k) PROVE RowInv'
    BY <1>8, <1>t, SyncAssumption DEF ReadKey, outside, tables
  <1>9. CASE Save \/ NextPage
    BY <1>9, <1>0, <1>q DEF Save, NextPage, outside, tables, batch
  <1>10. CASE Reset \/ StopAtLimit
    BY <1>10, <1>l DEF Reset, StopAtLimit, outside, tables
  <1>11. CASE LoadFails \/ ScanFails \/ BeginTimesOut \/ BeginFails
    BY <1>11, <1>l DEF LoadFails, ScanFails, BeginTimesOut, BeginFails, tables
  <1>12. CASE BatchTimesOut
    BY <1>12, <1>t DEF BatchTimesOut, tables
  <1>13. CASE CommitFails
    <2>1. row' \in {row, buf} /\ pc = "keys" /\ pc' # "keys" /\ current' = None /\ redis' = redis
      BY <1>13 DEF CommitFails, LeavePattern, DropLocals
    <2> QED
      BY <2>1, <1>t
  <1>14. CASE SaveFails \/ ResetFails
    BY <1>14, <1>l DEF SaveFails, ResetFails, SaveGoesWrong
  <1>15. CASE Crash
    BY <1>15, <1>0 DEF Crash, DropLocals, tables
  <1>16. ASSUME NEW k \in Keys, RedisUpdate(k) PROVE RowInv'
    <2>1. \A j \in Keys : redis[j] <= redis'[j] /\ redis'[j] \in Nat
      BY <1>16, <1>t DEF RedisUpdate
    <2>2. UNCHANGED <<row, buf, pc, todo, current, version>>
      BY <1>16 DEF RedisUpdate, tables, batch
    <2> QED
      BY <2>1, <2>2, <1>t, SyncAssumption
  <1>17. ASSUME NEW s \in late, LateSaveLands(s) PROVE RowInv'
    BY <1>17 DEF LateSaveLands, outside, batch
  <1>18. CASE UNCHANGED vars
    BY <1>18 DEF vars
  <1> QED
    BY <1>1, <1>2, <1>3, <1>4, <1>5, <1>6, <1>7, <1>8, <1>9, <1>10, <1>11, <1>12,
       <1>13, <1>14, <1>15, <1>16, <1>17, <1>18 DEF Next, Progress, ProcessBatch, GoesWrong

-----------------------------------------------------------------------------
(* CacheSync implements Mirror. *)

LEMMA MirrorStep == TypeInv /\ RowInv /\ [Next]_vars => [M!Next]_M!vars
  <1> SUFFICES ASSUME TypeInv, RowInv, [Next]_vars, UNCHANGED <<redis, row>> => FALSE
               PROVE  M!Next
    BY DEF M!vars
  <1>t. /\ row \in [Keys -> Versions] /\ buf \in [Keys -> Versions]
        /\ redis \in [Keys -> Versions]
    BY DEF TypeInv, TypeOK
  <1>1. ASSUME NEW k \in Keys, RedisUpdate(k) PROVE M!Next
    BY <1>1 DEF RedisUpdate, M!Next, M!Update, tables
  <1>2. CASE Commit \/ CommitFails
    <2>1. pc = "keys" /\ row' = buf /\ redis' = redis
      BY <1>2 DEF Commit, CommitFails, outside
    <2>2. M!Copy
      BY <2>1, <1>t, SyncAssumption DEF M!Copy, M!Versions, RowInv, BufBetween, Usable
    <2> QED
      BY <2>2 DEF M!Next
  <1>3. CASE ~(Commit \/ CommitFails) /\ ~\E k \in Keys : RedisUpdate(k)
    <2>1. Progress \/ GoesWrong \/ (\E s \in late : LateSaveLands(s)) \/ UNCHANGED vars
      BY <1>3 DEF Next
    <2>2. Progress => UNCHANGED <<redis, row>>
      BY <1>3 DEF Progress, ProcessBatch, StartSync, Restart, StartRun, Load, LoadFails,
         Scan, Begin, ReadKey, StoreKey, KeyDone, BatchThrows, Save, Reset, NextPage,
         StopAtLimit, outside, tables
    <2>3. GoesWrong => UNCHANGED <<redis, row>>
      BY <1>3 DEF GoesWrong, LoadFails, ScanFails, BeginTimesOut, BeginFails, StoreFails,
         KeyDone, BatchTimesOut, SaveFails, ResetFails, SaveGoesWrong, Crash, tables
    <2>4. (\E s \in late : LateSaveLands(s)) => UNCHANGED <<redis, row>>
      BY DEF LateSaveLands, outside
    <2>5. UNCHANGED vars => UNCHANGED <<redis, row>>
      BY DEF vars
    <2> QED
      BY <2>1, <2>2, <2>3, <2>4, <2>5
  <1> QED
    BY <1>1, <1>2, <1>3

(* syncDB implements the mirror its readers see: whatever fails, crashes   *)
(* or lands late, a row never goes back to an older write of its record,   *)
(* never shows one that Redis does not hold, and an unusable record never  *)
(* gets a row.                                                             *)
THEOREM MirrorImplemented == Spec => MirrorSpec
  <1>1. Init => M!Init
    BY DEF Init, M!Init, M!Versions, NoRows
  <1> QED
    BY <1>1, InitType, NextType, InitRows, NextRows, MirrorStep, PTL
       DEF Spec, MirrorSpec, M!Spec

-----------------------------------------------------------------------------
(* The checkpoint.  Why a cursor may be saved: everything on the pages     *)
(* before the cursor in hand is settled, the batch holds every key of its  *)
(* page that was there when the cycle began, and what the loop has         *)
(* finished is settled in the open transaction.  Why it may be saved late: *)
(* rows only move forward, so that what was settled stays settled.         *)

(* The cursor of cp, of pattern p and cycle c, has passed only what rows   *)
(* hold; c has seen nothing that Redis (store) does not hold by now.       *)
Good(rows, store, cp, p, c) ==
    \A k \in Keys :
        /\ c.seen[k] <= store[k]
        /\ PatternOf[k] = p /\ Page[k] < cp.last_cursor => SettledIn(rows, c, k)

CheckpointsGood ==
    /\ \A p \in Patterns : Good(row, redis, sync_state[p], p, history[p])
    /\ \A s \in late : Good(row, redis, s.checkpoint, s.pattern, s.of)

SeenBehind == \A k \in Keys : cycle.seen[k] <= redis[k]

PassedSettled ==
    pc \in {"scan", "begin", "keys", "save", "check"} =>
        \A k \in Keys : PatternOf[k] = pat /\ Page[k] < cursor => SettledIn(row, cycle, k)

NextKnown == pc \in {"begin", "keys", "save", "check"} => nextCursor = NextCursor

BatchComplete ==
    pc \in {"begin", "keys"} =>
        /\ \A k \in Keys :
              PatternOf[k] = pat /\ Page[k] = cursor /\ cycle.seen[k] > 0 => k \in keys
        /\ \A k \in keys : redis[k] > 0

ReadFresh == current # None => version > 0 /\ cycle.seen[current] <= version

DoneSettled ==
    pc = "keys" /\ ~isTimedOut => \A k \in keys \ todo : SettledIn(buf, cycle, k)

PageSettled ==
    pc \in {"save", "check"} =>
        \A k \in Keys : PatternOf[k] = pat /\ Page[k] = cursor => SettledIn(row, cycle, k)

CheckInv ==
    /\ CheckpointsGood /\ SeenBehind
    /\ PassedSettled /\ NextKnown
    /\ BatchComplete /\ ReadFresh /\ DoneSettled /\ PageSettled

LEMMA Numbers ==
  ASSUME TypeInv
  PROVE  /\ row \in [Keys -> Nat] /\ buf \in [Keys -> Nat] /\ redis \in [Keys -> Nat]
         /\ cycle.seen \in [Keys -> Nat] /\ version \in Nat /\ cursor \in Nat
         /\ Page \in [Keys -> Nat] /\ PatternOf \in [Keys -> Patterns] /\ pat \in Patterns
         /\ FinalFrom \in Nat
  BY SyncAssumption DEF TypeInv, TypeOK, Cycle

(* At the start of a cycle a checkpoint has passed nothing. *)
LEMMA StartGood ==
  ASSUME NEW store \in [Keys -> Nat], NEW rows, NEW p, NEW cp, cp.last_cursor = 0
  PROVE  Good(rows, store, cp, p, NoCycle)
  BY SyncAssumption DEF Good, NoCycle, NoRows

LEMMA InitCheck == Init => CheckInv
  <1> SUFFICES ASSUME Init PROVE CheckInv
    OBVIOUS
  <1>1. CheckpointsGood
    BY StartGood, SyncAssumption DEF Init, CheckpointsGood
  <1>2. SeenBehind
    BY SyncAssumption DEF Init, SeenBehind, NoCycle, NoRows
  <1>3. PassedSettled /\ NextKnown /\ BatchComplete /\ ReadFresh /\ PageSettled
    BY DEF Init, PassedSettled, NextKnown, BatchComplete, ReadFresh, PageSettled
  <1>4. DoneSettled
    BY DEF Init, DoneSettled
  <1> QED
    BY <1>1, <1>2, <1>3, <1>4 DEF CheckInv

(* What is settled stays settled while its row moves forward ... *)
LEMMA SettledForward ==
  ASSUME NEW k \in Keys, NEW c \in Cycle, NEW r \in [Keys -> Nat], NEW q \in [Keys -> Nat],
         r[k] <= q[k], SettledIn(r, c, k)
  PROVE  SettledIn(q, c, k)
  BY SyncAssumption DEF SettledIn, CaughtUp, Final, Cycle

(* ... and so a checkpoint, wherever it is kept, stays good.               *)
LEMMA GoodForward ==
  ASSUME NEW rows \in [Keys -> Nat], NEW rows2 \in [Keys -> Nat],
         NEW store \in [Keys -> Nat], NEW store2 \in [Keys -> Nat],
         \A k \in Keys : rows[k] <= rows2[k] /\ store[k] <= store2[k],
         NEW cp, NEW p, NEW c \in Cycle, Good(rows, store, cp, p, c)
  PROVE  Good(rows2, store2, cp, p, c)
  <1> SUFFICES ASSUME NEW k \in Keys
               PROVE  /\ c.seen[k] <= store2[k]
                      /\ PatternOf[k] = p /\ Page[k] < cp.last_cursor => SettledIn(rows2, c, k)
    BY DEF Good
  <1>1. c.seen[k] \in Nat
    BY SyncAssumption DEF Cycle
  <1>2. c.seen[k] <= store2[k]
    BY <1>1 DEF Good
  <1>3. PatternOf[k] = p /\ Page[k] < cp.last_cursor => SettledIn(rows2, c, k)
    BY SettledForward DEF Good
  <1> QED
    BY <1>2, <1>3

LEMMA KeepsGood ==
  ASSUME TypeInv, CheckpointsGood, UNCHANGED <<sync_state, history, late>>,
         row' \in [Keys -> Nat], redis' \in [Keys -> Nat],
         \A k \in Keys : row[k] <= row'[k] /\ redis[k] <= redis'[k]
  PROVE  CheckpointsGood'
  <1>1. /\ \A p \in Patterns : history[p] \in Cycle
        /\ \A s \in late : s.of \in Cycle
    BY DEF TypeInv, TypeOK
  <1>2. ASSUME NEW p \in Patterns PROVE Good(row', redis', sync_state[p], p, history[p])
    BY <1>1, Numbers, GoodForward DEF CheckpointsGood
  <1>3. ASSUME NEW s \in late PROVE Good(row', redis', s.checkpoint, s.pattern, s.of)
    BY <1>1, Numbers, GoodForward DEF CheckpointsGood
  <1> QED
    BY <1>2, <1>3 DEF CheckpointsGood

LEMMA KeepsTables ==
  ASSUME TypeInv, CheckpointsGood, UNCHANGED <<redis, row, sync_state, history, late>>
  PROVE  CheckpointsGood'
  BY DEF CheckpointsGood

(* What is left of CheckInv once the run is out of the pattern. *)
LEMMA OutOfPattern ==
  ASSUME TypeInv', pc' \in {"down", "idle", "load"}, current' = None,
         CheckpointsGood', cycle' = NoCycle
  PROVE  CheckInv'
  <1>1. SeenBehind'
    BY SyncAssumption DEF SeenBehind, NoCycle, NoRows, TypeInv, TypeOK
  <1>2. DoneSettled'
    BY DEF DoneSettled
  <1> QED
    BY <1>1, <1>2
       DEF CheckInv, PassedSettled, NextKnown, BatchComplete, ReadFresh, PageSettled

(* A run that gives up on a pattern leaves rows and checkpoint alone. *)
LEMMA LeavesQuietly ==
  ASSUME TypeInv, TypeInv', CheckInv, LeavePattern, UNCHANGED <<redis, tables>>
  PROVE  CheckInv'
  BY KeepsTables, OutOfPattern DEF LeavePattern, DropLocals, CheckInv, tables

(* The cursor of the next page, or 0, may be saved when this page is       *)
(* settled.                                                                *)
LEMMA SaveSound ==
  ASSUME TypeInv, CheckInv, NEW cp \in Checkpoint, pc \in {"save", "check"},
         cp.last_cursor \in {0, nextCursor}
  PROVE  Good(row, redis, cp, pat, CycleOf(cp))
  <1>1. CASE cp.last_cursor = 0
    BY <1>1, StartGood, Numbers DEF CycleOf
  <1>2. CASE cp.last_cursor # 0
    <2>1. CycleOf(cp) = cycle /\ cp.last_cursor = nextCursor /\ nextCursor = NextCursor
      BY <1>2 DEF CycleOf, CheckInv, NextKnown
    <2>2. ASSUME NEW k \in Keys, PatternOf[k] = pat, Page[k] < nextCursor
          PROVE  SettledIn(row, cycle, k)
      <3>1. Page[k] <= cursor
        BY <1>2, <2>1, <2>2, Numbers DEF NextCursor
      <3>2. Page[k] < cursor \/ Page[k] = cursor
        BY <3>1, Numbers
      <3> QED
        BY <2>2, <3>2 DEF CheckInv, PassedSettled, PageSettled
    <2> QED
      BY <2>1, <2>2 DEF Good, CheckInv, SeenBehind
  <1> QED
    BY <1>1, <1>2

LEMMA SavesGood ==
  ASSUME TypeInv, CheckInv, NEW cp \in Checkpoint, pc \in {"save", "check"},
         cp.last_cursor \in {0, nextCursor}, Saves(cp), UNCHANGED <<redis, row, late>>
  PROVE  CheckpointsGood'
  <1>1. Good(row, redis, cp, pat, CycleOf(cp))
    BY SaveSound
  <1>2. /\ sync_state' = [sync_state EXCEPT ![pat] = cp]
        /\ history' = [history EXCEPT ![pat] = CycleOf(cp)]
    BY DEF Saves
  <1>3. sync_state \in [Patterns -> Checkpoint] /\ history \in [Patterns -> Cycle]
    BY DEF TypeInv, TypeOK
  <1>4. ASSUME NEW p \in Patterns PROVE Good(row, redis, sync_state'[p], p, history'[p])
    <2>1. CASE p = pat
      BY <2>1, <1>1, <1>2, <1>3
    <2>2. CASE p # pat
      BY <2>2, <1>2, <1>3 DEF CheckInv, CheckpointsGood
    <2> QED
      BY <2>1, <2>2
  <1> QED
    BY <1>4 DEF CheckInv, CheckpointsGood

(* A save that fails, is applied after its timeout, or may be applied much *)
(* later is as sound.                                                      *)
LEMMA SaveGoesWrongSound ==
  ASSUME TypeInv, TypeInv', CheckInv, NEW cp \in Checkpoint,
         pc \in {"save", "check"}, cp.last_cursor \in {0, nextCursor}, SaveGoesWrong(cp)
  PROVE  CheckInv'
  <1>1. UNCHANGED <<redis, row>> /\ LeavePattern
    BY DEF SaveGoesWrong
  <1>2. ASSUME UNCHANGED <<sync_state, history, late>> PROVE CheckpointsGood'
    BY <1>1, <1>2, KeepsTables DEF CheckInv
  <1>3. ASSUME Saves(cp), UNCHANGED late PROVE CheckpointsGood'
    BY <1>1, <1>3, SavesGood
  <1>4. ASSUME late' = late \union {[pattern |-> pat, checkpoint |-> cp, of |-> CycleOf(cp)]},
               UNCHANGED <<sync_state, history>>
        PROVE  CheckpointsGood'
    BY <1>1, <1>4, SaveSound DEF CheckInv, CheckpointsGood
  <1>5. CheckpointsGood'
    BY <1>2, <1>3, <1>4 DEF SaveGoesWrong
  <1> QED
    BY <1>1, <1>5, OutOfPattern DEF LeavePattern, DropLocals

(* A save that lands late brings back the checkpoint of its own cycle. *)
LEMMA LateSaveCheck ==
  ASSUME TypeInv, CheckInv, NEW s \in late, LateSaveLands(s) PROVE CheckInv'
  <1>t. /\ sync_state' = [sync_state EXCEPT ![s.pattern] = s.checkpoint]
        /\ history' = [history EXCEPT ![s.pattern] = s.of]
        /\ late' = late \ {s}
        /\ UNCHANGED <<redis, row, pc, pat, cursor, nextCursor, keys, todo, current, version,
                       buf, cycle>>
    BY DEF LateSaveLands, outside, scan, batch
  <1>i. isTimedOut' = isTimedOut
    BY DEF LateSaveLands, batch
  <1>n. /\ sync_state \in [Patterns -> Checkpoint] /\ history \in [Patterns -> Cycle]
        /\ s.pattern \in Patterns
    BY DEF TypeInv, TypeOK
  <1>1. ASSUME NEW p \in Patterns PROVE Good(row, redis, sync_state'[p], p, history'[p])
    <2>1. CASE p = s.pattern
      BY <2>1, <1>t, <1>n DEF CheckInv, CheckpointsGood
    <2>2. CASE p # s.pattern
      BY <2>2, <1>t, <1>n DEF CheckInv, CheckpointsGood
    <2> QED
      BY <2>1, <2>2
  <1>2. CheckpointsGood'
    BY <1>1, <1>t DEF CheckInv, CheckpointsGood
  <1>3. SeenBehind' /\ PassedSettled' /\ NextKnown' /\ BatchComplete' /\ ReadFresh' /\ PageSettled'
    BY <1>t DEF CheckInv, SeenBehind, PassedSettled, NextKnown, NextCursor, BatchComplete,
                ReadFresh, PageSettled
  <1>4. DoneSettled'
    BY <1>t, <1>i DEF CheckInv, DoneSettled
  <1> QED
    BY <1>2, <1>3, <1>4 DEF CheckInv

(* A run takes up the cycle of the checkpoint it starts from. *)
LEMMA LoadCheck == TypeInv /\ CheckInv /\ Load => CheckInv'
  <1> SUFFICES ASSUME TypeInv, CheckInv, Load PROVE CheckInv'
    OBVIOUS
  <1>t. /\ pc = "load" /\ pc' = "scan" /\ cursor' = sync_state[pat].last_cursor
        /\ cycle' = history[pat] /\ current = None
        /\ UNCHANGED <<redis, row, sync_state, history, late, pat, current>>
    BY DEF Load, TypeInv, Quiet, outside, tables, batch
  <1>1. Good(row, redis, sync_state[pat], pat, history[pat])
    BY Numbers DEF CheckInv, CheckpointsGood
  <1>2. CheckpointsGood'
    BY <1>t, KeepsTables DEF CheckInv
  <1>3. SeenBehind' /\ PassedSettled'
    BY <1>t, <1>1 DEF Good, SeenBehind, PassedSettled
  <1>4. NextKnown' /\ BatchComplete' /\ ReadFresh' /\ PageSettled'
    BY <1>t DEF NextKnown, BatchComplete, ReadFresh, PageSettled
  <1>5. DoneSettled'
    BY <1>t DEF DoneSettled
  <1> QED
    BY <1>2, <1>3, <1>4, <1>5 DEF CheckInv

(* A scan from cursor 0 begins a cycle, for which no page is passed yet. *)
LEMMA ScanCheck == TypeInv /\ CheckInv /\ Scan => CheckInv'
  <1> SUFFICES ASSUME TypeInv, CheckInv, Scan PROVE CheckInv'
    OBVIOUS
  <1>t. /\ pc = "scan" /\ pc' \in {"begin", "check"} /\ nextCursor' = NextCursor
        /\ keys' = PageKeys /\ (pc' = "check" => PageKeys = {}) /\ current = None
        /\ UNCHANGED <<redis, row, sync_state, history, late, pat, cursor, current>>
        /\ NextCursor' = NextCursor
        /\ cycle' = IF cursor = 0 THEN NewCycle ELSE cycle
    BY DEF Scan, TypeInv, TypeOK, Quiet, outside, tables, NextCursor
  <1>n. redis \in [Keys -> Nat] /\ \A k \in Keys : Page[k] \in Nat
    BY Numbers
  <1>s. \A k \in Keys : cycle'.seen[k] \in Nat /\ cycle'.seen[k] <= redis[k]
    BY <1>t, Numbers DEF NewCycle, CheckInv, SeenBehind
  <1>1. CheckpointsGood'
    BY <1>t, KeepsTables DEF CheckInv
  <1>2. SeenBehind' /\ NextKnown' /\ ReadFresh'
    BY <1>t, <1>s DEF SeenBehind, NextKnown, ReadFresh
  <1>3. PassedSettled'
    <2>1. CASE cursor = 0
      BY <2>1, <1>t, <1>n DEF PassedSettled
    <2>2. CASE cursor # 0
      BY <2>2, <1>t DEF CheckInv, PassedSettled
    <2> QED
      BY <2>1, <2>2
  <1>4. BatchComplete' /\ PageSettled'
    <2>1. \A k \in Keys :
             PatternOf[k] = pat /\ Page[k] = cursor /\ cycle'.seen[k] > 0 => k \in PageKeys
      BY <1>s, <1>n DEF PageKeys, KeysOf
    <2>2. \A k \in PageKeys : redis[k] > 0
      BY DEF PageKeys
    <2>3. PageSettled'
      BY <2>1, <1>t, <1>s DEF PageSettled, SettledIn
    <2> QED
      BY <2>1, <2>2, <2>3, <1>t DEF BatchComplete
  <1>5. DoneSettled'
    BY <1>t DEF DoneSettled
  <1> QED
    BY <1>1, <1>2, <1>3, <1>4, <1>5 DEF CheckInv

LEMMA BeginCheck == TypeInv /\ CheckInv /\ Begin => CheckInv'
  <1> SUFFICES ASSUME TypeInv, CheckInv, Begin PROVE CheckInv'
    OBVIOUS
  <1>t. /\ pc = "begin" /\ pc' = "keys" /\ todo' = keys /\ current = None
        /\ UNCHANGED <<redis, row, sync_state, history, late, pat, cursor, nextCursor, keys,
                       current, cycle>>
    BY DEF Begin, TypeInv, Quiet, outside, tables, scan
  <1>1. CheckpointsGood'
    BY <1>t, KeepsTables DEF CheckInv
  <1>2. SeenBehind' /\ NextKnown' /\ BatchComplete' /\ PassedSettled' /\ PageSettled' /\ ReadFresh'
    BY <1>t DEF CheckInv, SeenBehind, NextKnown, NextCursor, BatchComplete, PassedSettled,
                PageSettled, ReadFresh
  <1>3. DoneSettled'
    BY <1>t DEF DoneSettled
  <1> QED
    BY <1>1, <1>2, <1>3 DEF CheckInv

(* Steps inside processBatch that leave what is committed alone. *)
LEMMA InBatch ==
  ASSUME TypeInv, CheckInv, pc = "keys", pc' = "keys",
         UNCHANGED <<redis, row, sync_state, history, late, pat, cursor, nextCursor, keys>>,
         cycle'.seen = cycle.seen, cycle.excused \subseteq cycle'.excused,
         ReadFresh', DoneSettled'
  PROVE  CheckInv'
  <1>1. CheckpointsGood'
    BY KeepsTables DEF CheckInv
  <1>2. SeenBehind' /\ NextKnown' /\ BatchComplete'
    BY DEF CheckInv, SeenBehind, NextKnown, NextCursor, BatchComplete
  <1>3. PassedSettled' /\ PageSettled'
    BY DEF CheckInv, PassedSettled, PageSettled, SettledIn
  <1> QED
    BY <1>1, <1>2, <1>3 DEF CheckInv

LEMMA ReadCheck == ASSUME TypeInv, CheckInv, NEW k \in Keys, ReadKey(k) PROVE CheckInv'
  <1>t. /\ pc = "keys" /\ pc' = "keys" /\ current' = k /\ version' = redis[k] /\ k \in todo
        /\ UNCHANGED <<redis, row, sync_state, history, late, pat, cursor, nextCursor, keys,
                       todo, buf, cycle>>
    BY DEF ReadKey, outside, tables, scan
  <1>i. isTimedOut' = isTimedOut
    BY DEF ReadKey
  <1>1. ReadFresh'
    BY <1>t DEF ReadFresh, CheckInv, SeenBehind, BatchComplete, TypeInv, TypeOK
  <1>2. DoneSettled'
    BY <1>t, <1>i DEF CheckInv, DoneSettled
  <1> QED
    BY <1>1, <1>2, <1>t, InBatch

(* A key that cacheKey has finished is settled: written, known to need no   *)
(* write, or excused.                                                       *)
LEMMA KeyCheck == TypeInv /\ CheckInv /\ (StoreKey \/ StoreFails) => CheckInv'
  <1> SUFFICES ASSUME TypeInv, CheckInv, StoreKey \/ StoreFails PROVE CheckInv'
    OBVIOUS
  <1>t. /\ pc = "keys" /\ pc' = "keys" /\ current \in todo /\ todo' = todo \ {current}
        /\ current' = None /\ current # None
        /\ UNCHANGED <<redis, row, sync_state, history, late, pat, cursor, nextCursor, keys>>
    BY DEF StoreKey, StoreFails, KeyDone, TypeInv, TypeOK, tables, scan
  <1>c. cycle \in [seen : [Keys -> Versions], excused : SUBSET Keys]
    BY DEF TypeInv, TypeOK, Cycle
  <1>o. /\ buf' \in {buf, Stored}
        /\ cycle'.seen = cycle.seen /\ cycle.excused \subseteq cycle'.excused
        /\ current \in cycle'.excused \/ buf' = Stored
    BY <1>c DEF StoreKey, StoreFails
  <1>i. ~isTimedOut
    BY DEF StoreKey, StoreFails, KeyDone
  <1>n. /\ buf \in [Keys -> Nat] /\ cycle.seen \in [Keys -> Nat] /\ current \in Keys
        /\ version \in Nat /\ FinalFrom \in Nat
    BY <1>t, Numbers DEF TypeInv, TypeOK
  <1>1. ReadFresh'
    BY <1>t DEF ReadFresh
  <1>2. \A k \in Keys \ {current} : buf'[k] = buf[k]
    BY <1>o, <1>n DEF Stored
  <1>3. ASSUME NEW k \in Keys, k = current PROVE SettledIn(buf', cycle', k)
    <2>1. CASE current \in Unusable \union cycle'.excused
      BY <2>1, <1>3 DEF SettledIn
    <2>2. CASE current \in Usable /\ buf' = Stored
      <3>1. version > 0 /\ cycle.seen[current] <= version
        BY <1>t DEF CheckInv, ReadFresh
      <3>2. CASE NeedsWrite(buf[current], version)
        <4>1. buf'[current] = version
          BY <2>2, <3>2, <1>n DEF Stored
        <4> QED
          BY <1>3, <4>1, <3>1, <1>o, <1>n DEF SettledIn, CaughtUp
      <3>3. CASE ~NeedsWrite(buf[current], version)
        <4>1. buf'[current] = buf[current]
          BY <2>2, <3>3 DEF Stored
        <4>2. buf[current] > 0 /\ ~Final(cycle.seen[current])
          BY <3>1, <3>3, <1>n DEF NeedsWrite, Final
        <4> QED
          BY <1>3, <4>1, <4>2, <1>o DEF SettledIn, CaughtUp
      <3> QED
        BY <3>2, <3>3
    <2> QED
      BY <2>1, <2>2, <1>o, <1>n DEF Usable
  <1>4. DoneSettled'
    <2>1. \A k \in keys \ todo : SettledIn(buf, cycle, k)
      BY <1>i, <1>t DEF CheckInv, DoneSettled
    <2>2. \A k \in keys \ todo' : SettledIn(buf', cycle', k)
      BY <2>1, <1>2, <1>3, <1>t, <1>o DEF SettledIn, TypeInv, TypeOK
    <2> QED
      BY <2>2, <1>t DEF DoneSettled
  <1> QED
    BY <1>1, <1>4, <1>t, <1>o, InBatch

LEMMA TimeoutCheck == TypeInv /\ CheckInv /\ BatchTimesOut => CheckInv'
  <1> SUFFICES ASSUME TypeInv, CheckInv, BatchTimesOut PROVE CheckInv'
    OBVIOUS
  <1>t. /\ pc = "keys" /\ pc' = "keys"
        /\ UNCHANGED <<redis, row, sync_state, history, late, pat, cursor, nextCursor, keys,
                       current, version, cycle>>
    BY DEF BatchTimesOut, tables, scan
  <1>1. DoneSettled'
    BY DEF BatchTimesOut, DoneSettled
  <1>2. ReadFresh'
    BY <1>t DEF CheckInv, ReadFresh
  <1> QED
    BY <1>1, <1>2, <1>t, InBatch

(* Rows only move forward when a batch is committed, or may have been. *)
LEMMA CommittedForward ==
  ASSUME TypeInv, RowInv, CheckInv, pc = "keys", row' \in {row, buf},
         UNCHANGED <<redis, sync_state, history, late>>
  PROVE  /\ CheckpointsGood'
         /\ \A k \in Keys : SettledIn(row, cycle, k) => SettledIn(row', cycle, k)
  <1>1. /\ row \in [Keys -> Nat] /\ buf \in [Keys -> Nat] /\ redis \in [Keys -> Nat]
        /\ \A k \in Keys : row[k] <= buf[k]
    BY Numbers DEF RowInv, BufBetween
  <1>2. row' \in [Keys -> Nat] /\ \A k \in Keys : row[k] <= row'[k] /\ redis[k] <= redis'[k]
    BY <1>1
  <1>3. cycle \in Cycle
    BY DEF TypeInv, TypeOK
  <1>4. CheckpointsGood'
    BY <1>1, <1>2, KeepsGood DEF CheckInv
  <1> QED
    BY <1>1, <1>2, <1>3, <1>4, SettledForward

LEMMA CommitCheck == TypeInv /\ RowInv /\ CheckInv /\ Commit => CheckInv'
  <1> SUFFICES ASSUME TypeInv, RowInv, CheckInv, Commit PROVE CheckInv'
    OBVIOUS
  <1>t. /\ pc = "keys" /\ pc' = "save" /\ row' = buf /\ todo = {} /\ current = None
        /\ UNCHANGED <<redis, sync_state, history, late, pat, cursor, nextCursor, current,
                       cycle>>
    BY DEF Commit, TypeInv, TypeOK, outside
  <1>f. CheckpointsGood' /\ \A k \in Keys : SettledIn(row, cycle, k) => SettledIn(row', cycle, k)
    BY <1>t, CommittedForward
  <1>1. SeenBehind' /\ NextKnown' /\ BatchComplete' /\ ReadFresh'
    BY <1>t DEF CheckInv, SeenBehind, NextKnown, NextCursor, BatchComplete, ReadFresh
  <1>2. PassedSettled'
    BY <1>t, <1>f DEF CheckInv, PassedSettled
  <1>3. PageSettled'
    <2>1. \A k \in keys : SettledIn(buf, cycle, k)
      BY <1>t DEF Commit, CheckInv, DoneSettled
    <2>2. ASSUME NEW k \in Keys, PatternOf[k] = pat, Page[k] = cursor
          PROVE  SettledIn(row', cycle, k)
      <3>1. CASE k \in keys
        BY <2>1, <3>1, <1>t
      <3>2. CASE k \notin keys
        <4>1. cycle.seen[k] = 0
          BY <2>2, <3>2, <1>t, Numbers DEF CheckInv, BatchComplete
        <4> QED
          BY <4>1 DEF SettledIn
      <3> QED
        BY <3>1, <3>2
    <2> QED
      BY <2>2, <1>t DEF PageSettled
  <1>4. DoneSettled'
    BY <1>t DEF DoneSettled
  <1> QED
    BY <1>f, <1>1, <1>2, <1>3, <1>4 DEF CheckInv

LEMMA CommitFailsCheck == TypeInv /\ TypeInv' /\ RowInv /\ CheckInv /\ CommitFails => CheckInv'
  <1> SUFFICES ASSUME TypeInv, TypeInv', RowInv, CheckInv, CommitFails PROVE CheckInv'
    OBVIOUS
  <1>t. /\ pc = "keys" /\ row' \in {row, buf} /\ LeavePattern
        /\ UNCHANGED <<redis, sync_state, history, late>>
    BY DEF CommitFails
  <1>1. CheckpointsGood'
    BY <1>t, CommittedForward
  <1> QED
    BY <1>t, <1>1, OutOfPattern DEF LeavePattern, DropLocals

LEMMA SaveCheck == TypeInv /\ CheckInv /\ Save => CheckInv'
  <1> SUFFICES ASSUME TypeInv, CheckInv, Save PROVE CheckInv'
    OBVIOUS
  <1>t. /\ pc = "save" /\ pc' = "check" /\ Saves(AfterBatch) /\ current = None
        /\ UNCHANGED <<redis, row, late, pat, cursor, nextCursor, current, cycle>>
    BY DEF Save, TypeInv, Quiet, outside, scan, batch
  <1>1. CheckpointsGood'
    BY <1>t, CheckpointType, SavesGood DEF AfterBatch
  <1>2. SeenBehind' /\ NextKnown' /\ BatchComplete' /\ ReadFresh' /\ PassedSettled' /\ PageSettled'
    BY <1>t DEF CheckInv, SeenBehind, NextKnown, NextCursor, BatchComplete, ReadFresh,
                PassedSettled, PageSettled
  <1>3. DoneSettled'
    BY <1>t DEF DoneSettled
  <1> QED
    BY <1>1, <1>2, <1>3 DEF CheckInv

LEMMA NextPageCheck == TypeInv /\ CheckInv /\ NextPage => CheckInv'
  <1> SUFFICES ASSUME TypeInv, CheckInv, NextPage PROVE CheckInv'
    OBVIOUS
  <1>t. /\ pc = "check" /\ pc' = "scan" /\ nextCursor # 0 /\ cursor' = nextCursor /\ current = None
        /\ UNCHANGED <<redis, row, sync_state, history, late, pat, current, cycle>>
    BY DEF NextPage, TypeInv, Quiet, outside, tables
  <1>n. cursor' = cursor + 1 /\ cursor \in Nat /\ Page \in [Keys -> Nat]
    BY <1>t, Numbers DEF CheckInv, NextKnown, NextCursor
  <1>1. CheckpointsGood'
    BY <1>t, KeepsTables DEF CheckInv
  <1>2. SeenBehind' /\ NextKnown' /\ BatchComplete' /\ ReadFresh' /\ PageSettled'
    BY <1>t DEF CheckInv, SeenBehind, NextKnown, BatchComplete, ReadFresh, PageSettled
  <1>3. PassedSettled'
    BY <1>t, <1>n DEF CheckInv, PassedSettled, PageSettled
  <1>4. DoneSettled'
    BY <1>t DEF DoneSettled
  <1> QED
    BY <1>1, <1>2, <1>3, <1>4 DEF CheckInv

LEMMA ResetCheck == TypeInv /\ TypeInv' /\ CheckInv /\ Reset => CheckInv'
  <1> SUFFICES ASSUME TypeInv, TypeInv', CheckInv, Reset PROVE CheckInv'
    OBVIOUS
  <1>t. /\ pc = "check" /\ Saves(AfterCycle) /\ LeavePattern
        /\ UNCHANGED <<redis, row, late>>
    BY DEF Reset, outside
  <1>1. CheckpointsGood'
    BY <1>t, CheckpointType, SavesGood DEF AfterCycle
  <1> QED
    BY <1>t, <1>1, OutOfPattern DEF LeavePattern, DropLocals

LEMMA RedisUpdateCheck == ASSUME TypeInv, CheckInv, NEW k \in Keys, RedisUpdate(k) PROVE CheckInv'
  <1>t. UNCHANGED <<row, sync_state, history, late, pc, pat, cursor, nextCursor, keys, todo,
                    current, version, buf, cycle>>
    BY DEF RedisUpdate, tables, scan, batch
  <1>i. isTimedOut' = isTimedOut
    BY DEF RedisUpdate, batch
  <1>n. /\ row \in [Keys -> Nat] /\ redis' \in [Keys -> Nat]
        /\ \A j \in Keys : redis[j] \in Nat /\ redis[j] <= redis'[j] /\ cycle.seen[j] \in Nat
    BY Numbers DEF RedisUpdate
  <1>1. CheckpointsGood'
    BY <1>t, <1>n, KeepsGood DEF CheckInv
  <1>2. SeenBehind'
    BY <1>t, <1>n DEF CheckInv, SeenBehind
  <1>3. BatchComplete'
    BY <1>t, <1>n DEF CheckInv, BatchComplete, TypeInv, TypeOK
  <1>4. NextKnown' /\ ReadFresh' /\ PassedSettled' /\ PageSettled'
    BY <1>t DEF CheckInv, NextKnown, NextCursor, ReadFresh, PassedSettled, PageSettled
  <1>5. DoneSettled'
    BY <1>t, <1>i DEF CheckInv, DoneSettled
  <1> QED
    BY <1>1, <1>2, <1>3, <1>4, <1>5 DEF CheckInv

(* A run that starts has no pattern yet. *)
LEMMA StartCheck == TypeInv /\ TypeInv' /\ CheckInv /\ (StartSync \/ Restart) => CheckInv'
  <1> SUFFICES ASSUME TypeInv, CheckInv, StartSync \/ Restart PROVE CheckInv'
    OBVIOUS
  <1>t. /\ pc' = "load" /\ current' = None
        /\ UNCHANGED <<redis, row, sync_state, history, late, cycle>>
    BY DEF StartSync, Restart, StartRun, tables, batch, TypeInv, Quiet
  <1>1. CheckpointsGood' /\ SeenBehind'
    BY <1>t, KeepsTables DEF CheckInv, SeenBehind
  <1>2. DoneSettled'
    BY <1>t DEF DoneSettled
  <1> QED
    BY <1>t, <1>1, <1>2
       DEF CheckInv, PassedSettled, NextKnown, BatchComplete, ReadFresh, PageSettled

LEMMA NextCheck == TypeInv /\ TypeInv' /\ RowInv /\ CheckInv /\ [Next]_vars => CheckInv'
  <1> SUFFICES ASSUME TypeInv, TypeInv', RowInv, CheckInv, [Next]_vars PROVE CheckInv'
    OBVIOUS
  <1>1. CASE BatchThrows \/ StopAtLimit
    BY <1>1, LeavesQuietly DEF BatchThrows, StopAtLimit, outside
  <1>2. CASE LoadFails \/ ScanFails \/ BeginTimesOut \/ BeginFails
    BY <1>2, LeavesQuietly DEF LoadFails, ScanFails, BeginTimesOut, BeginFails
  <1>3. CASE SaveFails
    BY <1>3, SaveGoesWrongSound, CheckpointType DEF SaveFails, AfterBatch
  <1>4. CASE ResetFails
    BY <1>4, SaveGoesWrongSound, CheckpointType DEF ResetFails, AfterCycle
  <1>5. CASE Crash
    BY <1>5, KeepsTables, OutOfPattern DEF Crash, DropLocals, CheckInv, tables
  <1>6. CASE UNCHANGED vars
    <2>1. CheckpointsGood'
      BY <1>6, KeepsTables DEF vars, CheckInv
    <2>2. /\ SeenBehind' /\ NextKnown' /\ BatchComplete'
          /\ ReadFresh' /\ PassedSettled' /\ PageSettled'
      BY <1>6 DEF vars, CheckInv, SeenBehind, NextKnown, NextCursor, BatchComplete, ReadFresh,
                  PassedSettled, PageSettled
    <2>3. DoneSettled'
      BY <1>6 DEF vars, CheckInv, DoneSettled
    <2> QED
      BY <2>1, <2>2, <2>3 DEF CheckInv
  <1> QED
    BY <1>1, <1>2, <1>3, <1>4, <1>5, <1>6, StartCheck, LateSaveCheck, LoadCheck, ScanCheck,
       BeginCheck, ReadCheck, KeyCheck, TimeoutCheck, CommitCheck, CommitFailsCheck, SaveCheck,
       NextPageCheck, ResetCheck, RedisUpdateCheck
       DEF Next, Progress, ProcessBatch, GoesWrong

(* A saved cursor never runs ahead of the rows: every record a checkpoint  *)
(* has passed is in its table, as it was when the checkpoint's own cycle   *)
(* began, or failed by itself, through timeouts, saves that land long      *)
(* after they were given up on, rollbacks and crashes.                     *)
THEOREM CheckpointCorrect == Spec => []CheckpointSound
  <1>1. TypeInv /\ TypeInv' /\ RowInv /\ CheckInv /\ [Next]_vars => CheckInv'
    BY NextCheck
  <1>2. TypeInv /\ CheckInv => CheckpointSound
    BY Numbers DEF CheckInv, CheckpointsGood, Good, CheckpointSound
  <1> QED
    BY <1>1, <1>2, InitType, NextType, InitRows, NextRows, InitCheck, PTL DEF Spec

-----------------------------------------------------------------------------
(* The limit of the first sync.  No induction over the patterns is needed: *)
(* what the patterns before the current one may have added is Before(n).   *)

Before(n) == IF pat = 1 THEN 0 ELSE MAX_INITIAL_SYNC_KEYS - 1 + n

(* In the loop the pattern has not yet reached the limit, or has one batch *)
(* beyond it; its total also counts what a checkpoint brought along.       *)
LimitInv(n) ==
    isInitialSync =>
        /\ totalProcessed <= Before(n) + MAX_INITIAL_SYNC_KEYS - 1 + n
        /\ pc = "load" => totalProcessed <= Before(n)
        /\ pc \in {"scan", "begin", "keys", "save", "check"} =>
              totalProcessed <= Before(n) + patternTotalProcessed
        /\ pc \in {"scan", "begin", "keys"} =>
              totalProcessed <= Before(n) + MAX_INITIAL_SYNC_KEYS - 1

(* A batch consists of keys of one page of the pattern. *)
BatchOfPage ==
    pc \in {"begin", "keys"} => \A k \in keys : k \in KeysOf(pat) /\ Page[k] = cursor

LEMMA NextBatchOfPage == TypeInv /\ BatchOfPage /\ [Next]_vars => BatchOfPage'
  <1> SUFFICES ASSUME TypeInv, BatchOfPage, [Next]_vars PROVE BatchOfPage'
    OBVIOUS
  <1> USE DEF BatchOfPage, KeysOf
  <1>0. ASSUME pc' \notin {"begin", "keys"} PROVE BatchOfPage'
    BY <1>0
  <1>u. ASSUME UNCHANGED <<pc, keys, pat, cursor>> PROVE BatchOfPage'
    BY <1>u
  <1>l. ASSUME LeavePattern PROVE BatchOfPage'
    BY <1>l, <1>0 DEF LeavePattern
  <1>1. CASE StartSync \/ Restart \/ Load \/ Save \/ NextPage \/ Commit \/ Crash
    BY <1>1, <1>0 DEF StartSync, Restart, StartRun, Load, Save, NextPage, Commit, Crash
  <1>2. CASE Scan
    BY <1>2 DEF Scan, PageKeys
  <1>3. CASE Begin
    BY <1>3 DEF Begin, scan
  <1>4. CASE StoreKey \/ StoreFails \/ BatchTimesOut
    BY <1>4, <1>u DEF StoreKey, StoreFails, KeyDone, BatchTimesOut, scan
  <1>5. ASSUME NEW k \in Keys, ReadKey(k) \/ RedisUpdate(k) PROVE BatchOfPage'
    BY <1>5, <1>u DEF ReadKey, RedisUpdate, scan, batch
  <1>6. ASSUME NEW s \in late, LateSaveLands(s) PROVE BatchOfPage'
    BY <1>6, <1>u DEF LateSaveLands, scan, batch
  <1>7. CASE LoadFails \/ ScanFails \/ BeginTimesOut \/ BeginFails \/ BatchThrows
             \/ CommitFails \/ SaveFails \/ Reset \/ ResetFails \/ StopAtLimit
    BY <1>7, <1>l DEF LoadFails, ScanFails, BeginTimesOut, BeginFails, BatchThrows, CommitFails,
       SaveFails, Reset, ResetFails, SaveGoesWrong, StopAtLimit
  <1>8. CASE UNCHANGED vars
    BY <1>8, <1>u DEF vars
  <1> QED
    BY <1>1, <1>2, <1>3, <1>4, <1>5, <1>6, <1>7, <1>8 DEF Next, Progress, ProcessBatch, GoesWrong

LEMMA NextLimit ==
  ASSUME NEW n \in 0..Cardinality(Keys), PagesHold(n)
  PROVE  TypeInv /\ BatchOfPage /\ LimitInv(n) /\ [Next]_vars => LimitInv(n)'
  <1> SUFFICES ASSUME TypeInv, BatchOfPage, LimitInv(n), [Next]_vars PROVE LimitInv(n)'
    OBVIOUS
  <1> USE SyncAssumption DEF LimitInv, Before
  <1>t. totalProcessed \in Nat /\ patternTotalProcessed \in Nat /\ pat \in Patterns
    BY DEF TypeInv, TypeOK
  <1>n. n \in Nat
    BY BatchSize
  <1>s. \A p \in Patterns : sync_state[p].total_processed \in Nat
    BY DEF TypeInv, TypeOK
  <1>0. ASSUME UNCHANGED <<isInitialSync, totalProcessed, pat>>,
               pc' \in {"scan", "begin", "keys", "save", "check"},
               pc \in {"scan", "begin", "keys", "save", "check"},
               pc' \in {"scan", "begin", "keys"} => pc \in {"scan", "begin", "keys"},
               UNCHANGED patternTotalProcessed
        PROVE  LimitInv(n)'
    BY <1>0, <1>n
  <1>u. ASSUME UNCHANGED <<isInitialSync, totalProcessed, pat, patternTotalProcessed, pc>>
        PROVE  LimitInv(n)'
    BY <1>u
  <1>l. ASSUME LeavePattern PROVE LimitInv(n)'
    BY <1>l, <1>t, <1>n DEF LeavePattern
  <1>1. CASE StartSync
    BY <1>1 DEF StartSync, StartRun
  <1>2. CASE Restart
    BY <1>2, <1>n DEF Restart, StartRun
  <1>3. CASE Load
    BY <1>3, <1>s, <1>t, <1>n DEF Load
  <1>4. CASE Scan
    BY <1>4, <1>0 DEF Scan
  <1>5. CASE Begin
    BY <1>5, <1>0 DEF Begin, scan
  <1>6. CASE StoreKey \/ StoreFails \/ BatchTimesOut
    BY <1>6, <1>u DEF StoreKey, StoreFails, KeyDone, BatchTimesOut, scan
  <1>7. CASE Commit
    <2>1. keys \subseteq {k \in KeysOf(pat) : Page[k] = cursor} /\ cursor \in Cursors
      BY <1>7 DEF Commit, BatchOfPage, TypeInv, TypeOK
    <2>2. IsFiniteSet({k \in KeysOf(pat) : Page[k] = cursor})
      BY FS_Subset DEF KeysOf
    <2>3. Cardinality(keys) <= Cardinality({k \in KeysOf(pat) : Page[k] = cursor})
      BY <2>1, <2>2, FS_Subset
    <2>4. Cardinality({k \in KeysOf(pat) : Page[k] = cursor}) <= n
      BY <2>1, <1>t DEF PagesHold
    <2>5. Cardinality(keys) \in Nat /\ Cardinality({k \in KeysOf(pat) : Page[k] = cursor}) \in Nat
      BY BatchSize DEF KeysOf, TypeInv, TypeOK
    <2>6. Cardinality(keys) <= n
      BY <2>3, <2>4, <2>5, <1>n
    <2>7. /\ pc = "keys" /\ pc' = "save" /\ UNCHANGED <<isInitialSync, pat>>
          /\ totalProcessed' = totalProcessed + Cardinality(keys)
          /\ patternTotalProcessed' = patternTotalProcessed + Cardinality(keys)
      BY <1>7 DEF Commit
    <2> QED
      BY <2>5, <2>6, <2>7, <1>t, <1>n
  <1>8. CASE Save
    BY <1>8, <1>0 DEF Save, scan
  <1>9. CASE NextPage
    BY <1>9, <1>t, <1>n DEF NextPage, InitialLimit
  <1>10. CASE Crash
    BY <1>10, <1>n DEF Crash
  <1>11. CASE LoadFails \/ ScanFails \/ BeginTimesOut \/ BeginFails \/ BatchThrows
              \/ CommitFails \/ SaveFails \/ Reset \/ ResetFails \/ StopAtLimit
    BY <1>11, <1>l DEF LoadFails, ScanFails, BeginTimesOut, BeginFails, BatchThrows, CommitFails,
       SaveFails, Reset, ResetFails, SaveGoesWrong, StopAtLimit
  <1>12. ASSUME NEW k \in Keys, ReadKey(k) \/ RedisUpdate(k) PROVE LimitInv(n)'
    BY <1>12, <1>u DEF ReadKey, RedisUpdate, scan, batch
  <1>13. ASSUME NEW s \in late, LateSaveLands(s) PROVE LimitInv(n)'
    BY <1>13, <1>u DEF LateSaveLands, scan, batch
  <1>14. CASE UNCHANGED vars
    BY <1>14, <1>u DEF vars
  <1> QED
    BY <1>1, <1>2, <1>3, <1>4, <1>5, <1>6, <1>7, <1>8, <1>9, <1>10, <1>11, <1>12, <1>13, <1>14
       DEF Next, Progress, ProcessBatch, GoesWrong

LimitInvs == \A n \in 0..Cardinality(Keys) : PagesHold(n) => LimitInv(n)

(* No first sync copies more keys than its limit and one batch per         *)
(* pattern, whatever the checkpoint says and however often it was killed.  *)
THEOREM InitialSyncIsBounded == Spec => []InitialSyncBounded
  <1>1. Init => BatchOfPage /\ LimitInvs
    <2>1. Cardinality(Keys) \in Nat
      BY BatchSize
    <2> QED
      BY <2>1, SyncAssumption DEF Init, BatchOfPage, LimitInvs, LimitInv, Before
  <1>2. TypeInv /\ BatchOfPage /\ LimitInvs /\ [Next]_vars => LimitInvs'
    BY NextLimit DEF LimitInvs
  <1>3. TypeInv /\ LimitInvs => InitialSyncBounded
    <2> SUFFICES ASSUME TypeInv, LimitInvs, NEW n \in 0..Cardinality(Keys),
                        isInitialSync, PagesHold(n)
                 PROVE  totalProcessed <= pat * (MAX_INITIAL_SYNC_KEYS - 1 + n)
      BY DEF InitialSyncBounded
    <2>1. totalProcessed <= Before(n) + MAX_INITIAL_SYNC_KEYS - 1 + n
      BY DEF LimitInvs, LimitInv
    <2>2. n \in Nat /\ totalProcessed \in Nat
      BY BatchSize DEF TypeInv, TypeOK
    <2>3. pat = 1 \/ pat = 2
      BY DEF TypeInv, TypeOK
    <2> QED
      BY <2>1, <2>2, <2>3, SyncAssumption DEF Before
  <1> QED
    BY <1>1, <1>2, <1>3, InitType, NextType, NextBatchOfPage, PTL DEF Spec
=============================================================================
