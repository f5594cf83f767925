---------------------------- MODULE SyncScheduler ----------------------------
(***************************************************************************)
(* createMemoryCache (src/lib/cacheDatabase/index.js): when syncDB runs.   *)
(* An initial run, then one per setInterval tick unless one is running; a  *)
(* run that seems stuck is forgotten (nothing can stop it) and another is  *)
(* started; shutdown waits for the running one for a while, then for the   *)
(* Redis client and the MySQL pool to close, each of which waits for the   *)
(* runs that still use it.                                                 *)
(*                                                                         *)
(* A run is identified by the time it was started: two never start at the  *)
(* same time.                                                              *)
(***************************************************************************)
EXTENDS Integers

CONSTANTS
    SyncInterval,     \* period of setInterval
    Lag,              \* how late the event loop may run a due timer
    SYNC_TIMEOUT_MS,  \* syncStuckDetectionMs
    MaxWait,          \* how long shutdown waits for a run
    MaxInitial,       \* the initial run takes at most this long
    MaxRun,           \* so does a background run
    RunLengths,       \* "bounded": as above; "any": runs may hang
    MaxTime           \* end of the observed time (bound)

ASSUME SchedulerAssumption ==
    /\ SyncInterval \in Nat \ {0}
    /\ Lag \in Nat
    /\ SYNC_TIMEOUT_MS \in Nat
    /\ MaxWait \in Nat
    /\ MaxInitial \in Nat
    /\ MaxRun \in Nat
    /\ RunLengths \subseteq {"bounded", "any"}
    /\ MaxTime \in Nat

VARIABLES
    now,
    phase,                  \* of the process, see Phases
    backgroundSyncRunning,
    lastSyncCompletedAt,
    nextTick,               \* when the interval timer is due
    startWait,              \* when shutdown began to wait
    runs,                   \* start times of the background runs still going
    holders,                \* the runs that keep the client being closed from closing
    leaked,                 \* a connection of the pool was never given back
    lastStart,              \* ghost: the last start of a run, or of serving
    runLength               \* which runs there are: a choice among RunLengths

vars == <<now, phase, backgroundSyncRunning, lastSyncCompletedAt, nextTick,
          startWait, runs, holders, leaked, lastStart, runLength>>

clients == <<holders, leaked>>

(* The last three are the steps of a shutdown after its wait for a run. *)
Phases == {"initial", "serving", "draining", "disconnecting", "destroying", "closed"}

Init ==
    /\ now = 0
    /\ phase = "initial"
    /\ backgroundSyncRunning = FALSE
    /\ lastSyncCompletedAt = 0
    /\ nextTick = 0
    /\ startWait = 0
    /\ runs = {}
    /\ holders = {}
    /\ leaked = FALSE
    /\ lastStart = 0
    /\ runLength \in RunLengths

(* Time passes, but not past a timer that is due nor a run that must end.  *)
(* The initial run has the same awaits without a timeout as the others.    *)
Elapse ==
    /\ now < MaxTime
    /\ phase = "serving" => now < nextTick + Lag
    /\ \/ runLength = "any"
       \/ /\ phase = "initial" => now < MaxInitial
          /\ \A r \in runs : now - r < MaxRun
    /\ now' = now + 1
    /\ UNCHANGED <<phase, backgroundSyncRunning, lastSyncCompletedAt, nextTick,
                   startWait, runs, clients, lastStart, runLength>>

(* await doSyncDB(true) returns or throws, if it does not hang: only now   *)
(* are the interval timer, the server and the signal handlers set up.      *)
InitialSyncEnds ==
    /\ phase = "initial"
    /\ phase' = "serving"
    /\ nextTick' = now + SyncInterval
    /\ lastStart' = now
    /\ UNCHANGED <<now, backgroundSyncRunning, lastSyncCompletedAt, startWait, runs,
                   clients, runLength>>

TickDue ==
    /\ phase = "serving"
    /\ now >= nextTick
    /\ nextTick' = now + SyncInterval
    /\ UNCHANGED <<now, phase, startWait, clients, runLength>>

(* Mutant: a run that hangs is waited for. *)
SeemsStuck_Never == FALSE

SeemsStuck == now - lastSyncCompletedAt > SYNC_TIMEOUT_MS

StartRun ==
    /\ backgroundSyncRunning' = TRUE
    /\ runs' = runs \union {now}
    /\ lastStart' = now
    /\ UNCHANGED lastSyncCompletedAt

(* doProgressiveSync: nothing is running, ... *)
TickStarts == TickDue /\ ~backgroundSyncRunning /\ StartRun

(* ... the flag is set, but no run has completed for SYNC_TIMEOUT_MS, ... *)
TickResets == TickDue /\ backgroundSyncRunning /\ SeemsStuck /\ StartRun

(* ... or a run is going on. *)
TickSkips ==
    /\ TickDue
    /\ backgroundSyncRunning
    /\ ~SeemsStuck
    /\ UNCHANGED <<backgroundSyncRunning, lastSyncCompletedAt, runs, lastStart>>

(* A run that is done with its client lets it close; one that gives up the *)
(* wait for its transaction leaves a connection out of the pool.           *)
LetsGo(r) ==
    /\ holders' = holders \ {r}
    /\ \/ UNCHANGED leaked
       \/ phase = "destroying" /\ r \in holders /\ leaked' = TRUE

(* Mutant: a run that fails does not count as completed. *)
RunEnds_OnlySuccess(r) ==
    /\ phase # "closed"
    /\ runs' = runs \ {r}
    /\ lastSyncCompletedAt' \in {lastSyncCompletedAt, now}
    /\ backgroundSyncRunning' = FALSE
    /\ LetsGo(r)
    /\ UNCHANGED <<now, phase, nextTick, startWait, lastStart, runLength>>

(* A run ends, with or without an error, forgotten or not. *)
RunEnds(r) ==
    /\ phase # "closed"
    /\ runs' = runs \ {r}
    /\ lastSyncCompletedAt' = now
    /\ backgroundSyncRunning' = FALSE
    /\ LetsGo(r)
    /\ UNCHANGED <<now, phase, nextTick, startWait, lastStart, runLength>>

(* A run goes on without the client: no client that closes is taken again. *)
Releases(r) ==
    /\ r \in holders
    /\ LetsGo(r)
    /\ UNCHANGED <<now, phase, backgroundSyncRunning, lastSyncCompletedAt, nextTick,
                   startWait, runs, lastStart, runLength>>

(* Mutant: the wait is kept as a deadline. *)
Shutdown_Deadline ==
    /\ phase = "serving"
    /\ phase' = "draining"
    /\ startWait' = now + MaxWait
    /\ UNCHANGED <<now, backgroundSyncRunning, lastSyncCompletedAt, nextTick,
                   runs, clients, lastStart, runLength>>

(* db.shutdown *)
Shutdown ==
    /\ phase = "serving"
    /\ phase' = "draining"
    /\ startWait' = now
    /\ UNCHANGED <<now, backgroundSyncRunning, lastSyncCompletedAt, nextTick,
                   runs, clients, lastStart, runLength>>

(* The wait is over: shutdown goes on to close the Redis client, used by   *)
(* any of the runs still going.                                            *)
CloseClients ==
    /\ phase' = "disconnecting"
    /\ holders' \in SUBSET runs
    /\ UNCHANGED <<now, backgroundSyncRunning, lastSyncCompletedAt, nextTick,
                   startWait, runs, leaked, lastStart, runLength>>

(* Mutants: shutdown does not wait; shutdown waits for ever. *)
StopWaiting_AtOnce == phase = "draining" /\ CloseClients

StopWaiting_WhenIdle == phase = "draining" /\ ~backgroundSyncRunning /\ CloseClients

(* The flag is cleared, or the shutdown has waited for maxWait. *)
StopWaiting ==
    /\ phase = "draining"
    /\ \/ ~backgroundSyncRunning
       \/ now - startWait >= MaxWait
    /\ CloseClients

(* redisCache.disconnect(): QUIT is answered after every command before    *)
(* it.  Next the pool is destroyed: any run still going may hold a         *)
(* connection of it, and one may have been lost from it by now.            *)
Disconnect ==
    /\ phase = "disconnecting"
    /\ holders = {}
    /\ phase' = "destroying"
    /\ holders' \in SUBSET runs
    /\ leaked' \in BOOLEAN
    /\ UNCHANGED <<now, backgroundSyncRunning, lastSyncCompletedAt, nextTick,
                   startWait, runs, lastStart, runLength>>

(* db.destroy() waits for every connection to be given back to the pool;   *)
(* then the process exits.                                                 *)
Destroy ==
    /\ phase = "destroying"
    /\ holders = {}
    /\ ~leaked
    /\ phase' = "closed"
    /\ UNCHANGED <<now, backgroundSyncRunning, lastSyncCompletedAt, nextTick,
                   startWait, runs, clients, lastStart, runLength>>

Tick == TickStarts \/ TickResets \/ TickSkips

Next ==
    \/ Elapse
    \/ InitialSyncEnds
    \/ Tick
    \/ \E r \in runs : RunEnds(r) \/ Releases(r)
    \/ Shutdown
    \/ StopWaiting
    \/ Disconnect
    \/ Destroy

Spec == Init /\ [][Next]_vars

(* Time passes, bounded runs end, and shutdown goes on when what it awaits *)
(* is there.  No other run need ever end or give back what it holds.       *)
FairSpec ==
    /\ Spec
    /\ WF_vars(Elapse)
    /\ WF_vars(runLength = "bounded" /\ \E r \in runs : RunEnds(r))
    /\ WF_vars(StopWaiting)
    /\ WF_vars(Disconnect)
    /\ WF_vars(Destroy)

-----------------------------------------------------------------------------
Flags == backgroundSyncRunning \in BOOLEAN /\ leaked \in BOOLEAN

(* Type correctness; no clock value lies in the future but the timer's. *)
TypeOK ==
    /\ Flags
    /\ now \in 0..MaxTime
    /\ phase \in Phases
    /\ lastSyncCompletedAt \in 0..now
    /\ nextTick \in Nat
    /\ startWait \in 0..now
    /\ runs \subseteq 0..now
    /\ holders \subseteq runs
    /\ lastStart \in 0..now
    /\ runLength \in RunLengths

(* The completion time measures stuck runs correctly only if a run, and    *)
(* the time before it since the last completion, fit in the timeout.       *)
TimeoutFits == MaxInitial + SyncInterval + Lag + MaxRun <= SYNC_TIMEOUT_MS

(* With TimeoutFits, no two runs that end in time work on the tables and   *)
(* the checkpoint at the same time.                                        *)
OneRun == \A r, q \in runs : r = q

SingleFlight == runLength = "bounded" => OneRun

(* ... and the clients are closed under no run that shutdown waits for.    *)
CleanShutdown ==
    /\ runLength = "bounded" /\ MaxRun < MaxWait
    /\ phase \in {"disconnecting", "destroying", "closed"}
    => runs = {}

(* Once the initial run has ended, the service keeps starting new ones     *)
(* even if they hang: it never goes without one for longer than the        *)
(* timeout and the wait for a tick.  An initial run that hangs keeps the   *)
(* service from ever starting one: nothing is said of that phase.          *)
KeepsSyncing ==
    phase = "serving" => now - lastStart <= SYNC_TIMEOUT_MS + SyncInterval + Lag

(* A shutdown waits for a client: for a command or a connection of a run   *)
(* that has not let go, or a connection nobody has any more.               *)
ClientHeld ==
    \/ phase = "disconnecting" /\ holders # {}
    \/ phase = "destroying" /\ (holders # {} \/ leaked)

(* Whatever becomes of the run it waits for, shutdown gets past that wait, *)
(* and ends unless a client is kept from closing for ever.                 *)
ShutdownEnds ==
    phase = "draining" /\ startWait + MaxWait <= MaxTime
        ~> phase = "closed" \/ []ClientHeld

-----------------------------------------------------------------------------
(* Statements of the sources that the code does not keep.                  *)

(* index.js:1040 "Sync stuck for ...s, forcing reset": the run forgotten   *)
(* has been going on for longer than the timeout.                          *)
ResetOnlyWhenStuck ==
    [][TickResets => now - lastStart > SYNC_TIMEOUT_MS]_vars

(* index.js:1099 "Sync did not complete within timeout, proceeding with    *)
(* shutdown": a shutdown that has given up on a run ends, unless the pool  *)
(* lost a connection.                                                      *)
ShutdownProceeds ==
    phase = "disconnecting" /\ runs # {} ~> phase = "closed" \/ leaked
=============================================================================
