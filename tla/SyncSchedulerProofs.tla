------------------------- MODULE SyncSchedulerProofs -------------------------
(***************************************************************************)
(* Proofs about SyncScheduler, for any periods, timeouts and run lengths.  *)
(***************************************************************************)
EXTENDS SyncScheduler, TLAPS

LEMMA LengthStays == [Next]_vars => UNCHANGED runLength
  BY DEF Next, vars, Elapse, InitialSyncEnds, Tick, TickStarts, TickResets, TickSkips,
     TickDue, RunEnds, Releases, Shutdown, StopWaiting, CloseClients, Disconnect, Destroy

LEMMA NextFlags == Flags /\ [Next]_vars => Flags'
  <1>1. Flags /\ (Elapse \/ InitialSyncEnds \/ Tick \/ Shutdown \/ UNCHANGED vars) => Flags'
    BY DEF Flags, vars, clients, Elapse, InitialSyncEnds, Tick, TickStarts, TickResets,
       TickSkips, TickDue, StartRun, Shutdown
  <1>2. Flags /\ (\E r \in runs : RunEnds(r) \/ Releases(r)) => Flags'
    BY DEF Flags, RunEnds, Releases, LetsGo
  <1>3. Flags /\ (StopWaiting \/ Disconnect \/ Destroy) => Flags'
    BY DEF Flags, StopWaiting, CloseClients, Disconnect, Destroy, clients
  <1> QED
    BY <1>1, <1>2, <1>3 DEF Next

(* Type correctness: no recorded time lies in the future.                  *)
THEOREM TypeCorrect == Spec => []TypeOK
  <1>1. Init => TypeOK
    <2>1. Init => Flags
      BY DEF Init, Flags
    <2> QED
      BY <2>1, SchedulerAssumption DEF Init, TypeOK, Phases
  <1>2. TypeOK /\ [Next]_vars => TypeOK'
    <2> SUFFICES ASSUME TypeOK, [Next]_vars PROVE TypeOK'
      OBVIOUS
    <2>f. Flags' /\ runLength' \in RunLengths
      BY NextFlags, LengthStays DEF TypeOK
    <2> USE SchedulerAssumption, <2>f DEF TypeOK
    <2>1. CASE Elapse
      <3>1. /\ now' = now + 1 /\ now < MaxTime
            /\ UNCHANGED <<phase, lastSyncCompletedAt, nextTick, startWait, runs, holders,
                           lastStart>>
        BY <2>1 DEF Elapse, clients
      <3> QED
        BY <3>1
    <2>2. CASE InitialSyncEnds
      BY <2>2 DEF InitialSyncEnds, clients, Phases
    <2>3. CASE Tick
      <3>1. /\ UNCHANGED <<now, phase, startWait, holders, lastSyncCompletedAt>>
            /\ nextTick' = now + SyncInterval
            /\ runs' \in {runs, runs \union {now}} /\ lastStart' \in {lastStart, now}
        BY <2>3 DEF Tick, TickStarts, TickResets, TickSkips, TickDue, StartRun, clients
      <3>2. /\ phase' \in Phases
            /\ now' \in 0..MaxTime /\ lastSyncCompletedAt' \in 0..now' /\ startWait' \in 0..now'
        BY <3>1
      <3>3. /\ nextTick' \in Nat /\ runs' \subseteq 0..now' /\ lastStart' \in 0..now'
            /\ holders' \subseteq runs'
        BY <3>1
      <3> QED
        BY <3>2, <3>3
    <2>4. ASSUME NEW r \in runs, RunEnds(r) \/ Releases(r) PROVE TypeOK'
      <3>1. /\ UNCHANGED <<now, phase, nextTick, startWait, lastStart>>
            /\ runs' \in {runs, runs \ {r}} /\ holders' = holders \ {r}
            /\ lastSyncCompletedAt' \in {lastSyncCompletedAt, now}
        BY <2>4 DEF RunEnds, Releases, LetsGo
      <3>2. /\ phase' \in Phases
            /\ now' \in 0..MaxTime /\ lastSyncCompletedAt' \in 0..now' /\ startWait' \in 0..now'
        BY <3>1
      <3>3. /\ nextTick' \in Nat /\ runs' \subseteq 0..now' /\ lastStart' \in 0..now'
            /\ holders' \subseteq runs'
        BY <3>1
      <3> QED
        BY <3>2, <3>3
    <2>5. CASE Shutdown \/ StopWaiting \/ Disconnect \/ Destroy
      <3>1. /\ UNCHANGED <<now, lastSyncCompletedAt, nextTick, runs, lastStart>>
            /\ phase' \in Phases /\ startWait' \in {startWait, now}
            /\ holders' \subseteq runs
        BY <2>5 DEF Shutdown, StopWaiting, CloseClients, Disconnect, Destroy, clients, Phases
      <3> QED
        BY <3>1
    <2>6. CASE UNCHANGED vars
      BY <2>6 DEF vars, clients
    <2> QED
      BY <2>1, <2>2, <2>3, <2>4, <2>5, <2>6 DEF Next
  <1> QED
    BY <1>1, <1>2, PTL DEF Spec

-----------------------------------------------------------------------------
(* Why one run at a time.  The flag is set exactly while a run is going    *)
(* on; a run starts at most MaxInitial + SyncInterval + Lag after the last *)
(* completion, and ends MaxRun later: no tick in between finds the last    *)
(* completion older than the timeout.                                      *)

FlagTells == backgroundSyncRunning <=> runs # {}

RunsBounded ==
    \A r \in runs :
        /\ now <= r + MaxRun
        /\ r <= lastSyncCompletedAt + MaxInitial + SyncInterval + Lag

TimerBounded ==
    /\ phase = "initial" => now <= MaxInitial /\ lastSyncCompletedAt = 0 /\ runs = {}
    /\ phase # "initial" => nextTick <= now + SyncInterval
    /\ phase = "serving" => now <= nextTick + Lag
    /\ phase = "serving" /\ runs = {} =>
           nextTick <= lastSyncCompletedAt + MaxInitial + SyncInterval

DrainBounded ==
    /\ phase = "draining" => \A r \in runs : r <= startWait
    /\ phase \in {"disconnecting", "destroying", "closed"} /\ MaxRun < MaxWait => runs = {}

FlightInv == OneRun /\ FlagTells /\ RunsBounded /\ TimerBounded /\ DrainBounded

LEMMA InitFlight == Init => FlightInv
  <1>1. Init => FlagTells
    BY DEF Init, FlagTells
  <1> QED
    BY <1>1, SchedulerAssumption
       DEF Init, FlightInv, OneRun, RunsBounded, TimerBounded, DrainBounded

(* Under TimeoutFits no running sync is ever taken for stuck. *)
LEMMA NoReset ==
  ASSUME TimeoutFits, TypeOK, FlightInv, backgroundSyncRunning
  PROVE  ~SeemsStuck
  <1>1. PICK r \in runs : TRUE
    BY DEF FlightInv, FlagTells
  <1>2. /\ now <= r + MaxRun
        /\ r <= lastSyncCompletedAt + MaxInitial + SyncInterval + Lag
    BY DEF FlightInv, RunsBounded
  <1> QED
    BY <1>2, SchedulerAssumption DEF SeemsStuck, TimeoutFits, TypeOK

LEMMA NextFlight ==
  ASSUME TimeoutFits, runLength = "bounded"
  PROVE  TypeOK /\ FlightInv /\ [Next]_vars => FlightInv'
  <1> SUFFICES ASSUME TypeOK, FlightInv, [Next]_vars PROVE FlightInv'
    OBVIOUS
  <1>t. /\ now \in Nat /\ lastSyncCompletedAt \in Nat /\ nextTick \in Nat /\ startWait \in Nat
        /\ startWait <= now /\ lastSyncCompletedAt <= now /\ runs \subseteq 0..now
    BY DEF TypeOK
  <1>1. CASE Elapse
    <2>1. /\ \A r \in runs : now < r + MaxRun
          /\ phase = "initial" => now < MaxInitial
          /\ phase = "serving" => now < nextTick + Lag
      BY <1>1, <1>t, SchedulerAssumption DEF Elapse
    <2>2. FlagTells'
      BY <1>1 DEF Elapse, FlightInv, FlagTells
    <2>3. OneRun' /\ DrainBounded'
      BY <1>1 DEF Elapse, FlightInv, OneRun, DrainBounded
    <2>4. RunsBounded' /\ TimerBounded'
      <3>1. /\ UNCHANGED <<phase, lastSyncCompletedAt, nextTick, runs>>
            /\ now' = now + 1
        BY <1>1 DEF Elapse
      <3>2. RunsBounded'
        BY <2>1, <3>1, <1>t, SchedulerAssumption DEF FlightInv, RunsBounded
      <3>3. TimerBounded'
        BY <2>1, <3>1, <1>t, SchedulerAssumption DEF FlightInv, TimerBounded
      <3> QED
        BY <3>2, <3>3
    <2> QED
      BY <2>2, <2>3, <2>4 DEF FlightInv
  <1>2. CASE InitialSyncEnds
    <2>1. runs = {} /\ runs' = {}
      BY <1>2 DEF InitialSyncEnds, FlightInv, TimerBounded
    <2>2. FlagTells'
      BY <1>2 DEF InitialSyncEnds, FlightInv, FlagTells
    <2>3. OneRun' /\ DrainBounded' /\ RunsBounded'
      BY <1>2, <2>1 DEF InitialSyncEnds, OneRun, DrainBounded, RunsBounded
    <2>4. TimerBounded'
      BY <1>2, <2>1, <1>t, SchedulerAssumption DEF InitialSyncEnds, FlightInv, TimerBounded
    <2> QED
      BY <2>2, <2>3, <2>4 DEF FlightInv
  <1>3. CASE TickStarts
    <2>1. runs = {} /\ runs' = {now}
      BY <1>3 DEF TickStarts, StartRun, FlightInv, FlagTells
    <2>2. FlagTells'
      BY <1>3, <2>1 DEF TickStarts, StartRun, FlagTells
    <2>3. OneRun' /\ DrainBounded'
      BY <1>3, <2>1 DEF TickStarts, TickDue, OneRun, DrainBounded
    <2>4. RunsBounded' /\ TimerBounded'
      BY <1>3, <2>1, <1>t, SchedulerAssumption
         DEF TickStarts, TickDue, StartRun, FlightInv, RunsBounded, TimerBounded
    <2> QED
      BY <2>2, <2>3, <2>4 DEF FlightInv
  <1>4. CASE TickResets
    BY <1>4, NoReset DEF TickResets
  <1>5. CASE TickSkips
    <2>1. runs # {}
      BY <1>5 DEF TickSkips, FlightInv, FlagTells
    <2>2. FlagTells'
      BY <1>5 DEF TickSkips, FlightInv, FlagTells
    <2>3. OneRun' /\ DrainBounded'
      BY <1>5 DEF TickSkips, TickDue, FlightInv, OneRun, DrainBounded
    <2>4. RunsBounded' /\ TimerBounded'
      <3>1. /\ UNCHANGED <<now, phase, startWait, lastSyncCompletedAt, runs>>
            /\ nextTick' = now + SyncInterval /\ phase = "serving"
        BY <1>5 DEF TickSkips, TickDue
      <3>2. RunsBounded'
        BY <3>1 DEF FlightInv, RunsBounded
      <3>3. TimerBounded'
        <4>1. now' <= nextTick' + Lag /\ nextTick' <= now' + SyncInterval
          BY <3>1, <1>t, SchedulerAssumption
        <4> QED
          BY <4>1, <3>1, <2>1 DEF TimerBounded
      <3> QED
        BY <3>2, <3>3
    <2> QED
      BY <2>2, <2>3, <2>4 DEF FlightInv
  <1>6. ASSUME NEW r \in runs, RunEnds(r) PROVE FlightInv'
    <2>1. runs' = {}
      BY <1>6 DEF RunEnds, FlightInv, OneRun
    <2>2. FlagTells'
      BY <1>6, <2>1 DEF RunEnds, FlagTells
    <2>3. OneRun' /\ DrainBounded' /\ RunsBounded'
      BY <2>1 DEF OneRun, DrainBounded, RunsBounded
    <2>4. TimerBounded'
      BY <1>6, <2>1, <1>t, SchedulerAssumption DEF RunEnds, FlightInv, TimerBounded
    <2> QED
      BY <2>2, <2>3, <2>4 DEF FlightInv
  <1>7. CASE Shutdown
    <2>1. FlagTells'
      BY <1>7 DEF Shutdown, FlightInv, FlagTells
    <2>2. OneRun' /\ RunsBounded' /\ TimerBounded'
      BY <1>7 DEF Shutdown, FlightInv, OneRun, RunsBounded, TimerBounded
    <2>3. DrainBounded'
      BY <1>7, <1>t DEF Shutdown, DrainBounded
    <2> QED
      BY <2>1, <2>2, <2>3 DEF FlightInv
  <1>8. CASE StopWaiting
    <2>1. FlagTells'
      BY <1>8 DEF StopWaiting, CloseClients, FlightInv, FlagTells
    <2>2. OneRun' /\ RunsBounded' /\ TimerBounded'
      BY <1>8 DEF StopWaiting, CloseClients, FlightInv, OneRun, RunsBounded, TimerBounded
    <2>3. backgroundSyncRunning \/ runs = {}
      BY DEF FlightInv, FlagTells
    <2>4. ASSUME MaxRun < MaxWait, now - startWait >= MaxWait PROVE runs = {}
      BY <2>4, <1>8, <1>t, SchedulerAssumption
         DEF StopWaiting, FlightInv, DrainBounded, RunsBounded
    <2>5. MaxRun < MaxWait => runs = {}
      BY <1>8, <2>3, <2>4 DEF StopWaiting
    <2>6. DrainBounded'
      BY <1>8, <2>5 DEF StopWaiting, CloseClients, DrainBounded
    <2> QED
      BY <2>1, <2>2, <2>6 DEF FlightInv
  <1>9. CASE Disconnect \/ Destroy
    <2>1. FlagTells'
      BY <1>9 DEF Disconnect, Destroy, FlightInv, FlagTells
    <2>2. OneRun' /\ RunsBounded' /\ TimerBounded' /\ DrainBounded'
      BY <1>9 DEF Disconnect, Destroy, FlightInv, OneRun, RunsBounded, TimerBounded,
                   DrainBounded
    <2> QED
      BY <2>1, <2>2 DEF FlightInv
  <1>10. ASSUME NEW r \in runs, Releases(r) PROVE FlightInv'
    <2>1. FlagTells'
      BY <1>10 DEF Releases, FlightInv, FlagTells
    <2>2. OneRun' /\ RunsBounded' /\ TimerBounded' /\ DrainBounded'
      BY <1>10 DEF Releases, FlightInv, OneRun, RunsBounded, TimerBounded, DrainBounded
    <2> QED
      BY <2>1, <2>2 DEF FlightInv
  <1>11. CASE UNCHANGED vars
    <2>1. FlagTells'
      BY <1>11 DEF vars, FlightInv, FlagTells
    <2> QED
      BY <1>11, <2>1 DEF vars, FlightInv, OneRun, RunsBounded, TimerBounded, DrainBounded
  <1> QED
    BY <1>1, <1>2, <1>3, <1>4, <1>5, <1>6, <1>7, <1>8, <1>9, <1>10, <1>11
       DEF Next, Tick

BoundedInv == runLength = "bounded" => FlightInv

LEMMA NextBounded ==
  ASSUME TimeoutFits
  PROVE  TypeOK /\ BoundedInv /\ [Next]_vars => BoundedInv'
  BY NextFlight, LengthStays DEF BoundedInv

(* Two runs never overlap, provided every run, with the time since the     *)
(* previous completion, fits in the stuck-detection timeout.               *)
THEOREM OneRunAtATime == ASSUME TimeoutFits PROVE Spec => []SingleFlight
  <1>1. Init => BoundedInv
    BY InitFlight DEF BoundedInv
  <1>2. BoundedInv => SingleFlight
    BY DEF BoundedInv, FlightInv, SingleFlight
  <1> QED
    BY <1>1, <1>2, NextBounded, TypeCorrect, PTL DEF Spec

(* Under the same proviso shutdown closes the Redis and MySQL clients      *)
(* under no run, when a run is also shorter than the wait.                 *)
THEOREM ShutdownIsClean == ASSUME TimeoutFits PROVE Spec => []CleanShutdown
  <1>1. Init => BoundedInv
    BY InitFlight DEF BoundedInv
  <1>2. BoundedInv => CleanShutdown
    BY DEF BoundedInv, FlightInv, DrainBounded, CleanShutdown
  <1> QED
    BY <1>1, <1>2, NextBounded, TypeCorrect, PTL DEF Spec

-----------------------------------------------------------------------------
(* Why a new run always comes: while the flag is set since the last start, *)
(* nothing has completed since, so the first tick after the timeout resets *)
(* it.                                                                     *)

StartInv ==
    /\ phase = "initial" => ~backgroundSyncRunning
    /\ backgroundSyncRunning => lastSyncCompletedAt <= lastStart
    /\ phase = "serving" =>
           /\ now <= nextTick + Lag
           /\ nextTick <= lastStart + SYNC_TIMEOUT_MS + SyncInterval

LEMMA NextStart == TypeOK /\ StartInv /\ [Next]_vars => StartInv'
  <1> SUFFICES ASSUME TypeOK, StartInv, [Next]_vars PROVE StartInv'
    OBVIOUS
  <1> USE SchedulerAssumption DEF StartInv, TypeOK
  <1>1. CASE Elapse
    BY <1>1 DEF Elapse
  <1>2. CASE InitialSyncEnds
    BY <1>2 DEF InitialSyncEnds
  <1>3. CASE TickStarts \/ TickResets
    BY <1>3 DEF TickStarts, TickResets, TickDue, StartRun
  <1>4. CASE TickSkips
    BY <1>4 DEF TickSkips, TickDue, SeemsStuck
  <1>5. ASSUME NEW r \in runs, RunEnds(r) \/ Releases(r) PROVE StartInv'
    BY <1>5 DEF RunEnds, Releases
  <1>6. CASE Shutdown \/ StopWaiting \/ Disconnect \/ Destroy
    BY <1>6 DEF Shutdown, StopWaiting, CloseClients, Disconnect, Destroy
  <1>7. CASE UNCHANGED vars
    BY <1>7 DEF vars
  <1> QED
    BY <1>1, <1>2, <1>3, <1>4, <1>5, <1>6, <1>7 DEF Next, Tick

(* Once the initial run has ended, and however long later runs hang, a     *)
(* serving process starts another one within the stuck-detection timeout   *)
(* and the wait for a tick.                                                *)
THEOREM AlwaysKeepsSyncing == Spec => []KeepsSyncing
  <1>1. Init => StartInv
    BY SchedulerAssumption DEF Init, StartInv
  <1>2. TypeOK /\ StartInv => KeepsSyncing
    BY SchedulerAssumption DEF StartInv, KeepsSyncing, TypeOK
  <1> QED
    BY <1>1, <1>2, NextStart, TypeCorrect, PTL DEF Spec
=============================================================================
