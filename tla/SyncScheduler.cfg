\* Runs that fit in the timeout and in the wait of shutdown, and runs of any length.
CONSTANTS
    SyncInterval = 2
    Lag = 1
    SYNC_TIMEOUT_MS = 8
    MaxWait = 4
    MaxInitial = 2
    MaxRun = 3
    RunLengths = {"bounded", "any"}
    MaxTime = 18
SPECIFICATION FairSpec
INVARIANTS TypeOK SingleFlight CleanShutdown KeepsSyncing
PROPERTIES ShutdownEnds
\* The observed time ends at MaxTime.
CHECK_DEADLOCK FALSE
