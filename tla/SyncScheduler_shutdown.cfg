\* Runs of any length.
CONSTANTS
    SyncInterval = 2
    Lag = 1
    SYNC_TIMEOUT_MS = 5
    MaxWait = 4
    MaxInitial = 2
    MaxRun = 3
    RunLengths = {"any"}
    MaxTime = 14
SPECIFICATION FairSpec
PROPERTIES ShutdownProceeds
\* The observed time ends at MaxTime.
CHECK_DEADLOCK FALSE
