\* Runs shorter than the timeout, but not by much.
CONSTANTS
    SyncInterval = 2
    Lag = 1
    SYNC_TIMEOUT_MS = 5
    MaxWait = 4
    MaxInitial = 2
    MaxRun = 5
    RunLengths = {"bounded"}
    MaxTime = 30
SPECIFICATION Spec
PROPERTIES ResetOnlyWhenStuck
\* The observed time ends at MaxTime.
CHECK_DEADLOCK FALSE
