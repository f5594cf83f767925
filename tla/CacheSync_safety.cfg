\* Two patterns, two pages; pending then final; any two faults; t2 has no usable record.
CONSTANTS
    t1 = t1
    t2 = t2
    t3 = t3
    q1 = q1
    None = None
    PatternOf <- MCPatternOf
    Page <- MCPage
    Keys = {t1, t2, q1}
    NumPages = 2
    Unusable = {t2}
    MaxVersion = 2
    FinalFrom = 2
    MAX_INITIAL_SYNC_KEYS = 1
    PoolMax = 2
    MaxFaults = 2
SPECIFICATION Spec
INVARIANTS TypeOK CheckpointSound InitialSyncBounded
PROPERTIES MirrorSpec
