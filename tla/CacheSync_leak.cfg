\* Looks for a violation of NoOpenTransaction.
CONSTANTS
    t1 = t1
    t2 = t2
    t3 = t3
    q1 = q1
    None = None
    PatternOf <- MCPatternOf
    Page <- MCPage
    Keys = {t1, t2}
    NumPages = 2
    Unusable = {}
    MaxVersion = 2
    FinalFrom = 2
    MAX_INITIAL_SYNC_KEYS = 1
    PoolMax = 2
    MaxFaults = 1
SPECIFICATION Spec
INVARIANTS NoOpenTransaction
