\* Two instances, three versions of a transfer, two crashes.
CONSTANTS
    Pods = {p1, p2}
    MaxVersions = 3
    MaxCrashes = 2
SPECIFICATION Spec
INVARIANTS TypeOK SchemaBeforeSync
PROPERTIES ComesUp RowOnlyAdvances RowSettles
