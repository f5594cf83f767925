\* Three conversions, pages of one or two rows.
CONSTANTS
    Ids = {1, 2, 3}
    Tables <- Rows
    Requests <- Lists
    DefaultLimit = 2
    None = None
SPECIFICATION Spec
INVARIANT AppendsAreSafe
