\* Three transfers, pages of none, one, two or all rows.
CONSTANTS
    Ids = {1, 2, 3}
    Filters = {"sender", "recipient"}
    Tables <- Rows
    Requests <- Queries
    DefaultLimit = 2
    BucketWidth = 2
    None = None
SPECIFICATION Spec
INVARIANTS TypeOK Complete NoRepeats CountMatchesList SummaryMatchesCounts FlowKeepsAmounts
PROPERTIES RateNeverOverstated PagingEnds RangeScanSpec
