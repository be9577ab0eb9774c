\* Batches of two rows, and one change of the statement.
CONSTANTS
    MaxBulkRows = 2
    MaxInserts = 2
    MaxUpdates = 1
SPECIFICATION Spec
INVARIANT FormatFollowsStatement
CHECK_DEADLOCK FALSE
