\* A relation column without relation entries.
CONSTANTS
    Files <- MCFiles
    MaxOpens = 1
    MaxLoads = 1
    MaxFaults = 0
    MaxStale = 1
    MovesOver = FALSE
    MaxSections = 1
    MaxRows = 2
    MaxCopies = 1
    InlineCopies = FALSE
    Related = FALSE
    SchemaNames = {"related"}
SPECIFICATION RowsSpec
INVARIANT RecordsComplete
\* The calls a caller makes are bounded, so it may stop.
CHECK_DEADLOCK FALSE
