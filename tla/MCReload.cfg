\* load() called again, after it threw or after it ended.
CONSTANTS
    Files <- MCFiles
    MaxOpens = 1
    MaxLoads = 2
    MaxFaults = 1
    MaxStale = 1
    MovesOver = FALSE
    MaxSections = 2
    MaxRows = 2
    MaxCopies = 1
    InlineCopies = FALSE
    Related = TRUE
    SchemaNames = {"listed"}
SPECIFICATION Spec
INVARIANT IdListMatchesHeader
\* The calls a caller makes are bounded, so it may stop.
CHECK_DEADLOCK FALSE
