\* Whole tables of every schema, opened, loaded and read; one call of the file
\* source may throw, and the library of CASC stays in front of encrypted bytes.
CONSTANTS
    Files <- MCFiles
    MaxOpens = 1
    MaxLoads = 1
    MaxFaults = 1
    MaxStale = 1
    MovesOver = FALSE
    MaxSections = 2
    MaxRows = 2
    MaxCopies = 1
    InlineCopies = FALSE
    Related = TRUE
    SchemaNames = {"listed", "related", "inline", "commonFirst", "secondary",
                   "sparse", "sparseInline", "sparseSecondary", "sparseCommon"}
SPECIFICATION RowsSpec
INVARIANTS RowsTypeOK IdListMatchesHeader TablesLoaded SectionInRange
PROPERTIES ImplementsTable CallsReturn
\* The calls a caller makes are bounded, so it may stop.
CHECK_DEADLOCK FALSE
