\* Every flat table that open() accepts and that does not wrap; calls enough for its rows and one more.
CONSTANTS
    Tables <- MCTables
    RefAt <- MCRefAt
    Wrap = 256
    MaxCalls = 8
    MaxIndex = 4
    Lengths = {70, 100, 148, 154, 260}
SPECIFICATION ScanSpec
INVARIANT ReadOnce
PROPERTIES ImplementsScan ScanEnds
\* The loop ends.
CHECK_DEADLOCK FALSE
