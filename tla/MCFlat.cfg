\* Three calls, of any of the rows and of one behind them, over each file.
CONSTANTS
    Tables <- MCTables
    RefAt <- MCRefAt
    Wrap = 256
    MaxCalls = 3
    MaxIndex = 4
    Lengths = {70, 100, 148, 154, 260}
SPECIFICATION Spec
INVARIANTS WalkFitsRecord RowDecoded RefusedRows
\* A caller may stop asking for rows.
CHECK_DEADLOCK FALSE
