-------------------------------- MODULE Scan --------------------------------
(***************************************************************************)
(* Iterating over a table: DataSource::iterator (Database.hpp) on top of   *)
(* the operator[] of a flat table.  begin() reads a row that is never      *)
(* used; a row is read when it is asked for and kept until the iterator    *)
(* has moved on.  The caller is a loop over begin() and end() that ends at *)
(* the first exception, or goes on behind it.                              *)
(***************************************************************************)
EXTENDS FlatFile

VARIABLES
    loop,          \* where the caller is
    iteratorIndex, \* _index
    loadedIndex,   \* _loaded_index
    val,           \* _val: the record and the index operator[] gave it
    given          \* the rows the caller was given

scanVars == <<loop, iteratorIndex, loadedIndex, val, given>>
allVars == <<vars, scanVars>>

NoIndex == -1

ScanInit ==
    /\ Init
    /\ loop = "open"
    /\ iteratorIndex = 0 /\ loadedIndex = NoIndex
    /\ val = [recordIndex |-> NoIndex, data |-> << >>]
    /\ given = << >>

Answer == [recordIndex |-> index, data |-> record]

OpenTable ==
    /\ loop = "open" /\ Open
    /\ loop' = "begin"
    /\ UNCHANGED <<iteratorIndex, loadedIndex, val, given>>

\* cbegin() of an empty table is cend().
Begin ==
    /\ loop = "begin" /\ pc = "ready"
    /\ IF size > 0 THEN Ask(0) /\ loop' = "beginning"
       ELSE loop' = "test" /\ UNCHANGED vars
    /\ UNCHANGED <<iteratorIndex, loadedIndex, val, given>>

\* The iterator has the first row, and does not know.
Begun ==
    /\ loop = "beginning"
    /\ \/ pc = "returned" /\ loop' = "test" /\ val' = Answer
       \/ pc = "thrown" /\ loop' = "over" /\ UNCHANGED val
    /\ UNCHANGED <<vars, iteratorIndex, loadedIndex, given>>

\* Mutant: a row that was loaded is never loaded anew.
LoadedOnce == loadedIndex # NoIndex

Loaded == iteratorIndex = loadedIndex

Give(value) ==
    /\ loop' = "body"
    /\ given' = Append(given, [row |-> iteratorIndex, value |-> value])

\* it != end, and operator* if so.
Test ==
    /\ loop = "test"
    /\ IF iteratorIndex = size THEN loop' = "over" /\ UNCHANGED <<vars, given>>
       ELSE IF Loaded THEN Give(val) /\ UNCHANGED vars
       ELSE Ask(iteratorIndex) /\ loop' = "loading" /\ UNCHANGED given
    /\ UNCHANGED <<iteratorIndex, loadedIndex, val>>

\* Mutant: the index is not kept with the row.
NeverLoaded(i) == NoIndex

LoadedFrom(i) == i

SetVal ==
    /\ loop = "loading" /\ pc = "returned"
    /\ val' = Answer
    /\ loadedIndex' = LoadedFrom(iteratorIndex)
    /\ Give(Answer)
    /\ UNCHANGED <<vars, iteratorIndex>>

\* The caller leaves the loop, or goes on behind the row.
LoadThrows ==
    /\ loop = "loading" /\ pc = "thrown"
    /\ loop' \in {"over", "caught"}
    /\ UNCHANGED <<vars, iteratorIndex, loadedIndex, val, given>>

\* operator* once more: the row is there.
DereferenceAgain ==
    /\ loop = "body"
    /\ IF Loaded THEN UNCHANGED <<vars, loop>> ELSE Ask(iteratorIndex) /\ loop' = "loading"
    /\ UNCHANGED <<iteratorIndex, loadedIndex, val, given>>

Increment ==
    /\ loop \in {"body", "caught"}
    /\ iteratorIndex' = iteratorIndex + 1
    /\ loop' = "test"
    /\ UNCHANGED <<vars, loadedIndex, val, given>>

Running == CallStep /\ UNCHANGED scanVars

Progress == OpenTable \/ Begin \/ Begun \/ Test \/ SetVal \/ LoadThrows \/ Increment \/ Running

ScanNext == Progress \/ DereferenceAgain

\* One thread: the loop goes on, however often its body looks at the row.
ScanSteps == ScanInit /\ [][ScanNext]_allVars

ScanSpec == ScanSteps /\ WF_allVars(Progress)
-----------------------------------------------------------------------------
(* A loop over a table asks for each row once, and for the first one       *)
(* twice (Database.hpp:71-76, 98), however often the body looks at a row.  *)
ReadOnce ==
    /\ calls <= iteratorIndex + 2
    /\ calls <= size + 1

\* A record without the places it has in a fixed record.
Read(value) ==
    [recordIndex |-> value.recordIndex,
     data |-> [k \in DOMAIN value.data |-> <<value.data[k].kind, value.data[k].at>>]]

Given == [k \in DOMAIN given |-> [row |-> given[k].row, value |-> Read(given[k].value)]]

\* What the layout of the table has.
Rows ==
    [i \in 0..size - 1 |->
        IF Holds!RowReadable(table, i)
        THEN <<[recordIndex |-> i, data |-> Holds!RowParts(table, i)]>> ELSE << >>]

Promised == INSTANCE RowScan WITH rows <- Rows, given <- Given, over <- loop = "over"

(* Iterating keeps the promise of RowScan: rows in order, each once and as *)
(* the file has it, none missed but those that throw (Database.hpp:16-106).*)
ImplementsScan == Promised!Spec

(* A loop over a table ends, also when rows throw (Database.hpp:40-98).    *)
ScanEnds == Promised!Ends
=============================================================================
