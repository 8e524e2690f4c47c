------------------------------ MODULE RowScan ------------------------------
(***************************************************************************)
(* What iterating over a table promises: its rows are given in their       *)
(* order, each at most once and as it is in the table, and a row is only   *)
(* missed if it cannot be read.                                            *)
(***************************************************************************)
EXTENDS Integers, Sequences

VARIABLES
    rows,     \* the rows of the table; a row that throws has no value
    given,    \* the rows given, with their numbers
    over

vars == <<rows, given, over>>

Readable(i) == rows[i] # << >>

\* The number behind the last row given.
Behind == IF given = << >> THEN 0 ELSE given[Len(given)].row + 1

Init == given = << >> /\ ~over

\* The next readable row; the caller may have passed over rows that threw.
Give(i) ==
    /\ ~over /\ i >= Behind
    /\ Readable(i) /\ \A j \in Behind..i - 1 : ~Readable(j)
    /\ given' = Append(given, [row |-> i, value |-> rows[i][1]])
    /\ UNCHANGED <<rows, over>>

\* Behind the last row, or at one that threw.
Stop ==
    /\ ~over
    /\ \/ \A j \in DOMAIN rows : j < Behind \/ ~Readable(j)
       \/ \E i \in DOMAIN rows : i >= Behind /\ \A j \in Behind..i : ~Readable(j)
    /\ over' = TRUE
    /\ UNCHANGED <<rows, given>>

Next == (\E i \in DOMAIN rows : Give(i)) \/ Stop

Spec == Init /\ [][Next]_vars

Ends == <>over
=============================================================================
