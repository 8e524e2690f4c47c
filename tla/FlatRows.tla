------------------------------ MODULE FlatRows ------------------------------
(***************************************************************************)
(* What a flat file holds, computed from its layout as a whole: row i is   *)
(* the i-th of the records that lie one behind another behind the header   *)
(* and the id tables, and the strings lie behind the last of them.  Each   *)
(* part of a row has its place without those in front being read.          *)
(***************************************************************************)
EXTENDS Integers, Sequences

CONSTANT RefAt(_)

Ids(table) ==
    IF table.format = "WDBC" \/ table.header.maxId = 0 THEN 0
    ELSE table.header.maxId - table.header.minId + 1

Records(table) == (IF table.format = "WDBC" THEN 20 ELSE 48) + 4 * Ids(table) + 2 * Ids(table)

RecordAt(table, i) == Records(table) + i * table.header.recordSize

Strings(table) == RecordAt(table, table.header.recordCount)

Locales(table) == IF table.version = "VANILLA" THEN 8 ELSE 16

HasLocales(table, f) ==
    f.type = "LANG_STRING" /\ table.format = "WDBC" /\ table.version \in {"VANILLA", "BC_WOTLK"}

\* Bytes of an element: a string has a reference, of four bytes, and one for
\* each locale has flags behind them.
Width(table, f) ==
    IF HasLocales(table, f) THEN 4 * Locales(table) + 4
    ELSE IF f.type \in {"INT", "FLOAT"} THEN f.bytes ELSE 4

\* Parts of an element that the row has: a runtime record has one locale of a
\* localized string.
Parts(table, f) == IF HasLocales(table, f) /\ table.legacy THEN Locales(table) + 1 ELSE 1

\* Bytes and parts of the first k fields.
BytesUpTo(table) ==
    LET sum[k \in 0..Len(table.schema)] ==
            IF k = 0 THEN 0 ELSE sum[k - 1] + Width(table, table.schema[k]) * table.schema[k].size
    IN  sum

PartsUpTo(table) ==
    LET sum[k \in 0..Len(table.schema)] ==
            IF k = 0 THEN 0 ELSE sum[k - 1] + Parts(table, table.schema[k]) * table.schema[k].size
    IN  sum

\* Part p, from 1, of the element of field f that lies at `at'.
PartOf(table, f, at, p) ==
    LET reference == IF table.legacy THEN p - 1 ELSE table.locale
        place == IF HasLocales(table, f) THEN at + 4 * reference ELSE at
    IN  IF f.type \in {"INT", "FLOAT"} \/ (HasLocales(table, f) /\ p > Locales(table))
        THEN <<"number", place>>
        ELSE <<"string", Strings(table) + RefAt(place)>>

\* The m-th part of the row at `base': the field it is in, and the element.
RowPart(table, base, m) ==
    LET k == CHOOSE c \in 1..Len(table.schema) :
                PartsUpTo(table)[c - 1] < m /\ m <= PartsUpTo(table)[c]
        f == table.schema[k]
        before == m - PartsUpTo(table)[k - 1] - 1
        at == base + BytesUpTo(table)[k - 1] + Width(table, f) * (before \div Parts(table, f))
    IN  PartOf(table, f, at, (before % Parts(table, f)) + 1)

RowParts(table, i) ==
    [m \in 1..PartsUpTo(table)[Len(table.schema)] |-> RowPart(table, RecordAt(table, i), m)]

\* A row can be given: the file has its record and its strings, and the
\* library has integers of the sizes of its fields.
RowReadable(table, i) ==
    /\ RecordAt(table, i + 1) <= table.length
    /\ \A k \in 1..Len(table.schema) :
        table.schema[k].type = "INT" => table.schema[k].bytes \in {1, 2, 4, 8}
    /\ \A m \in DOMAIN RowParts(table, i) :
        LET part == RowParts(table, i)[m]
        IN  part[1] = "string" => part[2] <= table.length
=============================================================================
