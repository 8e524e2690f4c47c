----------------------------- MODULE FlatTables -----------------------------
(***************************************************************************)
(* The flat tables the runs read, of none, two or four rows: each version  *)
(* of DBC and WDB2, fixed and runtime records, whole, cut short and with   *)
(* references that lead out of the file.                                   *)
(***************************************************************************)
EXTENDS Integers

CONSTANT Lengths   \* bound: bytes of a file

MCRefAt(p) == (3 * p) % 11

Whole(bytes, n) == [type |-> "INT", bytes |-> bytes, size |-> n]
Float == [type |-> "FLOAT", bytes |-> 4, size |-> 1]
Text(n) == [type |-> "STRING", bytes |-> 8, size |-> n]
LangText(n) == [type |-> "LANG_STRING", bytes |-> 8, size |-> n]

\* A schema, and the counts of a header that fits it in each format.
Schema(fields, elements, bytes) == [fields |-> fields, elements |-> elements, bytes |-> bytes]

WDB2Schemas ==
    {Schema(<<Whole(4, 1), Text(2), Whole(2, 1)>>, 4, 14), Schema(<<LangText(1), Float>>, 2, 8),
     Schema(<<Text(1), Whole(3, 1)>>, 2, 7)}

VanillaSchemas ==
    {Schema(<<Whole(1, 2), LangText(1), Text(1)>>, 12, 42), Schema(<<LangText(1), Float>>, 10, 40),
     Schema(<<LangText(2), Float>>, 10, 76)}

WotlkSchemas == {Schema(<<LangText(1), Whole(4, 1)>>, 18, 72)}

Fitting(format, version) ==
    IF format = "WDBC" /\ version = "VANILLA" THEN VanillaSchemas
    ELSE IF format = "WDBC" /\ version = "BC_WOTLK" THEN WotlkSchemas ELSE WDB2Schemas

Table(format, version, legacy, locale, s, rows, min, max, length) ==
    [format |-> format, version |-> version, legacy |-> legacy, locale |-> locale,
     schema |-> s.fields,
     header |-> [signature |-> format, recordCount |-> rows, fieldCount |-> s.elements,
                 recordSize |-> s.bytes, minId |-> min, maxId |-> max],
     length |-> length]

Openings ==
    {<<"WDBC", "VANILLA", FALSE, 0>>, <<"WDBC", "VANILLA", FALSE, 7>>, <<"WDBC", "VANILLA", FALSE, 8>>,
     <<"WDBC", "VANILLA", TRUE, 0>>, <<"WDBC", "BC_WOTLK", FALSE, 15>>, <<"WDBC", "BC_WOTLK", TRUE, 0>>,
     <<"WDBC", "CATA_PLUS", FALSE, 0>>, <<"WDBC", "CATA_PLUS", TRUE, 0>>, <<"WDB2", "CATA_PLUS", FALSE, 0>>}

Good ==
    UNION {{Table(o[1], o[2], o[3], o[4], s, rows, ids[1], ids[2], length) :
                s \in Fitting(o[1], o[2]), rows \in {0, 2, 4}, length \in Lengths,
                ids \in IF o[1] = "WDB2" THEN {<<0, 0>>, <<5, 7>>} ELSE {<<0, 0>>}} : o \in Openings}

\* Headers that differ from the schema in one count.
Misfits ==
    UNION {{[t EXCEPT !.header.signature = "other"], [t EXCEPT !.header.fieldCount = @ + 1],
            [t EXCEPT !.header.recordSize = @ - 1]} :
                t \in {g \in Good : g.length = 260 /\ g.header.recordCount = 2}}
=============================================================================
