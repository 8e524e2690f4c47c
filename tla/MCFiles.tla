------------------------------ MODULE MCFiles ------------------------------
(***************************************************************************)
(* The files the runs of DB2File and DB2Rows open: every sequence of       *)
(* section shapes up to a length, laid out the way the format lays them    *)
(* out, under each of a few schemas.                                       *)
(***************************************************************************)
EXTENDS DB2Format

CONSTANTS
    SchemaNames,   \* which of the schemas below
    MaxSections,   \* bound: sections of a file
    MaxRows,       \* bound: records of a section
    MaxCopies,     \* bound: copies of a section
    InlineCopies,  \* may a table with inline ids have copies
    Related        \* do sections with records have relation entries

Num(storage) == [isId |-> FALSE, type |-> "int", storage |-> storage]

Str == [isId |-> FALSE, type |-> "string", storage |-> "None"]

InlineIdField == [isId |-> TRUE, type |-> "int", storage |-> "None"]

\* A schema, and the header flags of its files.
Schema(name) ==
    CASE name = "listed" ->        \* id list, one string
            [useIdList |-> TRUE, fields |-> <<Num("None"), Str>>, relation |-> FALSE, flags |-> {}]
      [] name = "related" ->       \* id list, common field, relation column
            [useIdList |-> TRUE, fields |-> <<Num("CommonData"), Num("None")>>, relation |-> TRUE,
             flags |-> {}]
      [] name = "inline" ->        \* inline id, then a common field
            [useIdList |-> FALSE, fields |-> <<InlineIdField, Num("CommonData"), Str>>,
             relation |-> FALSE, flags |-> {}]
      [] name = "commonFirst" ->   \* a common field, then the inline id
            [useIdList |-> FALSE, fields |-> <<Num("CommonData"), InlineIdField>>,
             relation |-> FALSE, flags |-> {}]
      [] name = "secondary" ->     \* relations keyed by ids
            [useIdList |-> TRUE, fields |-> <<Num("None")>>, relation |-> TRUE,
             flags |-> {"HasRelationshipData"}]
      [] name = "sparse" ->        \* offset map and id list
            [useIdList |-> TRUE, fields |-> <<Num("None"), Str>>, relation |-> FALSE,
             flags |-> {"HasOffsetMap"}]
      [] name = "sparseInline" ->  \* offset map and inline id
            [useIdList |-> FALSE, fields |-> <<InlineIdField, Num("None")>>, relation |-> FALSE,
             flags |-> {"HasOffsetMap"}]
      [] name = "sparseSecondary" ->  \* offset map ids in front of the relations
            [useIdList |-> TRUE, fields |-> <<Num("None")>>, relation |-> FALSE,
             flags |-> {"HasOffsetMap", "HasRelationshipData"}]
      [] name = "sparseCommon" ->  \* what the sparse loader refuses
            [useIdList |-> TRUE, fields |-> <<Num("CommonData")>>, relation |-> FALSE,
             flags |-> {"HasOffsetMap"}]

\* A section: its records, its copies, its key; `zero' makes the first record
\* of a section with a known key one of zeros only.
Shapes ==
    {shape \in [rows : 0..MaxRows, copies : 0..MaxCopies, key : {"none", "known", "missing"},
                zero : BOOLEAN] :
        /\ shape.copies > 0 => shape.rows > 0
        /\ shape.zero => shape.key = "known" /\ shape.rows > 0}

Fits(name, shapes) ==
    InlineCopies \/ Schema(name).useIdList \/ \A s \in DOMAIN shapes : shapes[s].copies = 0

RecordSize == 5

RowSize(k) == 2 + k   \* of a sparse record

IdOf(s, k) == 10 * s + k

CopyIdOf(s, k) == 50 + 10 * s + k

\* The running sum of g over the first n sections.
Sum(g) ==
    LET sum[n \in 0..Len(g)] == IF n = 0 THEN 0 ELSE sum[n - 1] + g[n]
    IN  [n \in 1..Len(g) + 1 |-> sum[n - 1]]

FileOf(schema, shapes) ==
    LET n       == Len(shapes)
        sparse  == "HasOffsetMap" \in schema.flags
        columns == Len(schema.fields)
        related(s) == IF /\ Related /\ shapes[s].rows > 0
                         /\ schema.relation \/ "HasRelationshipData" \in schema.flags
                      THEN 1 ELSE 0
        records(s) == IF sparse THEN (IF shapes[s].rows = 2 THEN RowSize(1) + RowSize(2)
                                      ELSE shapes[s].rows * RowSize(1))
                      ELSE shapes[s].rows * (RecordSize + 1)
        idBytes(s) == IF schema.useIdList THEN 4 * shapes[s].rows ELSE 0
        relBytes(s) == IF related(s) = 0 THEN 0 ELSE 12 + 8 * related(s)
        bytes   == [s \in 1..n |-> records(s) + idBytes(s) + 8 * shapes[s].copies
                                    + (IF sparse THEN 10 * shapes[s].rows ELSE 0) + relBytes(s)]
        offsets == Sum(bytes)
        starts  == Sum([s \in 1..n |-> shapes[s].rows])
        offset(s) == 20 + offsets[s]
        place(s, k) == IF sparse THEN offset(s) + (IF k = 1 THEN 0 ELSE RowSize(1))
                       ELSE offset(s) + RecordSize * (k - 1)
        text(s, k) == 300 + IdOf(s, k)
        \* the reference that StringPos undoes
        ref(s, k) == (offset(s) + RecordSize * shapes[s].rows + (k - 1)) - place(s, k)
                     + (starts[n + 1] - shapes[1].rows) * RecordSize
        cell(s, k, x) ==
            IF shapes[s].zero /\ k = 1 THEN 0
            ELSE IF schema.fields[x].isId THEN IdOf(s, k)
            ELSE IF schema.fields[x].storage = "CommonData" THEN 0
            ELSE IF schema.fields[x].type = "string" THEN IF sparse THEN text(s, k) ELSE ref(s, k)
            ELSE 100 + IdOf(s, k)
        sectionOf(s) ==
            [tact_key_hash |-> IF shapes[s].key = "none" THEN 0 ELSE 1,
             readable |-> shapes[s].key # "missing",
             file_offset |-> offset(s),
             record_count |-> shapes[s].rows,
             string_table_size |-> IF sparse THEN 0 ELSE shapes[s].rows,
             offset_records_end |-> IF sparse THEN offset(s) + records(s) ELSE 0,
             id_list_size |-> idBytes(s),
             relationship_data_size |-> relBytes(s),
             offset_map_id_count |-> IF sparse THEN shapes[s].rows ELSE 0,
             copy_table_count |-> shapes[s].copies,
             idList |-> IF schema.useIdList THEN [k \in 1..shapes[s].rows |-> IdOf(s, k)] ELSE << >>,
             copyTable |-> [k \in 1..shapes[s].copies |->
                [id_of_new_row |-> CopyIdOf(s, k), id_of_copied_row |-> IdOf(s, shapes[s].rows)]],
             offsetMap |-> IF sparse THEN [k \in 1..shapes[s].rows |->
                                [offset |-> place(s, k), size |-> RowSize(k)]] ELSE << >>,
             offsetMapIds |-> IF sparse THEN [k \in 1..shapes[s].rows |-> IdOf(s, k)] ELSE << >>,
             relationships |-> [k \in 1..related(s) |->
                [foreign_id |-> 200 + IdOf(s, k), record_index |-> starts[s] + k - 1]],
             rows |-> [k \in 1..shapes[s].rows |-> [x \in 1..columns |-> cell(s, k, x)]],
             rowPos |-> [k \in 1..shapes[s].rows |-> place(s, k)],
             texts |-> [k \in 1..shapes[s].rows |-> text(s, k)]]
    IN  [signature |-> "WDC4", lookup_column_count |-> IF schema.relation THEN 1 ELSE 0,
         flags |-> schema.flags, field_count |-> columns,
         record_count |-> starts[n + 1], record_size |-> RecordSize,
         useIdList |-> schema.useIdList, fields |-> schema.fields, relation |-> schema.relation,
         common |-> [x \in 1..columns |->
            << [record_id |-> IdOf(1, 1), value |-> 401], [record_id |-> CopyIdOf(1, 1), value |-> 402],
               [record_id |-> IdOf(1, 1), value |-> 403] >>],
         default_value |-> [x \in 1..columns |-> 400],
         sections |-> [s \in 1..n |-> sectionOf(s)],
         starts |-> starts, copyStarts |-> Sum([s \in 1..n |-> shapes[s].copies])]

ShapeLists == UNION {[1..n -> Shapes] : n \in 1..MaxSections}

GoodFiles ==
    {FileOf(Schema(p[1]), p[2]) : p \in {q \in SchemaNames \X ShapeLists : Fits(q[1], q[2])}}

\* Files open() or load() refuse.
BadFiles ==
    LET good == FileOf(Schema("listed"),
                       <<[rows |-> 1, copies |-> 0, key |-> "none", zero |-> FALSE]>>)
    IN  {[good EXCEPT !.signature = "other"], [good EXCEPT !.lookup_column_count = 2],
         [good EXCEPT !.fields = SubSeq(@, 1, 1)],
         [good EXCEPT !.sections[1].id_list_size = 8, !.sections[1].idList = <<11, 12>>], [good EXCEPT !.useIdList = FALSE]}

\* (The union also lets TLC sort the set once, which makes it quick to look up.)
MCFiles == GoodFiles \union BadFiles
============================================================================
