------------------------------ MODULE DB2Table ------------------------------
(***************************************************************************)
(* What a DB2 table promises its caller (README.md, `DB usage'): once      *)
(* open() and load() are done, db[i] for i < db.size() answers with the    *)
(* record i of the table.  The record's meaning is read off the file:      *)
(* its place among all sections' records, or among the copies that follow  *)
(* them, its id, its fields and its relation.                              *)
(*                                                                         *)
(* Nothing here mentions cursors, buffers, running ends or the order in    *)
(* which tables are read; DB2Rows is shown to implement it.                *)
(***************************************************************************)
EXTENDS DB2Format

VARIABLES
    file,      \* the opened file
    ready,     \* load() has returned
    pending,   \* the index asked for, or NoCall
    answer     \* the last answer

NoCall == -1

Record(index, state, fields) ==
    [kind |-> "record", index |-> index, state |-> state, fields |-> fields]

Thrown(index, why) == [kind |-> "throw", index |-> index, why |-> why]

NoAnswer == [kind |-> "none"]

TableSize(f) == f.record_count + f.copyStarts[Len(f.sections) + 1]

------------------------------------------------------------------------------
\* The place of row i among the records, and of copy j among the copies.
Place(starts, f, i) ==
    LET s == CHOOSE s \in Sections(f) : starts[s] <= i /\ i < starts[s + 1]
    IN  [section |-> s, at |-> i - starts[s] + 1]

IdColumn(f) == CHOOSE x \in 1..f.field_count : f.fields[x].isId

RowId(f, s, k) ==
    IF f.useIdList THEN f.sections[s].idList[k] ELSE f.sections[s].rows[k][IdColumn(f)]

\* A record without a key in reach; in a keyed section a record of zeros alone
\* cannot be told from one.
Opaque(f, s, k) ==
    LET sec == f.sections[s]
    IN  sec.tact_key_hash # 0 /\ (~sec.readable \/ \A x \in 1..f.field_count : sec.rows[k][x] = 0)

State(f, s) == IF f.sections[s].tact_key_hash # 0 THEN "DECRYPTED" ELSE "NONE"

\* The common value of a record is keyed by its id, a copy's by its own id.
CommonValue(f, x, id) ==
    LET pairs == f.common[x]
        mine  == {k \in 1..Len(pairs) : pairs[k].record_id = id}
    IN  IF mine = {} THEN f.default_value[x]
        ELSE pairs[CHOOSE k \in mine : \A j \in mine : j <= k].value

\* Field x of the record k of section s that goes by `id'.
FieldOf(f, s, k, id, x) ==
    IF f.fields[x].isId THEN id
    ELSE IF f.fields[x].storage = "CommonData" THEN CommonValue(f, x, id)
    ELSE IF f.fields[x].type = "string" THEN f.sections[s].texts[k]
    ELSE f.sections[s].rows[k][x]

\* The foreign id a record's relation entry names, 0 if it has none.
RelationsOf(f, s) ==
    {f.sections[s].relationships[k] : k \in 1..Len(f.sections[s].relationships)}

ForeignId(f, i) ==
    LET mine == {r \in UNION {RelationsOf(f, s) : s \in {t \in Sections(f) : f.sections[t].readable}} :
                    r.record_index = i}
    IN  IF mine = {} THEN 0 ELSE (CHOOSE r \in mine : TRUE).foreign_id

\* Tables the library refuses row by row: relations keyed by ids, a common
\* field in front of the inline id it is looked up by or in a sparse table.
RefusedRelation(f) == f.relation /\ HasRelationshipData(f)

RefusedCommon(f) ==
    \E x \in 1..f.field_count :
        /\ f.fields[x].storage = "CommonData"
        /\ HasOffsetMap(f) \/ (~f.useIdList /\ x < IdColumn(f))

RecordOf(f, index, i, id) ==
    LET p == Place(f.starts, f, i)
    IN  IF Opaque(f, p.section, p.at) THEN Record(index, "ENCRYPTED", << >>)
        ELSE IF RefusedCommon(f) THEN Thrown(index, "common data")
        ELSE IF RefusedRelation(f) THEN Thrown(index, "relation ids")
        ELSE Record(index, State(f, p.section),
                    (IF f.useIdList THEN <<id>> ELSE << >>)
                    \o [x \in 1..f.field_count |-> FieldOf(f, p.section, p.at, id, x)]
                    \o (IF f.relation THEN <<ForeignId(f, i)>> ELSE << >>))

\* The record the copy j stands for: the copied row under the new id.  The
\* copies of an unreadable section stand for records of that section.
CopyOf(f, index, j) ==
    LET p     == Place(f.copyStarts, f, j)
        sec   == f.sections[p.section]
        entry == sec.copyTable[p.at]
        row   == CHOOSE i \in 0..f.record_count - 1 :
                    LET q == Place(f.starts, f, i)
                    IN  RowId(f, q.section, q.at) = entry.id_of_copied_row
    IN  IF sec.readable THEN RecordOf(f, index, row, entry.id_of_new_row)
        ELSE Record(index, "ENCRYPTED", << >>)

Promise(f, i) ==
    IF i < f.record_count
    THEN LET p == Place(f.starts, f, i) IN RecordOf(f, i, i, RowId(f, p.section, p.at))
    ELSE CopyOf(f, i, i - f.record_count)

------------------------------------------------------------------------------
(***************************************************************************)
(* The tables a promise is made for.  That the sections are laid out one   *)
(* behind the other is IsFile; these are the words of the format on what   *)
(* is in them, and they speak of tables that open() and load() accept.     *)
(***************************************************************************)

\* Only what has a key can be out of reach, and no two records share a place.
PlacesApart(f) ==
    /\ \A s \in Sections(f) : ~f.sections[s].readable => f.sections[s].tact_key_hash # 0
    /\ \A r, t \in Rows(f) : RecordPos(f, r[1], r[2]) = RecordPos(f, t[1], t[2]) => r = t

\* The offset map of a sparse table leads to its records, and none is empty.
OffsetsLead(f) ==
    HasOffsetMap(f) => \A r \in Rows(f) :
        LET entry == f.sections[r[1]].offsetMap[r[2]]
        IN  entry.offset = RecordPos(f, r[1], r[2]) /\ entry.size > 0

\* Ids are listed or in one field that is stored with the records.  No id is 0,
\* but a record that cannot be told from a locked one may read as 0.
IdsTell(f) ==
    /\ f.useIdList => \A x \in 1..f.field_count : ~f.fields[x].isId
    /\ ~f.useIdList => \E x \in 1..f.field_count :
            /\ f.fields[x].isId /\ f.fields[x].storage # "CommonData"
            /\ \A y \in 1..f.field_count : f.fields[y].isId => y = x
    /\ \A r \in Rows(f) :
            RowId(f, r[1], r[2]) # 0 \/ (~f.useIdList /\ Opaque(f, r[1], r[2]))

\* Only a table with an id list has copies, each of a record of its own section
\* under an id of its own.
CopiesStand(f) ==
    \A s \in Sections(f) : \A k \in 1..Len(f.sections[s].copyTable) :
        LET entry == f.sections[s].copyTable[k]
        IN  /\ f.useIdList /\ entry.id_of_new_row # 0
            /\ \E r \in Rows(f) : r[1] = s /\ RowId(f, s, r[2]) = entry.id_of_copied_row
            /\ \A r, t \in Rows(f) : RowId(f, r[1], r[2]) = RowId(f, t[1], t[2]) => r = t

\* A sparse record holds its strings.  The reference of another record is
\* counted from the record, as if the sections behind the first had none.
TextStart(f, s, k, x) ==
    (RecordPos(f, s, k) + f.sections[s].rows[k][x])
        - (f.record_count - f.sections[1].record_count) * f.record_size

StringsLead(f) ==
    \A r \in Rows(f), x \in 1..f.field_count :
        ~Opaque(f, r[1], r[2]) /\ f.fields[x].type = "string" /\ ~f.fields[x].isId =>
            IF HasOffsetMap(f) THEN f.sections[r[1]].rows[r[2]][x] = f.sections[r[1]].texts[r[2]]
            ELSE /\ TextStart(f, r[1], r[2], x) = TextPos(f, r[1], r[2])
                 /\ \A t \in Rows(f) : TextPos(f, t[1], t[2]) = TextPos(f, r[1], r[2]) => t = r

\* Relations are of standard tables, and where there is a record there are some.
RelationsThere(f) ==
    f.relation =>
        /\ ~HasOffsetMap(f)
        /\ \A s \in Sections(f) : f.sections[s].readable /\ f.sections[s].record_count > 0 =>
                \E t \in Sections(f) : f.sections[t].readable /\ RelationsOf(f, t) # {}

IsTable(f) ==
    /\ PlacesApart(f) /\ OffsetsLead(f) /\ IdsTell(f)
    /\ CopiesStand(f) /\ StringsLead(f) /\ RelationsThere(f)

------------------------------------------------------------------------------
Init == ~ready /\ pending = NoCall /\ answer = NoAnswer

Load == ~ready /\ ready' = TRUE /\ UNCHANGED <<file, pending, answer>>

Ask(i) ==
    /\ ready /\ pending = NoCall
    /\ pending' = i
    /\ answer' = NoAnswer
    /\ UNCHANGED <<file, ready>>

\* The promised record, or the exception of a file source that failed.
Answer ==
    /\ pending # NoCall
    /\ answer' \in {Promise(file, pending), Thrown(pending, "file source")}
    /\ pending' = NoCall
    /\ UNCHANGED <<file, ready>>

Next == Load \/ (\E i \in 0..TableSize(file) - 1 : Ask(i)) \/ Answer

\* What a table never does, and that it answers.
Safe == Init /\ [][Next]_<<file, ready, pending, answer>>

Spec == Safe /\ WF_<<ready, pending, answer>>(Answer)
==============================================================================
