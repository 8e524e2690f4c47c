------------------------------ MODULE DB2Format ------------------------------
(***************************************************************************)
(* The picture of a WDC3/WDC4/WDC5 file, as much of it as DB2File.hpp      *)
(* tells apart, and what a read of it returns.                             *)
(*                                                                         *)
(* A file is a record: the header fields of DB2Format.hpp, the schema it   *)
(* is opened with, and a sequence of sections.  A section is its header    *)
(* (WDC3SectionHeader) together with the tables that lie behind it.  Tables*)
(* are sequences of entries, never bytes: what a read returns depends on   *)
(* whether the source stands at the first byte of the table it is asked    *)
(* for (Taken below), so a wrong size or a wrong order of reads in the     *)
(* loader shows as Junk.                                                   *)
(*                                                                         *)
(* `starts' and `copyStarts' are the running sums of the sections' record  *)
(* and copy counts.  They are not in the file; the picture carries them so *)
(* that no definition needs recursion.                                     *)
(***************************************************************************)
EXTENDS Integers, Sequences

HasOffsetMap(f) == "HasOffsetMap" \in f.flags

HasRelationshipData(f) == "HasRelationshipData" \in f.flags

Sections(f) == 1..Len(f.sections)

\* The records of a file, as pairs of a section and a place in it.
Rows(f) ==
    {r \in Sections(f) \X (1..f.record_count) : r[2] <= f.sections[r[1]].record_count}

Tables == {"idList", "copyTable", "offsetMap", "offsetMapIds", "relationships"}

\* Mutant: the offset map entry padded, as it is without #pragma pack.
PaddedEntrySize ==
    [idList |-> 4, copyTable |-> 8, offsetMap |-> 8, offsetMapIds |-> 4, relationships |-> 8]

\* sizeof of one entry of each table, and of the header of a relationship block.
EntrySize ==
    [idList |-> 4, copyTable |-> 8, offsetMap |-> 6, offsetMapIds |-> 4, relationships |-> 8]

RelationHeaderSize == 12

\* The inline fields of a schema, with how the file stores each of them.  Only
\* numbers may be common data; strings in it are left out.
Fields ==
    {field \in [isId : BOOLEAN, type : {"int", "string"}, storage : {"None", "CommonData"}] :
        field.type = "string" => field.storage = "None"}

CopyEntries == [id_of_new_row : Nat, id_of_copied_row : Nat]

OffsetEntries == [offset : Nat, size : Nat]

RelationEntries == [foreign_id : Nat, record_index : Nat]

CommonEntries == [record_id : Nat, value : Nat]

\* What one entry is when its bytes are all v.
Filled(table, v) ==
    CASE table = "copyTable" -> [id_of_new_row |-> v, id_of_copied_row |-> v]
      [] table = "offsetMap" -> [offset |-> v, size |-> v]
      [] table = "relationships" -> [foreign_id |-> v, record_index |-> v]
      [] OTHER -> v

\* A value no file of a run holds: bytes of another table taken for an entry.
Junk == 999

(***************************************************************************)
(* Where the writer of the file has put things (external: this is the      *)
(* format, not this program).                                              *)
(***************************************************************************)

\* First byte behind the records and strings of section s.
TablesAt(f, s) ==
    LET sec == f.sections[s]
    IN  IF HasOffsetMap(f) THEN sec.offset_records_end
        ELSE sec.file_offset + f.record_size * sec.record_count + sec.string_table_size

\* First byte of each table of section s; the relationship block starts with
\* its header, and comes before or behind the offset map ids by the header flag.
TablePos(f, s) ==
    LET sec  == f.sections[s]
        ids  == TablesAt(f, s)
        copy == ids + 4 * Len(sec.idList)
        map  == copy + 8 * Len(sec.copyTable)
        keys == map + 6 * Len(sec.offsetMap)
        rels == IF HasRelationshipData(f) THEN keys + 4 * Len(sec.offsetMapIds) ELSE keys
    IN  [idList        |-> ids,
         copyTable     |-> copy,
         offsetMap     |-> map,
         offsetMapIds  |-> IF HasRelationshipData(f) THEN keys ELSE keys + sec.relationship_data_size,
         relationHeader |-> rels,
         relationships |-> rels + RelationHeaderSize]

\* First byte of record k of section s, and of the string it refers to.
RecordPos(f, s, k) ==
    IF HasOffsetMap(f) THEN f.sections[s].rowPos[k]
    ELSE f.sections[s].file_offset + f.record_size * (k - 1)

TextPos(f, s, k) ==
    f.sections[s].file_offset + f.record_size * f.sections[s].record_count + (k - 1)

(***************************************************************************)
(* What a read returns (external: the storage under the file source).  A   *)
(* section is unreadable when it is encrypted and the client lacks the     *)
(* key; its bytes are then zero.                                           *)
(***************************************************************************)

\* Entries 1..n of a table, read at position `at'.
Taken(f, s, table, at, n) ==
    LET sec == f.sections[s]
    IN  [k \in 1..n |->
            IF ~sec.readable THEN Filled(table, 0)
            ELSE IF at = TablePos(f, s)[table] /\ k <= Len(sec[table]) THEN sec[table][k]
            ELSE Filled(table, Junk)]

\* The buffers a read of one record at position `at' can leave behind, when
\* the buffer held `before'.  A read of an unreadable record fills it with
\* zeros, or writes nothing, or, in a table with an id list, may leave anything
\* (the three outcomes DB2File.hpp:213-214 and CASCFilesystem.cpp:15-17 expect).
Blank(f) == [x \in 1..f.field_count |-> 0]

Scrambled(f) == [x \in 1..f.field_count |-> Junk]

RecordAt(f, at) == {r \in Rows(f) : RecordPos(f, r[1], r[2]) = at}

Got(f, at, before) ==
    IF RecordAt(f, at) = {} THEN {Scrambled(f)}
    ELSE LET r   == CHOOSE r \in RecordAt(f, at) : TRUE
             sec == f.sections[r[1]]
         IN  IF sec.readable THEN {sec.rows[r[2]]}
             ELSE {Blank(f), before} \union (IF f.useIdList THEN {Scrambled(f)} ELSE {})

\* The string at position `at': the text of the record it belongs to.
TextAt(f, at) ==
    LET owner == {r \in Rows(f) : TextPos(f, r[1], r[2]) = at}
    IN  IF owner = {} THEN Junk
        ELSE LET r == CHOOSE r \in owner : TRUE IN f.sections[r[1]].texts[r[2]]

(***************************************************************************)
(* A file whose header agrees with its sections.                           *)
(***************************************************************************)
SectionShape ==
    [tact_key_hash : Nat, readable : BOOLEAN,
     file_offset : Nat, record_count : Nat, string_table_size : Nat,
     offset_records_end : Nat, id_list_size : Nat, relationship_data_size : Nat,
     offset_map_id_count : Nat, copy_table_count : Nat,
     idList : Seq(Nat), copyTable : Seq(CopyEntries), offsetMap : Seq(OffsetEntries),
     offsetMapIds : Seq(Nat), relationships : Seq(RelationEntries),
     rows : Seq(Seq(Nat)), rowPos : Seq(Nat), texts : Seq(Nat)]

FileShape ==
    [signature : {"WDC3", "WDC4", "WDC5", "other"}, lookup_column_count : Nat,
     flags : SUBSET {"HasOffsetMap", "HasRelationshipData"},
     field_count : Nat, record_count : Nat, record_size : Nat,
     useIdList : BOOLEAN, fields : Seq(Fields), relation : BOOLEAN,
     common : Seq(Seq(CommonEntries)), default_value : Seq(Nat),
     sections : Seq(SectionShape), starts : Seq(Nat), copyStarts : Seq(Nat)]

\* The relation block of a section: its header and entries, or nothing.
IsRelationBlock(sec) ==
    \/ sec.relationship_data_size = RelationHeaderSize + 8 * Len(sec.relationships)
    \/ sec.relationship_data_size = 0 /\ Len(sec.relationships) = 0

\* A record has one relation.  A section with relations has records or ids of
\* its own, so that no later relation is for the first record, or id 0.
AreRelations(f) ==
    \A s, t \in Sections(f) : \A m \in 1..Len(f.sections[t].relationships) :
        LET entry == f.sections[t].relationships[m]
        IN  /\ \A k \in 1..Len(f.sections[s].relationships) :
                  f.sections[s].relationships[k].record_index = entry.record_index
                    => s = t /\ k = m
            /\ s < t /\ f.sections[s].relationship_data_size > 0 => entry.record_index > 0

\* record_count is `for all sections combined' (DB2Format.hpp:156), the offset
\* map has one entry for each record, and each table as many entries as the
\* section's header says; a record has a value for each field.
IsFile(f) ==
    LET n == Len(f.sections)
    IN  /\ f \in FileShape
        /\ Len(f.starts) = n + 1
        /\ f.starts[1] = 0
        /\ f.starts[n + 1] = f.record_count
        /\ Len(f.copyStarts) = n + 1
        /\ f.copyStarts[1] = 0
        /\ \A s \in Sections(f) :
            LET sec == f.sections[s]
            IN  /\ f.starts[s + 1] = f.starts[s] + sec.record_count
                /\ f.copyStarts[s + 1] = f.copyStarts[s] + sec.copy_table_count
                /\ sec.offset_map_id_count = IF HasOffsetMap(f) THEN sec.record_count ELSE 0
                /\ sec.id_list_size = 4 * Len(sec.idList)
                /\ sec.copy_table_count = Len(sec.copyTable)
                /\ sec.offset_map_id_count = Len(sec.offsetMap)
                /\ sec.offset_map_id_count = Len(sec.offsetMapIds)
                /\ IsRelationBlock(sec)
                /\ Len(sec.rows) = sec.record_count /\ Len(sec.texts) = sec.record_count
                /\ \A k \in 1..sec.record_count : Len(sec.rows[k]) = f.field_count
        /\ Len(f.common) = f.field_count /\ Len(f.default_value) = f.field_count
        /\ AreRelations(f)
==============================================================================
