------------------------------ MODULE DB2Rows ------------------------------
(***************************************************************************)
(* operator[] of a loaded DB2File: DB2LoaderStandard and DB2LoaderSparse.  *)
(*                                                                         *)
(* A call resolves the index (a copy names another record by id), walks    *)
(* the section headers to the section of the record, reads the record into *)
(* the loader's one buffer and decodes it.  The buffer outlives the call,  *)
(* and the relation map grows by a default entry when a record has none,   *)
(* although operator[] is const.  Each read follows a setPos of its own, so *)
(* the cursor load() left behind is not tracked any further.               *)
(***************************************************************************)
EXTENDS DB2File

VARIABLES
    index,        \* the argument of the running call
    lookup,       \* lookup_index
    replacement,  \* replacement_id, or NoId
    section, rest,  \* getSectionIndex: section (1-based) and record_index
    buffer,       \* DB2LoaderStandard::_buffer, DB2LoaderSparse::_buffer
    answer        \* what the last call returned or threw

rowVars == <<index, lookup, replacement, section, rest, buffer, answer>>

allVars == <<vars, rowVars>>

NoId == -1

\* pc while operator[] runs.
Reading == {"lookup", "find", "read", "decode"}

ready == pc \in {"loaded"} \union Reading

pending == IF pc \in Reading THEN index ELSE -1

Table == INSTANCE DB2Table

RowsInit ==
    /\ Init
    /\ index = 0 /\ lookup = 0 /\ replacement = NoId
    /\ section = 0 /\ rest = 0
    /\ buffer = Blank(file)
    /\ answer = Table!NoAnswer

\* DB2Loader::size.
Size == file.record_count + Len(copyTable)

\* Every exception leaves operator[] with the table as usable as before.
Throws(why) == answer' = Table!Thrown(index, why) /\ pc' = "loaded"

SourceThrows ==
    /\ faults < MaxFaults
    /\ faults' = faults + 1
    /\ Throws("file source")

Ask(i) ==
    /\ pc = "loaded" /\ i < Size
    /\ pc' = "lookup" /\ index' = i
    /\ answer' = Table!NoAnswer
    /\ UNCHANGED <<file, opens, loads, faults, cursor, sec, commonData, sectionOffsets, tableVars,
                   lookup, replacement, section, rest, buffer>>

\* std::ranges::find in the id list: 0-based index of the first equal id.
FoundAt(ids, id) ==
    CHOOSE k \in 1..Len(ids) : ids[k] = id /\ \A j \in 1..k-1 : ids[j] # id

\* getSectionIndex starts at the first section with record_index = lookup_index.
StartFind(i) == lookup' = i /\ rest' = i /\ section' = 1 /\ pc' = "find"

Lookup ==
    /\ pc = "lookup"
    /\ IF index < file.record_count
       THEN StartFind(index) /\ replacement' = NoId /\ UNCHANGED answer
       ELSE LET entry == copyTable[index - file.record_count + 1]
            IN  IF \E k \in 1..Len(idList) : idList[k] = entry.id_of_copied_row
                THEN /\ StartFind(FoundAt(idList, entry.id_of_copied_row) - 1)
                     /\ replacement' = entry.id_of_new_row
                     /\ UNCHANGED answer
                ELSE Throws("copy id") /\ UNCHANGED <<lookup, rest, section, replacement>>
    /\ UNCHANGED <<file, opens, loads, faults, cursor, sec, commonData, sectionOffsets, tableVars,
                   index, buffer>>

\* How many records getSectionIndex counts for a section, by loader.
SectionSize(s) ==
    IF HasOffsetMap(file) THEN file.sections[s].offset_map_id_count
    ELSE file.sections[s].record_count

\* Mutant: off by one at the end of a section.
WithinOrAt(s, r) == r <= SectionSize(s)

Within(s, r) == r < SectionSize(s)

\* Mutant: i++ left out where a section has nothing to take off.
SkipCounted(s) == IF SectionSize(s) = 0 THEN s ELSE s + 1

SectionBehind(s) == s + 1

FindSection ==
    /\ pc = "find"
    /\ IF section <= Len(file.sections) /\ ~Within(section, rest)
       THEN /\ rest' = rest - SectionSize(section)
            /\ section' = SectionBehind(section)
            /\ UNCHANGED pc
       ELSE pc' = "read" /\ UNCHANGED <<rest, section>>
    /\ UNCHANGED <<file, opens, loads, faults, cursor, sec, commonData, sectionOffsets, tableVars,
                   index, lookup, replacement, buffer, answer>>

Keyed == file.sections[section].tact_key_hash # 0

\* The record's index inside its section, from the running end of the section.
RelativeIndex ==
    lookup - (sectionOffsets[section] - file.sections[section].record_count)

RecordStart ==
    IF HasOffsetMap(file) THEN offsetMap[lookup + 1].offset
    ELSE file.sections[section].file_offset + RelativeIndex * file.record_size

\* The sparse loader does not read a keyed record of no bytes at all.
NoBytes == HasOffsetMap(file) /\ Keyed /\ offsetMap[lookup + 1].size = 0

\* Mutant: the buffer keeps the record read before.
Kept(b) == b

\* std::fill of the buffer before the read.
Cleared(b) == [x \in DOMAIN b |-> 0]

ReadRecord ==
    /\ pc = "read"
    /\ \/ /\ pc' = "decode"
          /\ buffer' \in IF NoBytes THEN {Cleared(buffer)} ELSE Got(file, RecordStart, Cleared(buffer))
          /\ UNCHANGED <<faults, answer>>
       \/ /\ ~NoBytes
          /\ SourceThrows
          /\ buffer' = Cleared(buffer)
    /\ UNCHANGED <<file, opens, loads, cursor, sec, commonData, sectionOffsets, tableVars,
                   index, lookup, replacement, section, rest>>

------------------------------------------------------------------------------
\* Mutant: replacement_id.value() without has_value().
UncheckedId == replacement

\* id_list_use_id.
UseId == IF replacement # NoId THEN replacement ELSE idList[lookup + 1]

AllZero(b) == \A x \in DOMAIN b : b[x] = 0

\* Nothing is decoded of a record whose id is zero in a keyed section (standard
\* loader only), nor of one whose bytes are all zero there.
Encrypted ==
    /\ Keyed
    /\ \/ ~HasOffsetMap(file) /\ file.useIdList /\ UseId = 0
       \/ AllZero(buffer)

EncryptionState == IF Keyed THEN "DECRYPTED" ELSE "NONE"

\* An inline id field of a copy holds the new id.
InlineId(x) == IF replacement # NoId THEN replacement ELSE buffer[x]

\* record_id when the field loop reaches field x; 0 before an id was seen.
RecordIdAt(x) ==
    IF file.useIdList THEN UseId
    ELSE LET seen == {y \in 1..x-1 : file.fields[y].isId}
         IN  IF seen = {} THEN 0 ELSE InlineId(CHOOSE y \in seen : TRUE)

IsCommon(x) == file.fields[x].storage = "CommonData"

\* getRecordFieldValue throws for common data without a record id, and for any
\* in a sparse table.
CommonThrows ==
    \E x \in 1..file.field_count : IsCommon(x) /\ (HasOffsetMap(file) \/ RecordIdAt(x) = 0)

CommonValueOf(x) ==
    IF RecordIdAt(x) \in DOMAIN commonData[x] THEN commonData[x][RecordIdAt(x)]
    ELSE file.default_value[x]

\* A string of the standard loader lies at a place computed from the record's;
\* the reference to it is a count from the field, moved by the records of the
\* later sections.  The picture's references are counted from the record.
StringPos(ref) ==
    (RecordStart + ref) - (file.record_count - file.sections[1].record_count) * file.record_size

StringOf(x) ==
    IF HasOffsetMap(file) THEN buffer[x] ELSE TextAt(file, StringPos(buffer[x]))

Value(x) ==
    IF file.fields[x].isId THEN InlineId(x)
    ELSE IF IsCommon(x) THEN CommonValueOf(x)
    ELSE IF file.fields[x].type = "string" THEN StringOf(x)
    ELSE buffer[x]

HasString == \E x \in 1..file.field_count : file.fields[x].type = "string"

\* The relation column is filled only when the map is not empty.
WantsRelation == file.relation /\ ~HasOffsetMap(file) /\ DOMAIN relationshipMap # {}

\* unordered_map::operator[] inserts a zero for a record without an entry.
WithDefault(map, r) ==
    [q \in DOMAIN map \union {r} |-> IF q \in DOMAIN map THEN map[q] ELSE 0]

RecordValues(map) ==
    (IF file.useIdList THEN <<UseId>> ELSE << >>)
    \o [x \in 1..file.field_count |-> Value(x)]
    \o (IF WantsRelation THEN <<map[lookup]>> ELSE << >>)

Returns(r) == answer' = r /\ pc' = "loaded"

Decode ==
    /\ pc = "decode"
    /\ \/ /\ Encrypted
          /\ Returns(Table!Record(index, "ENCRYPTED", << >>))
          /\ UNCHANGED <<faults, relationshipMap>>
       \/ /\ ~Encrypted /\ CommonThrows
          /\ Throws("common data")
          /\ UNCHANGED <<faults, relationshipMap>>
       \/ /\ ~Encrypted /\ ~CommonThrows /\ HasString /\ ~HasOffsetMap(file)
          /\ SourceThrows                         \* in readCurrentString
          /\ UNCHANGED relationshipMap
       \/ /\ ~Encrypted /\ ~CommonThrows /\ WantsRelation /\ HasRelationshipData(file)
          /\ Throws("relation ids")
          /\ UNCHANGED <<faults, relationshipMap>>
       \/ /\ ~Encrypted /\ ~CommonThrows /\ ~(WantsRelation /\ HasRelationshipData(file))
          /\ relationshipMap' = IF WantsRelation THEN WithDefault(relationshipMap, lookup)
                                ELSE relationshipMap
          /\ Returns(Table!Record(index, EncryptionState, RecordValues(relationshipMap')))
          /\ UNCHANGED faults
    /\ UNCHANGED <<file, opens, loads, cursor, sec, commonData, sectionOffsets,
                   idList, copyTable, offsetMap, offsetMapIds, relationships,
                   index, lookup, replacement, section, rest, buffer>>

------------------------------------------------------------------------------
\* The files open() and load() accept are tables the promise is made for.
Accepted(f) ==
    ~Rejected(f) /\ \A s \in Sections(f) : ~UnexpectedIdList(f, f.sections[s])

FilesAreTables == \A f \in Files : Accepted(f) => Table!IsTable(f)

ReadStep == Lookup \/ FindSection \/ ReadRecord \/ Decode

RowsNext ==
    \/ FileNext /\ UNCHANGED rowVars
    \/ \E i \in 0..Size - 1 : Ask(i)
    \/ ReadStep

\* A call runs to its end: operator[] waits for nothing.
RowsSpec == RowsInit /\ [][RowsNext]_allVars /\ WF_allVars(ReadStep)
------------------------------------------------------------------------------
\* What operator[] can return or throw.
IsAnswer(a) ==
    \/ a = Table!NoAnswer
    \/ a \in [kind : {"throw"}, index : Nat,
             why : {"file source", "copy id", "common data", "relation ids"}]
    \/ a \in [kind : {"record"}, index : Nat, state : {"NONE", "ENCRYPTED", "DECRYPTED"},
             fields : Seq(Nat)]

(* The state of a table being read is of its types                         *)
(* (DB2File.hpp:133-440, 444-619).                                         *)
RowsTypeOK ==
    /\ StateOK
    /\ pc \in Places \union Reading
    /\ index \in Nat /\ lookup \in Nat
    /\ replacement \in Nat \union {NoId}
    /\ section \in 0..Len(file.sections) + 1
    /\ rest \in Nat
    /\ buffer \in [1..file.field_count -> Nat]
    /\ IsAnswer(answer)

(* getSectionIndex returns a section that exists, and the record is one of *)
(* that section's: the two unchecked accesses _section_offsets[i] and      *)
(* sectionHeaders[i] of DB2File.hpp:187-196, and the record read at 200,   *)
(* stay inside what load() filled.                                         *)
SectionInRange ==
    pc \in {"read", "decode"} =>
        /\ section \in Sections(file)
        /\ lookup - file.starts[section] \in 0..file.sections[section].record_count - 1
        /\ ~HasOffsetMap(file) => RelativeIndex = lookup - file.starts[section]

(* A loaded and read table is the table its users are promised: whatever   *)
(* operator[] returns or throws is what the file has at that index         *)
(* (DB2File.hpp:172-334, 459-572).                                         *)
ImplementsTable == Table!Safe

(* A call of operator[] comes back: the walk over the sections             *)
(* (DB2File.hpp:414-426) ends, also where sections have no records.        *)
CallsReturn == (pc \in Reading) ~> (pc = "loaded")

(* Every index below size() has a record: the loop of README.md:63 over a  *)
(* table is answered for each copy too.                                    *)
CopiesAnswered == answer.kind = "throw" => answer.why # "copy id"

(* The assertion at the end of operator[] (DB2File.hpp:331): a decoded     *)
(* record has a value for each field of the schema.                        *)
Columns ==
    (IF file.useIdList THEN 1 ELSE 0) + Len(file.fields) + (IF file.relation THEN 1 ELSE 0)

RecordsComplete ==
    answer.kind = "record" =>
        answer.state = "ENCRYPTED" \/ Len(answer.fields) = Columns
==============================================================================
