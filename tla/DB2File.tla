------------------------------- MODULE DB2File -------------------------------
(***************************************************************************)
(* DB2File<F> for the modern formats (WDC3, WDC4, WDC5): open() and load() *)
(* of DB2File.hpp, with the loadSection() of both loaders.                 *)
(*                                                                         *)
(* load() walks the sections of the file.  In each it moves the source     *)
(* behind the records and strings and then reads five tables from wherever *)
(* the previous read left the source.  Every table of the structure grows  *)
(* by the section's entries before they are read, and every read may throw:*)
(* each read is a step of its own, `Outcome' says which ways it can end.   *)
(* A CASC source counts encrypted bytes it has given nothing for; whether  *)
(* the library has moved over them is its own affair (MovesOver).          *)
(*                                                                         *)
(* Calls are made one after the other by one thread (the class has no      *)
(* lock); a caller may call open() again while no loader exists, and       *)
(* load() again after a load() that threw or ended.                        *)
(***************************************************************************)
EXTENDS DB2Format

CONSTANTS
    Files,       \* the files a run opens
    MaxOpens,    \* bound: calls of open()
    MaxLoads,    \* bound: calls of load()
    MaxFaults,   \* bound: reads that throw
    MaxStale,    \* bound: the count an unwritten relation header can hold
    MovesOver    \* does casclib move over bytes it has no key for

ASSUME FilesAssumption == \A f \in Files : IsFile(f)

ASSUME BoundsAssumption ==
    MaxOpens \in Nat /\ MaxLoads \in Nat /\ MaxFaults \in Nat /\ MaxStale \in Nat

ASSUME LibraryAssumption == MovesOver \in BOOLEAN

\* Bound: bytes of records, below which no uint32_t product of the loaders wraps.
MaxBytes == 2147483647

ASSUME BytesAssumption == \A f \in Files : f.record_count * f.record_size <= MaxBytes

VARIABLES
    file,            \* the opened file: _file_source, _structure.header, _schema
    pc,              \* where the running call is
    opens, loads, faults,
    cursor,          \* where the storage under _file_source reads next
    sec,             \* the section load() is at, 1-based (i + 1)
    commonData,      \* _structure.commonData: per field, a map from ids to values
    sectionOffsets,  \* DB2LoaderStandard::_section_offsets
    idList, copyTable, offsetMap, offsetMapIds, relationships, relationshipMap

tableVars == <<idList, copyTable, offsetMap, offsetMapIds, relationships, relationshipMap>>

vars == <<file, pc, opens, loads, faults, cursor, sec, commonData, sectionOffsets, tableVars>>

Section == file.sections[sec]

\* A read of n entries returns, or throws while faults are left.
Outcome(n) == IF n > 0 /\ faults < MaxFaults THEN {"read", "throw"} ELSE {"read"}

\* How far the storage has moved over the bytes it was asked for.
Moved(bytes) == IF Section.readable \/ MovesOver THEN bytes ELSE 0

\* Go on at `next' behind the bytes read, or leave load() by the exception.
Continue(outcome, next, bytes) ==
    IF outcome = "read"
    THEN pc' = next /\ cursor' = cursor + Moved(bytes) /\ UNCHANGED faults
    ELSE pc' = "aborted" /\ UNCHANGED cursor /\ faults' = faults + 1

\* What resize() and then read() append to a table of the structure.
Appended(outcome, table, n) ==
    IF outcome = "read" THEN Taken(file, sec, table, cursor, n)
    ELSE [k \in 1..n |-> Filled(table, 0)]

------------------------------------------------------------------------------
\* The constructor.
Init ==
    /\ file \in Files
    /\ pc = "closed"
    /\ opens = 0 /\ loads = 0 /\ faults = 0
    /\ cursor = 0 /\ sec = 0
    /\ commonData = << >>
    /\ sectionOffsets = << >>
    /\ idList = << >> /\ copyTable = << >> /\ offsetMap = << >>
    /\ offsetMapIds = << >> /\ relationships = << >>
    /\ relationshipMap = [r \in {} |-> 0]

\* The checks of open() that throw.
Rejected(f) ==
    \/ f.signature = "other"
    \/ f.lookup_column_count > 1
    \/ Len(f.fields) # f.field_count

\* commonData[x]: the last value of the common block wins.
CommonMap(pairs) ==
    [id \in {pairs[k].record_id : k \in 1..Len(pairs)} |->
        LET last == CHOOSE k \in 1..Len(pairs) :
                        /\ pairs[k].record_id = id
                        /\ \A j \in k+1..Len(pairs) : pairs[j].record_id # id
        IN  pairs[last].value]

Open ==
    /\ pc = "closed" /\ opens < MaxOpens
    /\ opens' = opens + 1
    /\ \E outcome \in Outcome(1) :
        /\ faults' = IF outcome = "throw" THEN faults + 1 ELSE faults
        /\ IF outcome = "throw" \/ Rejected(file)
           THEN UNCHANGED <<pc, commonData>>
           ELSE /\ pc' = "opened"
                /\ commonData' = [x \in 1..file.field_count |->
                                    IF file.fields[x].storage = "CommonData"
                                    THEN CommonMap(file.common[x])
                                    ELSE [id \in {} |-> 0]]
    /\ UNCHANGED <<file, loads, cursor, sec, sectionOffsets, tableVars>>

Load ==
    /\ pc \in {"opened", "aborted", "loaded"} /\ loads < MaxLoads
    /\ loads' = loads + 1
    /\ pc' = "section" /\ sec' = 1
    /\ UNCHANGED <<file, opens, faults, cursor, commonData, sectionOffsets, tableVars>>

\* The id list of a section must be there exactly when the schema wants one.
UnexpectedIdList(f, s) ==
    IF f.useIdList THEN s.id_list_size # s.record_count * 4 ELSE s.id_list_size > 0

\* Mutant: the check left out.
NoIdListCheck == FALSE

IdListRefused == UnexpectedIdList(file, Section)

\* DB2LoaderStandard::loadSection keeps running ends; only the record index
\* and the entry count of them are used by operator[].
LastEnd == IF sectionOffsets = << >> THEN 0 ELSE sectionOffsets[Len(sectionOffsets)]

\* The head of the loop body: the checks, setPos and loadSection.
EnterSection ==
    /\ pc = "section" /\ sec <= Len(file.sections)
    /\ \E outcome \in Outcome(1) :
        IF outcome = "throw" \/ IdListRefused
        THEN /\ pc' = "aborted"
             /\ faults' = IF outcome = "throw" THEN faults + 1 ELSE faults
             /\ UNCHANGED <<cursor, sectionOffsets>>
        ELSE /\ pc' = "idList"
             /\ UNCHANGED faults
             /\ IF HasOffsetMap(file)
                THEN cursor' = Section.offset_records_end /\ UNCHANGED sectionOffsets
                ELSE /\ cursor' = Section.file_offset + file.record_size * Section.record_count
                                  + Section.string_table_size
                     /\ sectionOffsets' = Append(sectionOffsets, LastEnd + Section.record_count)
    /\ UNCHANGED <<file, opens, loads, sec, commonData, tableVars>>

ReadIdList ==
    /\ pc = "idList"
    /\ LET n == Section.id_list_size \div 4
       IN  \E outcome \in Outcome(n) :
            /\ idList' = idList \o Appended(outcome, "idList", n)
            /\ Continue(outcome, "copyTable", n * EntrySize.idList)
    /\ UNCHANGED <<file, opens, loads, sec, commonData, sectionOffsets,
                   copyTable, offsetMap, offsetMapIds, relationships, relationshipMap>>

ReadCopyTable ==
    /\ pc = "copyTable"
    /\ LET n == Section.copy_table_count
       IN  \E outcome \in Outcome(n) :
            /\ copyTable' = copyTable \o Appended(outcome, "copyTable", n)
            /\ Continue(outcome, "offsetMap", n * EntrySize.copyTable)
    /\ UNCHANGED <<file, opens, loads, sec, commonData, sectionOffsets,
                   idList, offsetMap, offsetMapIds, relationships, relationshipMap>>

ReadOffsetMap ==
    /\ pc = "offsetMap"
    /\ LET n == Section.offset_map_id_count
       IN  \E outcome \in Outcome(n) :
            /\ offsetMap' = offsetMap \o Appended(outcome, "offsetMap", n)
            /\ Continue(outcome, "firstKeys", n * EntrySize.offsetMap)
    /\ UNCHANGED <<file, opens, loads, sec, commonData, sectionOffsets,
                   idList, copyTable, offsetMapIds, relationships, relationshipMap>>

\* The offset map ids and the relations follow in the order of the header flag.
IdsTurn == IF HasRelationshipData(file) THEN "firstKeys" ELSE "lastKeys"

RelationsTurn == IF HasRelationshipData(file) THEN "lastKeys" ELSE "firstKeys"

AfterKeys == IF pc = "firstKeys" THEN "lastKeys" ELSE "section"

\* i++ of the section loop, behind the second of the two.
Advance == sec' = IF pc' = "section" THEN sec + 1 ELSE sec

LoadOffsetMapIds ==
    /\ pc \in {"firstKeys", "lastKeys"} /\ pc = IdsTurn
    /\ LET n == Section.offset_map_id_count
       IN  \E outcome \in Outcome(n) :
            /\ offsetMapIds' = offsetMapIds \o Appended(outcome, "offsetMapIds", n)
            /\ Continue(outcome, AfterKeys, n * EntrySize.offsetMapIds)
    /\ Advance
    /\ UNCHANGED <<file, opens, loads, commonData, sectionOffsets,
                   idList, copyTable, offsetMap, relationships, relationshipMap>>

\* The count in a relation header.  relation_header has no initializer: a read
\* that writes nothing leaves any count in it.
Counts ==
    IF ~Section.readable THEN 0..MaxStale
    ELSE IF cursor = TablePos(file, sec).relationHeader THEN {Len(Section.relationships)}
    ELSE {MaxStale}

LoadRelationships ==
    /\ pc \in {"firstKeys", "lastKeys"} /\ pc = RelationsTurn
    /\ IF Section.relationship_data_size = 0
       THEN /\ pc' = AfterKeys
            /\ UNCHANGED <<cursor, faults, relationships>>
       ELSE \/ /\ Outcome(1) # {"read"}            \* the header read throws
               /\ Continue("throw", AfterKeys, 0)
               /\ UNCHANGED relationships
            \/ \E n \in Counts : \E outcome \in Outcome(n) :
                /\ relationships' = relationships \o
                        IF outcome = "read"
                        THEN Taken(file, sec, "relationships", cursor + RelationHeaderSize, n)
                        ELSE [k \in 1..n |-> Filled("relationships", 0)]
                /\ Continue(outcome, AfterKeys,
                            RelationHeaderSize + n * EntrySize.relationships)
    /\ Advance
    /\ UNCHANGED <<file, opens, loads, commonData, sectionOffsets,
                   idList, copyTable, offsetMap, offsetMapIds, relationshipMap>>

\* emplace() of each relation in turn: the first entry of a record stays.
Emplaced(map, entries) ==
    [r \in DOMAIN map \union {entries[k].record_index : k \in 1..Len(entries)} |->
        IF r \in DOMAIN map THEN map[r]
        ELSE LET first == CHOOSE k \in 1..Len(entries) :
                            /\ entries[k].record_index = r
                            /\ \A j \in 1..k-1 : entries[j].record_index # r
             IN  entries[first].foreign_id]

\* Behind the loop: the relation map is filled, the scratch table emptied.
FinishLoad ==
    /\ pc = "section" /\ sec > Len(file.sections)
    /\ pc' = "loaded"
    /\ relationshipMap' = Emplaced(relationshipMap, relationships)
    /\ relationships' = << >>
    /\ UNCHANGED <<file, opens, loads, faults, cursor, sec, commonData, sectionOffsets,
                   idList, copyTable, offsetMap, offsetMapIds>>

\* The steps of a load() under way.
LoadStep ==
    \/ EnterSection \/ ReadIdList \/ ReadCopyTable \/ ReadOffsetMap
    \/ LoadOffsetMapIds \/ LoadRelationships \/ FinishLoad

FileNext == Open \/ Load \/ LoadStep

Spec == Init /\ [][FileNext]_vars
------------------------------------------------------------------------------
\* pc inside the body of the section loop.
Body == {"idList", "copyTable", "offsetMap", "firstKeys", "lastKeys"}

StateOK ==
    /\ file \in Files
    /\ opens \in 0..MaxOpens /\ loads \in 0..MaxLoads /\ faults \in 0..MaxFaults
    /\ cursor \in Nat
    /\ sec \in 0..Len(file.sections) + 1
    /\ pc = "section" => sec \in 1..Len(file.sections) + 1
    /\ pc \in Body => sec \in Sections(file)
    /\ sectionOffsets \in Seq(Nat)
    /\ idList \in Seq(Nat)
    /\ copyTable \in Seq(CopyEntries)
    /\ offsetMap \in Seq(OffsetEntries)
    /\ offsetMapIds \in Seq(Nat)
    /\ relationships \in Seq(RelationEntries)
    /\ DOMAIN relationshipMap \subseteq Nat
    /\ \A r \in DOMAIN relationshipMap : relationshipMap[r] \in Nat

Places == {"closed", "opened", "section", "loaded", "aborted"} \union Body

(* The state of the object is of its types: every vector of the structure  *)
(* holds entries of its table (DB2File.hpp:104-122).                       *)
TypeOK == StateOK /\ pc \in Places

(* The assertion at the end of load() (DB2File.hpp:771-775): the id list   *)
(* has one id for each record the header counts.                           *)
IdListMatchesHeader ==
    pc = "loaded" /\ file.useIdList => Len(idList) = file.record_count

\* Why it holds when load() is called once: the list grows by the records of
\* each section it has passed.
CountedIds ==
    /\ pc \in {"closed", "opened"} => loads = 0 /\ idList = << >>
    /\ pc \notin {"closed", "opened"} => loads > 0
    /\ pc = "idList" /\ file.useIdList =>
            Section.id_list_size = Section.record_count * EntrySize.idList
    /\ pc \in {"section", "idList"} /\ file.useIdList => Len(idList) = file.starts[sec]
    /\ pc \in Body \ {"idList"} /\ file.useIdList => Len(idList) = file.starts[sec + 1]

(* load() has read each table from where it lies: the entries of readable  *)
(* section s stand behind those of the sections before it, an unreadable   *)
(* section has left zeros, and every relation that could be read is in the *)
(* map.  A wrong entry size, offset or order of the reads in               *)
(* DB2File.hpp:703-776 breaks it in the next table or the next section.    *)
TablesLoaded ==
    pc = "loaded" =>
        \A s \in Sections(file) :
            LET from == file.sections[s]
                base == file.starts[s]
            IN  /\ \A k \in 1..Len(from.idList) :
                     idList[base + k] = IF from.readable THEN from.idList[k] ELSE 0
                /\ from.readable =>
                     /\ \A k \in 1..Len(from.copyTable) :
                            copyTable[file.copyStarts[s] + k] = from.copyTable[k]
                     /\ \A k \in 1..Len(from.offsetMap) :
                            /\ offsetMap[base + k] = from.offsetMap[k]
                            /\ offsetMapIds[base + k] = from.offsetMapIds[k]
                     /\ \A k \in 1..Len(from.relationships) :
                            LET entry == from.relationships[k]
                            IN  /\ entry.record_index \in DOMAIN relationshipMap
                                /\ relationshipMap[entry.record_index] = entry.foreign_id
==============================================================================
