--------------------------- MODULE DB2FileProofs ---------------------------
(***************************************************************************)
(* Theorems about open() and load(), for every set of well-formed files    *)
(* and every bound on calls and faults.                                    *)
(***************************************************************************)
EXTENDS DB2File, LeastElement, SequenceTheorems, WellFoundedInduction, TLAPS

------------------------------------------------------------------------------
(* Lemmas about the picture of a file.                                     *)

LEMMA FileFacts ==
    ASSUME NEW f \in Files
    PROVE  /\ f \in FileShape
           /\ Len(f.sections) \in Nat
           /\ f.starts \in Seq(Nat)
           /\ Len(f.starts) = Len(f.sections) + 1
           /\ f.starts[1] = 0
           /\ f.starts[Len(f.sections) + 1] = f.record_count
           /\ \A s \in Sections(f) : f.starts[s + 1] = f.starts[s] + f.sections[s].record_count
           /\ f.record_count \in Nat /\ f.record_size \in Nat /\ f.useIdList \in BOOLEAN
<1>1. IsFile(f)
  BY FilesAssumption
<1>2. f \in FileShape
  BY <1>1 DEF IsFile
<1>3. /\ f.sections \in Seq(SectionShape) /\ f.starts \in Seq(Nat)
      /\ f.record_count \in Nat /\ f.record_size \in Nat /\ f.useIdList \in BOOLEAN
  BY <1>2 DEF FileShape
<1> QED
  BY <1>1, <1>2, <1>3 DEF IsFile

LEMMA SectionFacts ==
    ASSUME NEW f \in Files, NEW s \in Sections(f)
    PROVE  LET head == f.sections[s]
           IN  /\ head \in SectionShape
               /\ head.file_offset \in Nat /\ head.record_count \in Nat
               /\ head.string_table_size \in Nat /\ head.offset_records_end \in Nat
               /\ head.id_list_size \in Nat /\ head.relationship_data_size \in Nat
               /\ head.offset_map_id_count \in Nat /\ head.copy_table_count \in Nat
               /\ head.idList \in Seq(Nat) /\ head.copyTable \in Seq(CopyEntries)
               /\ head.offsetMap \in Seq(OffsetEntries) /\ head.offsetMapIds \in Seq(Nat)
               /\ head.relationships \in Seq(RelationEntries)
<1>1. f.sections \in Seq(SectionShape)
  BY FileFacts DEF FileShape
<1>2. f.sections[s] \in SectionShape
  BY <1>1 DEF Sections
<1> QED
  BY <1>2 DEF SectionShape

\* The entries of the tables of a structure, by the name of the table.
EntryOf ==
    [idList |-> Nat, copyTable |-> CopyEntries, offsetMap |-> OffsetEntries,
     offsetMapIds |-> Nat, relationships |-> RelationEntries]

LEMMA FilledFacts ==
    ASSUME NEW table \in Tables, NEW v \in Nat
    PROVE  Filled(table, v) \in EntryOf[table]
<1>1. CASE table \in {"idList", "offsetMapIds"}
  BY <1>1 DEF Filled, EntryOf
<1>2. CASE table = "copyTable"
  BY <1>2 DEF Filled, EntryOf, CopyEntries
<1>3. CASE table = "offsetMap"
  BY <1>3 DEF Filled, EntryOf, OffsetEntries
<1>4. CASE table = "relationships"
  BY <1>4 DEF Filled, EntryOf, RelationEntries
<1> QED
  BY <1>1, <1>2, <1>3, <1>4 DEF Tables

LEMMA TableFacts ==
    ASSUME NEW f \in Files, NEW s \in Sections(f), NEW table \in Tables
    PROVE  /\ f.sections[s][table] \in Seq(EntryOf[table])
           /\ Len(f.sections[s][table]) \in Nat
<1> DEFINE head == f.sections[s]
<1>1. head[table] \in Seq(EntryOf[table])
  <2> HIDE DEF head
  <2>1. /\ head.idList \in Seq(Nat) /\ head.copyTable \in Seq(CopyEntries)
        /\ head.offsetMap \in Seq(OffsetEntries) /\ head.offsetMapIds \in Seq(Nat)
        /\ head.relationships \in Seq(RelationEntries)
    BY SectionFacts DEF head
  <2>2. CASE table = "idList"        BY <2>1, <2>2 DEF EntryOf
  <2>3. CASE table = "copyTable"     BY <2>1, <2>3 DEF EntryOf
  <2>4. CASE table = "offsetMap"     BY <2>1, <2>4 DEF EntryOf
  <2>5. CASE table = "offsetMapIds"  BY <2>1, <2>5 DEF EntryOf
  <2>6. CASE table = "relationships" BY <2>1, <2>6 DEF EntryOf
  <2> QED
    BY <2>2, <2>3, <2>4, <2>5, <2>6 DEF Tables
<1> QED
  BY <1>1, LenProperties

(* A read of n entries yields n entries of the table, wherever it starts.  *)
LEMMA TakenFacts ==
    ASSUME NEW f \in Files, NEW s \in Sections(f), NEW table \in Tables, NEW at, NEW n \in Nat
    PROVE  /\ Taken(f, s, table, at, n) \in Seq(EntryOf[table])
           /\ Len(Taken(f, s, table, at, n)) = n
<1> DEFINE head == f.sections[s]
<1>1. head[table] \in Seq(EntryOf[table])
  BY TableFacts
<1>2. \A k \in 1..n :
        (IF ~head.readable THEN Filled(table, 0)
         ELSE IF at = TablePos(f, s)[table] /\ k <= Len(head[table]) THEN head[table][k]
         ELSE Filled(table, Junk)) \in EntryOf[table]
  <2> SUFFICES ASSUME NEW k \in 1..n, k <= Len(head[table])
               PROVE  head[table][k] \in EntryOf[table]
    BY FilledFacts DEF Junk
  <2> HIDE DEF head
  <2>1. k \in 1..Len(head[table])
    BY <1>1
  <2> QED
    BY <1>1, <2>1, ElementOfSeq
<1> QED
  BY <1>2 DEF Taken

LEMMA AppendedFacts ==
    ASSUME file \in Files, sec \in Sections(file),
           NEW outcome, NEW table \in Tables, NEW n \in Nat
    PROVE  /\ Appended(outcome, table, n) \in Seq(EntryOf[table])
           /\ Len(Appended(outcome, table, n)) = n
<1>1. Taken(file, sec, table, cursor, n) \in Seq(EntryOf[table])
      /\ Len(Taken(file, sec, table, cursor, n)) = n
  BY TakenFacts
<1>2. Filled(table, 0) \in EntryOf[table]
  BY FilledFacts
<1>3. /\ [k \in 1..n |-> Filled(table, 0)] \in Seq(EntryOf[table])
      /\ Len([k \in 1..n |-> Filled(table, 0)]) = n
  BY <1>2
<1> QED
  BY <1>1, <1>3 DEF Appended

LEMMA OutcomeFacts ==
    ASSUME NEW n, faults \in 0..MaxFaults, NEW outcome \in Outcome(n)
    PROVE  /\ outcome \in {"read", "throw"}
           /\ outcome = "throw" => faults + 1 \in 0..MaxFaults /\ n > 0
BY BoundsAssumption DEF Outcome

(* However a read ends, the call is at a known place with a sane cursor.   *)
LEMMA ContinueFacts ==
    ASSUME NEW n, faults \in 0..MaxFaults, NEW outcome \in Outcome(n),
           cursor \in Nat, NEW next, NEW bytes \in Nat, Continue(outcome, next, bytes)
    PROVE  /\ faults' \in 0..MaxFaults
           /\ cursor' \in Nat
           /\ pc' \in {next, "aborted"}
BY OutcomeFacts DEF Continue, Moved

LEMMA CountsFacts ==
    ASSUME file \in Files, sec \in Sections(file)
    PROVE  Counts \subseteq Nat
<1>1. Section.relationships \in Seq(RelationEntries)
  BY SectionFacts DEF Section
<1>2. Len(Section.relationships) \in Nat
  BY <1>1, LenProperties
<1> QED
  BY <1>2, BoundsAssumption DEF Counts

(* The relation map stays a map from record indexes to ids.                *)
LEMMA EmplacedFacts ==
    ASSUME NEW map, DOMAIN map \subseteq Nat, \A r \in DOMAIN map : map[r] \in Nat,
           NEW entries \in Seq(RelationEntries)
    PROVE  /\ DOMAIN Emplaced(map, entries) \subseteq Nat
           /\ \A r \in DOMAIN Emplaced(map, entries) : Emplaced(map, entries)[r] \in Nat
<1>1. \A k \in 1..Len(entries) :
        entries[k].record_index \in Nat /\ entries[k].foreign_id \in Nat
  <2> TAKE k \in 1..Len(entries)
  <2>1. entries[k] \in RelationEntries
    BY ElementOfSeq
  <2> QED
    BY <2>1 DEF RelationEntries
<1>2. DOMAIN Emplaced(map, entries)
        = DOMAIN map \union {entries[k].record_index : k \in 1..Len(entries)}
  BY DEF Emplaced
<1>3. ASSUME NEW r \in {entries[k].record_index : k \in 1..Len(entries)}
      PROVE  LET first == CHOOSE k \in 1..Len(entries) :
                            /\ entries[k].record_index = r
                            /\ \A j \in 1..k-1 : entries[j].record_index # r
             IN  first \in 1..Len(entries)
  <2> DEFINE hits == {k \in 1..Len(entries) : entries[k].record_index = r}
  <2>1. hits # {} /\ hits \subseteq Nat
    BY <1>3
  <2>2. PICK k \in hits : \A j \in hits : k <= j
    BY <2>1, LeastNatural
  <2>3. \A j \in 1..k-1 : entries[j].record_index # r
    BY <2>2, LenProperties
  <2> QED
    BY <2>2, <2>3
<1>4. ASSUME NEW r \in DOMAIN Emplaced(map, entries)
      PROVE  Emplaced(map, entries)[r] \in Nat
  BY <1>1, <1>2, <1>3, <1>4 DEF Emplaced
<1> QED
  BY <1>1, <1>2, <1>4

------------------------------------------------------------------------------
(* Type correctness.                                                       *)

LEMMA TypeInit == Init => TypeOK
BY BoundsAssumption, EmptySeq, FileFacts DEF Init, TypeOK, StateOK, Places, Body, Sections

\* What every step of load() that appends to one table has to show.
LEMMA Grown ==
    ASSUME file \in Files, sec \in Sections(file), NEW S,
           NEW old \in Seq(S), NEW outcome, NEW table \in Tables, S = EntryOf[table],
           NEW n \in Nat
    PROVE  /\ old \o Appended(outcome, table, n) \in Seq(S)
           /\ Len(old \o Appended(outcome, table, n)) = Len(old) + n
<1>1. /\ Appended(outcome, table, n) \in Seq(S)
      /\ Len(Appended(outcome, table, n)) = n
  BY AppendedFacts
<1> HIDE DEF EntryOf
<1> QED
  BY <1>1, ConcatProperties

LEMMA TypeOpen == TypeOK /\ Open => TypeOK'
<1> SUFFICES ASSUME TypeOK, Open PROVE TypeOK'
  OBVIOUS
<1>1. opens' \in 0..MaxOpens /\ UNCHANGED <<file, loads, cursor, sec, sectionOffsets, tableVars>>
  BY BoundsAssumption DEF TypeOK, StateOK, Open
<1>2. faults' \in 0..MaxFaults /\ pc' \in {"closed", "opened"}
  BY OutcomeFacts DEF TypeOK, StateOK, Open
<1> QED
  BY <1>1, <1>2 DEF TypeOK, StateOK, Places, Body, tableVars, Sections

LEMMA TypeLoad == TypeOK /\ Load => TypeOK'
<1> SUFFICES ASSUME TypeOK, Load PROVE TypeOK'
  OBVIOUS
<1>1. loads' \in 0..MaxLoads
  BY BoundsAssumption DEF TypeOK, StateOK, Load
<1>2. 1 \in 1..Len(file.sections) + 1 /\ 1 \in 0..Len(file.sections) + 1
  BY FileFacts DEF TypeOK, StateOK
<1> QED
  BY <1>1, <1>2 DEF TypeOK, StateOK, Load, Places, Body, tableVars, Sections

LEMMA TypeEnterSection == TypeOK /\ EnterSection => TypeOK'
<1> SUFFICES ASSUME TypeOK, EnterSection PROVE TypeOK'
  OBVIOUS
<1>1. file \in Files /\ sec \in Sections(file) /\ sectionOffsets \in Seq(Nat) /\ cursor \in Nat
  BY FileFacts DEF TypeOK, StateOK, EnterSection, Sections
<1>2. /\ Section.file_offset \in Nat /\ Section.record_count \in Nat
      /\ Section.string_table_size \in Nat /\ Section.offset_records_end \in Nat
      /\ file.record_size \in Nat
  BY <1>1, SectionFacts, FileFacts DEF Section
<1>3. LastEnd + Section.record_count \in Nat
  <2>1. CASE sectionOffsets = << >>
    BY <1>2, <2>1 DEF LastEnd
  <2>2. CASE sectionOffsets # << >>
    <3>1. Len(sectionOffsets) \in 1..Len(sectionOffsets)
      BY <1>1, <2>2, LenProperties, EmptySeq
    <3>2. sectionOffsets[Len(sectionOffsets)] \in Nat
      BY <1>1, <3>1, ElementOfSeq
    <3> QED
      BY <1>2, <2>2, <3>2 DEF LastEnd
  <2> QED
    BY <2>1, <2>2
<1>4. sectionOffsets' \in Seq(Nat)
  BY <1>1, <1>3, AppendProperties DEF EnterSection
<1>5. cursor' \in Nat
  <2>1. file.record_size * Section.record_count \in Nat
    BY <1>2
  <2> QED
    BY <1>1, <1>2, <2>1 DEF EnterSection
<1>6. faults' \in 0..MaxFaults /\ pc' \in {"idList", "aborted"}
  BY OutcomeFacts DEF TypeOK, StateOK, EnterSection
<1>7. UNCHANGED <<file, opens, loads, sec, commonData, tableVars>>
  BY DEF EnterSection
<1> QED
  BY <1>1, <1>4, <1>5, <1>6, <1>7 DEF TypeOK, StateOK, Places, Body, tableVars, Sections

\* The four steps that read one table of entries go alike; the tables they
\* leave alone keep their types.
LEMMA TypeReadIdList == TypeOK /\ ReadIdList => TypeOK'
<1> SUFFICES ASSUME TypeOK, ReadIdList PROVE TypeOK'
  OBVIOUS
<1> DEFINE n == Section.id_list_size \div 4
<1>1. file \in Files /\ sec \in Sections(file) /\ idList \in Seq(Nat)
  BY DEF TypeOK, StateOK, ReadIdList, Body
<1>2. n \in Nat
  BY <1>1, SectionFacts DEF Section
<1> HIDE DEF n
<1>3. PICK outcome \in Outcome(n) :
        /\ idList' = idList \o Appended(outcome, "idList", n)
        /\ Continue(outcome, "copyTable", n * EntrySize.idList)
  BY DEF ReadIdList, n
<1>4. idList' \in Seq(Nat)
  BY <1>1, <1>2, <1>3, Grown DEF EntryOf, Tables
<1>5. n * EntrySize.idList \in Nat
  BY <1>2 DEF EntrySize
<1>6. faults' \in 0..MaxFaults /\ cursor' \in Nat /\ pc' \in {"copyTable", "aborted"}
  BY <1>3, <1>5, ContinueFacts DEF TypeOK, StateOK
<1> QED
  BY <1>1, <1>4, <1>6 DEF TypeOK, StateOK, ReadIdList, Places, Body, tableVars, Sections

LEMMA TypeReadCopyTable == TypeOK /\ ReadCopyTable => TypeOK'
<1> SUFFICES ASSUME TypeOK, ReadCopyTable PROVE TypeOK'
  OBVIOUS
<1> DEFINE n == Section.copy_table_count
<1>1. file \in Files /\ sec \in Sections(file) /\ copyTable \in Seq(CopyEntries)
  BY DEF TypeOK, StateOK, ReadCopyTable, Body
<1>2. n \in Nat
  BY <1>1, SectionFacts DEF Section
<1> HIDE DEF n
<1>3. PICK outcome \in Outcome(n) :
        /\ copyTable' = copyTable \o Appended(outcome, "copyTable", n)
        /\ Continue(outcome, "offsetMap", n * EntrySize.copyTable)
  BY DEF ReadCopyTable, n
<1>4. copyTable' \in Seq(CopyEntries)
  BY <1>1, <1>2, <1>3, Grown DEF EntryOf, Tables
<1>5. n * EntrySize.copyTable \in Nat
  BY <1>2 DEF EntrySize
<1>6. faults' \in 0..MaxFaults /\ cursor' \in Nat /\ pc' \in {"offsetMap", "aborted"}
  BY <1>3, <1>5, ContinueFacts DEF TypeOK, StateOK
<1> QED
  BY <1>1, <1>4, <1>6 DEF TypeOK, StateOK, ReadCopyTable, Places, Body, tableVars, Sections

LEMMA TypeReadOffsetMap == TypeOK /\ ReadOffsetMap => TypeOK'
<1> SUFFICES ASSUME TypeOK, ReadOffsetMap PROVE TypeOK'
  OBVIOUS
<1> DEFINE n == Section.offset_map_id_count
<1>1. file \in Files /\ sec \in Sections(file) /\ offsetMap \in Seq(OffsetEntries)
  BY DEF TypeOK, StateOK, ReadOffsetMap, Body
<1>2. n \in Nat
  BY <1>1, SectionFacts DEF Section
<1> HIDE DEF n
<1>3. PICK outcome \in Outcome(n) :
        /\ offsetMap' = offsetMap \o Appended(outcome, "offsetMap", n)
        /\ Continue(outcome, "firstKeys", n * EntrySize.offsetMap)
  BY DEF ReadOffsetMap, n
<1>4. offsetMap' \in Seq(OffsetEntries)
  BY <1>1, <1>2, <1>3, Grown DEF EntryOf, Tables
<1>5. n * EntrySize.offsetMap \in Nat
  BY <1>2 DEF EntrySize
<1>6. faults' \in 0..MaxFaults /\ cursor' \in Nat /\ pc' \in {"firstKeys", "aborted"}
  BY <1>3, <1>5, ContinueFacts DEF TypeOK, StateOK
<1> QED
  BY <1>1, <1>4, <1>6 DEF TypeOK, StateOK, ReadOffsetMap, Places, Body, tableVars, Sections

\* Behind the second of the two key tables the loop goes on to a section or
\* to its end.
LEMMA AdvanceFacts ==
    ASSUME file \in Files, sec \in Sections(file), pc \in {"firstKeys", "lastKeys"},
           pc' \in {AfterKeys, "aborted"}, Advance
    PROVE  /\ pc' \in {"lastKeys", "section", "aborted"}
           /\ sec' \in 1..Len(file.sections) + 1
           /\ pc' = "lastKeys" => sec' = sec
           /\ pc' = "section" => sec' = sec + 1
BY FileFacts DEF AfterKeys, Advance, Sections

LEMMA TypeLoadOffsetMapIds == TypeOK /\ LoadOffsetMapIds => TypeOK'
<1> SUFFICES ASSUME TypeOK, LoadOffsetMapIds PROVE TypeOK'
  OBVIOUS
<1> DEFINE n == Section.offset_map_id_count
<1>1. /\ file \in Files /\ sec \in Sections(file) /\ offsetMapIds \in Seq(Nat)
      /\ pc \in {"firstKeys", "lastKeys"}
  BY DEF TypeOK, StateOK, LoadOffsetMapIds, Body
<1>2. n \in Nat
  BY <1>1, SectionFacts DEF Section
<1> HIDE DEF n
<1>3. PICK outcome \in Outcome(n) :
        /\ offsetMapIds' = offsetMapIds \o Appended(outcome, "offsetMapIds", n)
        /\ Continue(outcome, AfterKeys, n * EntrySize.offsetMapIds)
  BY DEF LoadOffsetMapIds, n
<1>4. offsetMapIds' \in Seq(Nat)
  BY <1>1, <1>2, <1>3, Grown DEF EntryOf, Tables
<1>5. n * EntrySize.offsetMapIds \in Nat
  BY <1>2 DEF EntrySize
<1>6. faults' \in 0..MaxFaults /\ cursor' \in Nat /\ pc' \in {AfterKeys, "aborted"}
  BY <1>3, <1>5, ContinueFacts DEF TypeOK, StateOK
<1>7. /\ pc' \in {"lastKeys", "section", "aborted"}
      /\ sec' \in 1..Len(file.sections) + 1
      /\ pc' = "lastKeys" => sec' = sec
  BY <1>1, <1>6, AdvanceFacts DEF LoadOffsetMapIds
<1>8. sec' \in 0..Len(file.sections) + 1
  BY <1>1, <1>7, FileFacts
<1> QED
  BY <1>1, <1>4, <1>6, <1>7, <1>8
     DEF TypeOK, StateOK, LoadOffsetMapIds, Places, Body, tableVars, Sections

LEMMA TypeLoadRelationships == TypeOK /\ LoadRelationships => TypeOK'
<1> SUFFICES ASSUME TypeOK, LoadRelationships PROVE TypeOK'
  OBVIOUS
<1>1. /\ file \in Files /\ sec \in Sections(file) /\ relationships \in Seq(RelationEntries)
      /\ pc \in {"firstKeys", "lastKeys"} /\ cursor \in Nat /\ faults \in 0..MaxFaults
  BY DEF TypeOK, StateOK, LoadRelationships, Body
<1> DEFINE Steps == /\ faults' \in 0..MaxFaults /\ cursor' \in Nat /\ pc' \in {AfterKeys, "aborted"}
                    /\ relationships' \in Seq(RelationEntries)
<1>2. ASSUME Section.relationship_data_size = 0
      PROVE  Steps
  BY <1>1, <1>2 DEF LoadRelationships
<1>3. ASSUME Outcome(1) # {"read"}, Continue("throw", AfterKeys, 0), UNCHANGED relationships
      PROVE  Steps
  <2>1. "throw" \in Outcome(1)
    BY <1>3 DEF Outcome
  <2>2. faults' \in 0..MaxFaults /\ cursor' \in Nat /\ pc' \in {AfterKeys, "aborted"}
    BY <1>1, <1>3, <2>1, ContinueFacts
  <2> QED
    BY <1>1, <1>3, <2>2
<1>4. ASSUME NEW n \in Counts, NEW outcome \in Outcome(n),
             relationships' = relationships \o
                IF outcome = "read"
                THEN Taken(file, sec, "relationships", cursor + RelationHeaderSize, n)
                ELSE [k \in 1..n |-> Filled("relationships", 0)],
             Continue(outcome, AfterKeys, RelationHeaderSize + n * EntrySize.relationships)
      PROVE  Steps
  <2>1. n \in Nat
    BY <1>1, CountsFacts
  <2>2. RelationHeaderSize + n * EntrySize.relationships \in Nat
    BY <2>1 DEF RelationHeaderSize, EntrySize
  <2>3. faults' \in 0..MaxFaults /\ cursor' \in Nat /\ pc' \in {AfterKeys, "aborted"}
    BY <1>1, <1>4, <2>2, ContinueFacts
  <2>4. Taken(file, sec, "relationships", cursor + RelationHeaderSize, n) \in Seq(RelationEntries)
    BY <1>1, <2>1, TakenFacts DEF EntryOf, Tables
  <2>5. [k \in 1..n |-> Filled("relationships", 0)] \in Seq(RelationEntries)
    <3>1. Filled("relationships", 0) \in RelationEntries
      BY FilledFacts DEF EntryOf, Tables
    <3> QED
      BY <2>1, <3>1
  <2>6. relationships' \in Seq(RelationEntries)
    BY <1>1, <1>4, <2>4, <2>5, ConcatProperties
  <2> QED
    BY <2>3, <2>6
<1>5. Steps
  BY <1>2, <1>3, <1>4 DEF LoadRelationships
<1>6. /\ pc' \in {"lastKeys", "section", "aborted"}
      /\ sec' \in 1..Len(file.sections) + 1
      /\ pc' = "lastKeys" => sec' = sec
  BY <1>1, <1>5, AdvanceFacts DEF LoadRelationships
<1>7. sec' \in 0..Len(file.sections) + 1
  BY <1>1, <1>6, FileFacts
<1> QED
  BY <1>1, <1>5, <1>6, <1>7
     DEF TypeOK, StateOK, LoadRelationships, Places, Body, tableVars, Sections

LEMMA TypeFinishLoad == TypeOK /\ FinishLoad => TypeOK'
<1> SUFFICES ASSUME TypeOK, FinishLoad PROVE TypeOK'
  OBVIOUS
<1>1. /\ DOMAIN relationshipMap' \subseteq Nat
      /\ \A r \in DOMAIN relationshipMap' : relationshipMap'[r] \in Nat
  BY EmplacedFacts DEF TypeOK, StateOK, FinishLoad
<1>2. relationships' \in Seq(RelationEntries)
  BY EmptySeq DEF FinishLoad
<1> QED
  BY <1>1, <1>2 DEF TypeOK, StateOK, FinishLoad, Places, Body, tableVars, Sections

(* Every state of a DB2File, whatever it opens, however often it is opened *)
(* and loaded and whichever reads throw, is of its types, and a section is *)
(* only looked at while its index is one of the header's.                  *)
THEOREM TypeCorrect == Spec => []TypeOK
<1>1. Init => TypeOK
  BY TypeInit
<1>2. TypeOK /\ [FileNext]_vars => TypeOK'
  <2> SUFFICES ASSUME TypeOK, [FileNext]_vars PROVE TypeOK'
    OBVIOUS
  <2>1. CASE Open
    BY <2>1, TypeOpen
  <2>2. CASE Load
    BY <2>2, TypeLoad
  <2>3. CASE EnterSection
    BY <2>3, TypeEnterSection
  <2>4. CASE ReadIdList
    BY <2>4, TypeReadIdList
  <2>5. CASE ReadCopyTable
    BY <2>5, TypeReadCopyTable
  <2>6. CASE ReadOffsetMap
    BY <2>6, TypeReadOffsetMap
  <2>7. CASE LoadOffsetMapIds
    BY <2>7, TypeLoadOffsetMapIds
  <2>8. CASE LoadRelationships
    BY <2>8, TypeLoadRelationships
  <2>9. CASE FinishLoad
    BY <2>9, TypeFinishLoad
  <2>10. CASE UNCHANGED vars
    BY <2>10 DEF TypeOK, StateOK, vars, tableVars
  <2> QED
    BY <2>1, <2>2, <2>3, <2>4, <2>5, <2>6, <2>7, <2>8, <2>9, <2>10 DEF FileNext, LoadStep
<1> QED
  BY <1>1, <1>2, PTL DEF Spec

------------------------------------------------------------------------------
(* The id list, when load() is called once.                                *)

LEMMA CountedInit == Init => CountedIds
BY DEF Init, CountedIds, Body

LEMMA CountedLoad ==
    ASSUME MaxLoads = 1, TypeOK, CountedIds, Load
    PROVE  CountedIds'
<1>1. pc = "opened" /\ loads = 0 /\ idList = << >>
  BY DEF TypeOK, StateOK, CountedIds, Load
<1>2. Len(idList) = file.starts[1]
  BY <1>1, EmptySeq, FileFacts DEF TypeOK, StateOK
<1> QED
  BY <1>1, <1>2 DEF CountedIds, Load, tableVars, Body

LEMMA CountedEnterSection ==
    ASSUME TypeOK, CountedIds, EnterSection
    PROVE  CountedIds'
<1>1. pc' = "idList" /\ file.useIdList =>
        Section.id_list_size = Section.record_count * EntrySize.idList
  BY DEF EnterSection, IdListRefused, UnexpectedIdList, EntrySize
<1>2. pc' \in {"idList", "aborted"} /\ UNCHANGED <<file, loads, sec, idList>> /\ pc = "section"
  BY DEF EnterSection, tableVars
<1>3. UNCHANGED Section
  BY <1>2 DEF Section
<1> QED
  BY <1>1, <1>2, <1>3 DEF CountedIds, Body

LEMMA CountedReadIdList ==
    ASSUME TypeOK, CountedIds, ReadIdList
    PROVE  CountedIds'
<1> DEFINE n == Section.id_list_size \div 4
<1>1. file \in Files /\ sec \in Sections(file) /\ idList \in Seq(Nat) /\ pc = "idList"
  BY DEF TypeOK, StateOK, ReadIdList, Body
<1>2. Section.id_list_size \in Nat /\ Section.record_count \in Nat
  BY <1>1, SectionFacts DEF Section
<1>3. n \in Nat
  BY <1>2
<1>4. PICK outcome \in Outcome(n) :
        /\ idList' = idList \o Appended(outcome, "idList", n)
        /\ Continue(outcome, "copyTable", n * EntrySize.idList)
  BY DEF ReadIdList
<1>5. Len(idList') = Len(idList) + n
  <2> HIDE DEF n
  <2>1. Nat = EntryOf["idList"] /\ "idList" \in Tables
    BY DEF EntryOf, Tables
  <2>2. /\ Appended(outcome, "idList", n) \in Seq(Nat)
        /\ Len(Appended(outcome, "idList", n)) = n
    BY <1>1, <1>3, <2>1, AppendedFacts
  <2>3. Len(idList \o Appended(outcome, "idList", n)) = Len(idList) + n
    BY <1>1, <2>2, ConcatProperties
  <2> QED
    BY <1>4, <2>3
<1>6. file.useIdList => n = Section.record_count
  BY <1>1, <1>2 DEF CountedIds, EntrySize
<1>7. file.useIdList => Len(idList') = file.starts[sec + 1]
  BY <1>1, <1>5, <1>6, FileFacts DEF CountedIds, Section
<1>8. pc' \in {"copyTable", "aborted"} /\ UNCHANGED <<file, loads, sec>>
  BY <1>4 DEF Continue, ReadIdList
<1> QED
  BY <1>1, <1>7, <1>8 DEF CountedIds, Body

\* The steps behind the id list leave it alone.
LEMMA CountedTables ==
    ASSUME TypeOK, CountedIds, ReadCopyTable \/ ReadOffsetMap
    PROVE  CountedIds'
<1>1. /\ pc \in {"copyTable", "offsetMap"} /\ pc' \in {"offsetMap", "firstKeys", "aborted"}
      /\ UNCHANGED <<file, loads, sec, idList>>
  BY DEF ReadCopyTable, ReadOffsetMap, Continue
<1> QED
  BY <1>1 DEF CountedIds, Body

LEMMA CountedKeys ==
    ASSUME TypeOK, CountedIds, LoadOffsetMapIds \/ LoadRelationships
    PROVE  CountedIds'
<1>1. /\ pc \in {"firstKeys", "lastKeys"} /\ pc' \in {AfterKeys, "aborted"} /\ Advance
      /\ UNCHANGED <<file, loads, idList>>
  BY DEF LoadOffsetMapIds, LoadRelationships, Continue
<1>2. file \in Files /\ sec \in Sections(file)
  BY <1>1 DEF TypeOK, StateOK, Body
<1>3. /\ pc' \in {"lastKeys", "section", "aborted"}
      /\ pc' = "lastKeys" => sec' = sec
      /\ pc' = "section" => sec' = sec + 1
  BY <1>1, <1>2, AdvanceFacts
<1> QED
  BY <1>1, <1>2, <1>3 DEF CountedIds, Body

LEMMA CountedFinishLoad ==
    ASSUME TypeOK, CountedIds, FinishLoad
    PROVE  CountedIds' /\ IdListMatchesHeader'
<1>1. file \in Files /\ sec = Len(file.sections) + 1
  BY FileFacts DEF TypeOK, StateOK, FinishLoad
<1>2. file.useIdList => Len(idList) = file.record_count
  BY <1>1, FileFacts DEF CountedIds, FinishLoad
<1> QED
  BY <1>2 DEF CountedIds, IdListMatchesHeader, FinishLoad, Body

(* load() called once, on a file whose header counts its sections' records,*)
(* passes the assertion of DB2File.hpp:773 in every state: with an id list *)
(* check in each section and a read that throws out of the loop, nothing   *)
(* but a second load() can make the list and the header differ.            *)
THEOREM LoadedOnceMatchesHeader ==
    ASSUME MaxLoads = 1
    PROVE  Spec => []IdListMatchesHeader
<1> DEFINE Inv == TypeOK /\ CountedIds /\ IdListMatchesHeader
<1>1. Init => Inv
  BY TypeInit, CountedInit DEF Init, IdListMatchesHeader
<1>2. TypeOK /\ TypeOK' /\ Inv /\ [FileNext]_vars => Inv'
  <2> SUFFICES ASSUME TypeOK, TypeOK', CountedIds, IdListMatchesHeader, [FileNext]_vars
               PROVE  CountedIds' /\ IdListMatchesHeader'
    OBVIOUS
  <2>1. CASE Open
    <3>1. pc = "closed" /\ pc' \in {"closed", "opened"} /\ UNCHANGED <<loads, idList>>
      BY <2>1 DEF Open, tableVars
    <3> QED
      BY <3>1 DEF CountedIds, IdListMatchesHeader, Body
  <2>2. CASE Load
    <3>1. pc' = "section"
      BY <2>2 DEF Load
    <3> QED
      BY <2>2, <3>1, CountedLoad DEF IdListMatchesHeader
  <2>3. CASE EnterSection
    <3>1. pc' # "loaded"
      BY <2>3 DEF EnterSection
    <3> QED
      BY <2>3, <3>1, CountedEnterSection DEF IdListMatchesHeader
  <2>4. CASE ReadIdList
    <3>1. pc' # "loaded"
      BY <2>4 DEF ReadIdList, Continue
    <3> QED
      BY <2>4, <3>1, CountedReadIdList DEF IdListMatchesHeader
  <2>5. CASE ReadCopyTable \/ ReadOffsetMap
    <3>1. pc' # "loaded"
      BY <2>5 DEF ReadCopyTable, ReadOffsetMap, Continue
    <3> QED
      BY <2>5, <3>1, CountedTables DEF IdListMatchesHeader
  <2>6. CASE LoadOffsetMapIds \/ LoadRelationships
    <3>1. pc' # "loaded"
      BY <2>6 DEF LoadOffsetMapIds, LoadRelationships, Continue, AfterKeys
    <3> QED
      BY <2>6, <3>1, CountedKeys DEF IdListMatchesHeader
  <2>7. CASE FinishLoad
    BY <2>7, CountedFinishLoad
  <2>8. CASE UNCHANGED vars
    <3>1. UNCHANGED Section
      BY <2>8 DEF vars, Section
    <3> QED
      BY <2>8, <3>1 DEF CountedIds, IdListMatchesHeader, vars, tableVars
  <2> QED
    BY <2>1, <2>2, <2>3, <2>4, <2>5, <2>6, <2>7, <2>8 DEF FileNext, LoadStep
<1>3. Inv => IdListMatchesHeader
  OBVIOUS
<1> QED
  BY <1>1, <1>2, <1>3, TypeCorrect, PTL DEF Spec
------------------------------------------------------------------------------
(* TablesLoaded, when load() is called once: the source stands at each     *)
(* table when it is read, and behind each section its tables stand behind  *)
(* those of the sections before it.                                        *)

Loading == {"section"} \union Body

\* Where the read that comes next finds its table.
CursorAt ==
    LET at == TablePos(file, sec)
    IN  CASE pc = "idList"    -> at.idList
          [] pc = "copyTable" -> at.copyTable
          [] pc = "offsetMap" -> at.offsetMap
          [] pc = IdsTurn     -> at.offsetMapIds
          [] OTHER            -> at.relationHeader

CursorKnown ==
    /\ pc \in Body /\ Section.readable => cursor = CursorAt
    /\ pc = "idList" => ~UnexpectedIdList(file, Section)

\* A table of section s has been read, if the places behind its read are these.
Done(s, places) == s < sec \/ (s = sec /\ pc \in places)

IdsDone == {"copyTable", "offsetMap", "firstKeys", "lastKeys"}
CopiesDone == {"offsetMap", "firstKeys", "lastKeys"}
OffsetsDone == {"firstKeys", "lastKeys"}
OffsetIdsDone == IF HasRelationshipData(file) THEN {"lastKeys"} ELSE {}
RelationsDone == IF HasRelationshipData(file) THEN {} ELSE {"lastKeys"}

\* Behind which section a table ends, by those places.
Behind(places) == IF pc \in places THEN sec + 1 ELSE sec

TablesCounted ==
    pc \in Loading =>
        /\ Len(copyTable) = file.copyStarts[Behind(CopiesDone)]
        /\ HasOffsetMap(file) => Len(offsetMap) = file.starts[Behind(OffsetsDone)]
        /\ HasOffsetMap(file) => Len(offsetMapIds) = file.starts[Behind(OffsetIdsDone)]

\* Entry k of a table of section s, as load() leaves it.
Entry(f, s, table, k) ==
    IF f.sections[s].readable THEN f.sections[s][table][k] ELSE Filled(table, 0)

Placed(f, list, base, table, s) ==
    \A k \in 1..Len(f.sections[s][table]) :
        base + k \in 1..Len(list) /\ list[base + k] = Entry(f, s, table, k)

Promised == pc \in Loading \union {"loaded"}

IdsPlaced ==
    Promised => \A s \in Sections(file) :
        Done(s, IdsDone) => Placed(file, idList, file.starts[s], "idList", s)

CopiesPlaced ==
    Promised => \A s \in Sections(file) :
        Done(s, CopiesDone) => Placed(file, copyTable, file.copyStarts[s], "copyTable", s)

OffsetsPlaced ==
    Promised => \A s \in Sections(file) :
        Done(s, OffsetsDone) => Placed(file, offsetMap, file.starts[s], "offsetMap", s)

OffsetIdsPlaced ==
    Promised => \A s \in Sections(file) :
        Done(s, OffsetIdsDone) => Placed(file, offsetMapIds, file.starts[s], "offsetMapIds", s)

\* A relation read is one of a readable section, or one of zeros.
OfSection(f, entry, s) ==
    \/ /\ f.sections[s].readable
       /\ \E k \in 1..Len(f.sections[s].relationships) : entry = f.sections[s].relationships[k]
    \/ f.sections[s].relationship_data_size > 0 /\ entry.record_index = 0 /\ entry.foreign_id = 0

\* An entry of the list, and the first for its record.
FirstIn(list, entry) ==
    \E p \in 1..Len(list) :
        /\ list[p] = entry
        /\ \A j \in 1..p - 1 : list[j].record_index # entry.record_index

RelationsOfSections ==
    pc \in Loading =>
        \A j \in 1..Len(relationships) : \E s \in Sections(file) :
            Done(s, RelationsDone) /\ OfSection(file, relationships[j], s)

RelationsFirst ==
    pc \in Loading =>
        \A s \in Sections(file) : Done(s, RelationsDone) /\ file.sections[s].readable =>
            \A k \in 1..Len(file.sections[s].relationships) :
                FirstIn(relationships, file.sections[s].relationships[k])

Mapped(map, entry) == entry.record_index \in DOMAIN map /\ map[entry.record_index] = entry.foreign_id

RelationsMapped ==
    pc = "loaded" => \A s \in Sections(file) : file.sections[s].readable =>
        \A k \in 1..Len(file.sections[s].relationships) :
            Mapped(relationshipMap, file.sections[s].relationships[k])

\* What is empty before load(), and before its end.
Fresh ==
    /\ pc \in {"closed", "opened"} =>
        copyTable = << >> /\ offsetMap = << >> /\ offsetMapIds = << >> /\ relationships = << >>
    /\ pc # "loaded" => DOMAIN relationshipMap = {}
    /\ pc = "loaded" => sec = Len(file.sections) + 1

TablesInv ==
    /\ TablesCounted
    /\ IdsPlaced /\ CopiesPlaced /\ OffsetsPlaced /\ OffsetIdsPlaced
    /\ RelationsOfSections /\ RelationsFirst /\ RelationsMapped
    /\ Fresh

LoadInv == CursorKnown /\ TablesInv

\* Where the tables of a section lie, and how many entries they have.
LEMMA LayoutFacts ==
    ASSUME NEW f \in Files, NEW s \in Sections(f)
    PROVE  LET from == f.sections[s]
               at   == TablePos(f, s)
           IN  /\ from.id_list_size = 4 * Len(from.idList)
               /\ from.copy_table_count = Len(from.copyTable)
               /\ from.offset_map_id_count = Len(from.offsetMap)
               /\ from.offset_map_id_count = Len(from.offsetMapIds)
               /\ from.offset_map_id_count = IF HasOffsetMap(f) THEN from.record_count ELSE 0
               /\ IsRelationBlock(from)
               /\ at.idList = TablesAt(f, s)
               /\ at.copyTable = at.idList + 4 * Len(from.idList)
               /\ at.offsetMap = at.copyTable + 8 * Len(from.copyTable)
               /\ HasRelationshipData(f) =>
                    /\ at.offsetMapIds = at.offsetMap + 6 * Len(from.offsetMap)
                    /\ at.relationHeader = at.offsetMapIds + 4 * Len(from.offsetMapIds)
               /\ ~HasRelationshipData(f) =>
                    /\ at.relationHeader = at.offsetMap + 6 * Len(from.offsetMap)
                    /\ at.offsetMapIds = at.relationHeader + from.relationship_data_size
               /\ at.relationships = at.relationHeader + RelationHeaderSize
<1>1. IsFile(f)
  BY FilesAssumption
<1>2. LET from == f.sections[s]
      IN  /\ from.id_list_size = 4 * Len(from.idList)
          /\ from.copy_table_count = Len(from.copyTable)
          /\ from.offset_map_id_count = Len(from.offsetMap)
          /\ from.offset_map_id_count = Len(from.offsetMapIds)
          /\ from.offset_map_id_count = IF HasOffsetMap(f) THEN from.record_count ELSE 0
          /\ IsRelationBlock(from)
  BY <1>1 DEF IsFile
<1> QED
  BY <1>2 DEF TablePos

\* What has been placed stays where it is when a list grows.
LEMMA PlacedGrows ==
    ASSUME NEW S, NEW list \in Seq(S), NEW new \in Seq(S), NEW f, NEW base \in Nat,
           NEW table, NEW s, Placed(f, list, base, table, s)
    PROVE  Placed(f, list \o new, base, table, s)
<1> SUFFICES ASSUME NEW k \in 1..Len(f.sections[s][table])
             PROVE  /\ base + k \in 1..Len(list \o new)
                    /\ (list \o new)[base + k] = Entry(f, s, table, k)
  BY DEF Placed
<1>1. base + k \in 1..Len(list) /\ list[base + k] = Entry(f, s, table, k)
  BY DEF Placed
<1>2. Len(list) \in Nat /\ Len(new) \in Nat /\ Len(list \o new) = Len(list) + Len(new)
  BY LenProperties, ConcatProperties
<1>3. (list \o new)[base + k] = list[base + k]
  BY <1>1, ConcatProperties
<1> QED
  BY <1>1, <1>2, <1>3

\* A read from where the table lies places it behind the list.
LEMMA PlacedByRead ==
    ASSUME NEW f \in Files, NEW s \in Sections(f), NEW table \in Tables,
           NEW list \in Seq(EntryOf[table]), NEW at,
           f.sections[s].readable => at = TablePos(f, s)[table]
    PROVE  LET new == Taken(f, s, table, at, Len(f.sections[s][table]))
           IN  Placed(f, list \o new, Len(list), table, s)
<1> DEFINE n == Len(f.sections[s][table])
           new == Taken(f, s, table, at, n)
<1>1. n \in Nat
  BY TableFacts
<1>2. \A k \in 1..n : new[k] = Entry(f, s, table, k)
  BY <1>1 DEF Taken, Entry
<1> DEFINE S == EntryOf[table]
<1>3. list \in Seq(S) /\ new \in Seq(S) /\ Len(new) = n
  BY <1>1, TakenFacts
<1>4. Len(list) \in Nat
  BY LenProperties
<1> HIDE DEF new, S
<1>5. ASSUME NEW k \in 1..n
      PROVE  /\ Len(list) + k \in 1..Len(list \o new)
             /\ (list \o new)[Len(list) + k] = new[k]
  <2> HIDE DEF n
  <2>1. Len(list \o new) = Len(list) + n
    BY <1>3, ConcatProperties
  <2>2. Len(list) + k \in 1..Len(list \o new)
    BY <1>1, <1>4, <2>1
  <2>3. (list \o new)[Len(list) + k] = new[(Len(list) + k) - Len(list)]
    BY <1>1, <1>3, <1>4, <2>1, <2>2, ConcatProperties
  <2>4. (Len(list) + k) - Len(list) = k
    BY <1>1, <1>4
  <2> QED
    BY <2>2, <2>3, <2>4
<1>6. Placed(f, list \o new, Len(list), table, s)
  BY <1>2, <1>5 DEF Placed
<1> QED
  BY <1>6 DEF new

\* Behind a read of section `sec' all tables up to this one are placed.
LEMMA PlacedNext ==
    ASSUME file \in Files, sec \in Sections(file), NEW table \in Tables,
           NEW list \in Seq(EntryOf[table]), NEW base,
           \A s \in Sections(file) : base[s] \in Nat,
           \A s \in Sections(file) : s < sec => Placed(file, list, base[s], table, s),
           Len(Section[table]) > 0 => Len(list) = base[sec],
           Section.readable => cursor = TablePos(file, sec)[table]
    PROVE  \A s \in Sections(file) : s < sec \/ s = sec =>
                Placed(file, list \o Appended("read", table, Len(Section[table])), base[s], table, s)
<1> DEFINE n == Len(Section[table])
           S == EntryOf[table]
           new == Appended("read", table, n)
<1>1. n \in Nat
  BY TableFacts DEF Section
<1>2. list \in Seq(S) /\ new \in Seq(S)
  BY <1>1, AppendedFacts
<1>3. Placed(file, list \o new, Len(list), table, sec)
  BY PlacedByRead DEF Section, Appended
<1>4. Placed(file, list \o new, base[sec], table, sec)
  <2>1. CASE n = 0
    BY <1>1, <2>1 DEF Placed, Section
  <2>2. CASE n > 0
    BY <1>3, <2>2
  <2> QED
    BY <1>1, <2>1, <2>2
<1> HIDE DEF new, S
<1>5. ASSUME NEW s \in Sections(file), s < sec
      PROVE  Placed(file, list \o new, base[s], table, s)
  BY <1>2, <1>5, PlacedGrows
<1> QED
  BY <1>4, <1>5 DEF new

LEMMA StartFacts ==
    ASSUME NEW f \in Files, NEW s \in 1..Len(f.sections) + 1
    PROVE  /\ f.starts[s] \in Nat /\ f.copyStarts[s] \in Nat
           /\ f.copyStarts[1] = 0
           /\ s \in Sections(f) => f.copyStarts[s + 1] = f.copyStarts[s] + f.sections[s].copy_table_count
<1>1. IsFile(f) /\ f \in FileShape
  BY FilesAssumption DEF IsFile
<1>2. f.copyStarts \in Seq(Nat) /\ f.starts \in Seq(Nat)
  BY <1>1 DEF FileShape
<1>3. /\ Len(f.copyStarts) = Len(f.sections) + 1 /\ Len(f.starts) = Len(f.sections) + 1
      /\ f.copyStarts[1] = 0
  BY <1>1 DEF IsFile
<1>4. s \in Sections(f) => f.copyStarts[s + 1] = f.copyStarts[s] + f.sections[s].copy_table_count
  BY <1>1 DEF IsFile
<1> QED
  BY <1>2, <1>3, <1>4, ElementOfSeq

LEMMA BasesNat ==
    ASSUME NEW f \in Files
    PROVE  \A s \in Sections(f) : f.starts[s] \in Nat /\ f.copyStarts[s] \in Nat
<1> TAKE s \in Sections(f)
<1>1. s \in 1..Len(f.sections) + 1
  BY FileFacts DEF Sections
<1> QED
  BY <1>1, StartFacts

LEMMA CursorPlaces ==
    /\ pc = "idList"    => CursorAt = TablePos(file, sec).idList
    /\ pc = "copyTable" => CursorAt = TablePos(file, sec).copyTable
    /\ pc = "offsetMap" => CursorAt = TablePos(file, sec).offsetMap
    /\ pc = IdsTurn     => CursorAt = TablePos(file, sec).offsetMapIds
    /\ pc = RelationsTurn => CursorAt = TablePos(file, sec).relationHeader
BY DEF CursorAt, IdsTurn, RelationsTurn

\* A load() that throws promises nothing of its tables.
LEMMA AbortKeeps ==
    ASSUME Fresh, pc # "loaded", pc' = "aborted", UNCHANGED relationshipMap
    PROVE  LoadInv'
BY DEF LoadInv, TablesInv, CursorKnown, TablesCounted, IdsPlaced, CopiesPlaced, OffsetsPlaced,
       OffsetIdsPlaced, RelationsOfSections, RelationsFirst, RelationsMapped, Fresh, Promised,
       Loading, Body

LEMMA TablesInvInit == Init => LoadInv
BY EmptySeq DEF Init, LoadInv, TablesInv, CursorKnown, TablesCounted, IdsPlaced, CopiesPlaced,
       OffsetsPlaced, OffsetIdsPlaced, RelationsOfSections, RelationsFirst, RelationsMapped,
       Fresh, Promised, Loading, Body

LEMMA TablesOpen ==
    ASSUME LoadInv, Open
    PROVE  LoadInv'
<1>1. /\ pc = "closed" /\ pc' \in {"closed", "opened"}
      /\ UNCHANGED tableVars
  BY DEF Open
<1> QED
  BY <1>1 DEF LoadInv, TablesInv, CursorKnown, TablesCounted, IdsPlaced, CopiesPlaced,
       OffsetsPlaced, OffsetIdsPlaced, RelationsOfSections, RelationsFirst, RelationsMapped,
       Fresh, Promised, Loading, Body, tableVars

LEMMA TablesLoad ==
    ASSUME MaxLoads = 1, TypeOK, CountedIds, LoadInv, Load
    PROVE  LoadInv'
<1>1. pc = "opened" /\ pc' = "section" /\ sec' = 1 /\ UNCHANGED <<file, tableVars>>
  BY DEF TypeOK, StateOK, CountedIds, Load
<1>2. /\ copyTable' = << >> /\ offsetMap' = << >> /\ offsetMapIds' = << >> /\ relationships' = << >>
      /\ DOMAIN relationshipMap' = {}
  BY <1>1 DEF LoadInv, TablesInv, Fresh, tableVars
<1>3. file' \in Files /\ file'.starts[1] = 0 /\ file'.copyStarts[1] = 0 /\ Len(file'.sections) \in Nat
  <2>1. file \in Files /\ file' = file
    BY <1>1 DEF TypeOK, StateOK
  <2>2. Len(file.sections) \in Nat /\ file.starts[1] = 0
    BY <2>1, FileFacts
  <2>3. 1 \in 1..Len(file.sections) + 1
    BY <2>2
  <2> QED
    BY <2>1, <2>2, <2>3, StartFacts
<1>4. TablesCounted'
  BY <1>1, <1>2, <1>3, EmptySeq
     DEF TablesCounted, Behind, CopiesDone, OffsetsDone, OffsetIdsDone
<1>5. ASSUME NEW s \in Sections(file')
      PROVE  /\ ~(s < sec') /\ pc' \notin IdsDone \union CopiesDone \union OffsetsDone
             /\ pc' \notin OffsetIdsDone' /\ pc' \notin RelationsDone'
  BY <1>1, <1>3 DEF Sections, IdsDone, CopiesDone, OffsetsDone, OffsetIdsDone, RelationsDone
<1>6. IdsPlaced' /\ CopiesPlaced' /\ OffsetsPlaced' /\ OffsetIdsPlaced'
  BY <1>5 DEF IdsPlaced, CopiesPlaced, OffsetsPlaced, OffsetIdsPlaced, Done
<1>7. RelationsOfSections' /\ RelationsFirst'
  BY <1>2, <1>5, EmptySeq DEF RelationsOfSections, RelationsFirst, Done
<1> QED
  BY <1>1, <1>2, <1>4, <1>6, <1>7
     DEF LoadInv, TablesInv, CursorKnown, RelationsMapped, Fresh, Body

LEMMA TablesEnterSection ==
    ASSUME TypeOK, LoadInv, EnterSection
    PROVE  LoadInv'
<1>1. /\ file \in Files /\ sec \in Sections(file) /\ pc = "section"
      /\ pc' \in {"idList", "aborted"} /\ UNCHANGED <<file, sec, tableVars>>
  BY FileFacts DEF TypeOK, StateOK, EnterSection, Sections
<1>2. CASE pc' = "aborted"
  BY <1>1, <1>2, AbortKeeps DEF LoadInv, TablesInv, tableVars
<1>3. CASE pc' = "idList"
  <2>1. ~UnexpectedIdList(file, Section) /\ cursor' = TablesAt(file, sec)
    BY <1>3 DEF EnterSection, IdListRefused, TablesAt, Section
  <2>2. CursorKnown'
    <3>1. TablePos(file, sec).idList = TablesAt(file, sec)
      BY <1>1, LayoutFacts
    <3>2. UNCHANGED Section /\ UnexpectedIdList(file, Section)' = UnexpectedIdList(file, Section)
      BY <1>1 DEF Section, UnexpectedIdList
    <3> QED
      BY <1>1, <1>3, <2>1, <3>1, <3>2, CursorPlaces DEF CursorKnown, CursorAt, IdsTurn
  <2>3. TablesCounted'
    BY <1>1, <1>3 DEF LoadInv, TablesInv, TablesCounted, Behind, CopiesDone, OffsetsDone,
       OffsetIdsDone, Loading, Body, tableVars
  <2>4. /\ IdsPlaced' /\ CopiesPlaced' /\ OffsetsPlaced' /\ OffsetIdsPlaced'
        /\ RelationsOfSections' /\ RelationsFirst'
    BY <1>1, <1>3 DEF LoadInv, TablesInv, IdsPlaced, CopiesPlaced, OffsetsPlaced, OffsetIdsPlaced,
       RelationsOfSections, RelationsFirst, Done, IdsDone, CopiesDone, OffsetsDone, OffsetIdsDone,
       RelationsDone, Promised, Loading, Body, tableVars
  <2> QED
    BY <1>1, <1>3, <2>2, <2>3, <2>4
       DEF LoadInv, TablesInv, RelationsMapped, Fresh, Loading, tableVars
<1> QED
  BY <1>1, <1>2, <1>3

LEMMA TablesReadIdList ==
    ASSUME TypeOK, CountedIds, LoadInv, ReadIdList
    PROVE  LoadInv'
<1> DEFINE n == Len(Section.idList)
<1>1. /\ file \in Files /\ sec \in Sections(file) /\ pc = "idList" /\ sec \in Nat
      /\ idList \in Seq(Nat) /\ cursor \in Nat
      /\ UNCHANGED <<file, sec, copyTable, offsetMap, offsetMapIds, relationships, relationshipMap>>
  BY FileFacts DEF TypeOK, StateOK, ReadIdList, Body, Sections
<1>2. /\ n \in Nat /\ Section.id_list_size = 4 * n
      /\ TablePos(file, sec).copyTable = TablePos(file, sec).idList + 4 * n
  <2>1. "idList" \in Tables
    BY DEF Tables
  <2>2. Len(file.sections[sec]["idList"]) \in Nat
    BY <1>1, <2>1, TableFacts
  <2> QED
    BY <1>1, <2>2, LayoutFacts DEF Section
<1>3. Section.id_list_size \div 4 = n
  <2> HIDE DEF n
  <2> QED
    BY <1>2
<1>4. PICK outcome \in {"read", "throw"} :
        /\ idList' = idList \o Appended(outcome, "idList", n)
        /\ Continue(outcome, "copyTable", n * 4)
  BY <1>3 DEF ReadIdList, Outcome, EntrySize
<1>5. CASE outcome = "throw"
  BY <1>1, <1>4, <1>5, AbortKeeps DEF LoadInv, TablesInv, Continue
<1>6. CASE outcome = "read"
  <2>1. pc' = "copyTable" /\ (Section.readable => cursor' = cursor + n * 4)
    BY <1>4, <1>6 DEF Continue, Moved
  <2>2. CursorKnown'
    <3>1. UNCHANGED Section
      BY <1>1 DEF Section
    <3>2. Section.readable => cursor = TablePos(file, sec).idList
      BY <1>1, CursorPlaces DEF LoadInv, CursorKnown, Body
    <3>3. Section.readable => cursor' = TablePos(file, sec).copyTable
      <4> HIDE DEF n
      <4> QED
        BY <1>1, <1>2, <2>1, <3>2
    <3> QED
      BY <1>1, <2>1, <3>1, <3>3 DEF CursorKnown, CursorAt, IdsTurn
  <2>3. IdsPlaced'
    <3>1. \A s \in Sections(file) : s < sec => Placed(file, idList, file.starts[s], "idList", s)
      BY <1>1 DEF LoadInv, TablesInv, IdsPlaced, Done, Promised, Loading, Body
    <3>2. n > 0 => Len(idList) = file.starts[sec]
      BY <1>1, <1>2 DEF LoadInv, CursorKnown, UnexpectedIdList, CountedIds
    <3>3. Section.readable => cursor = TablePos(file, sec)["idList"]
      BY <1>1, CursorPlaces DEF LoadInv, CursorKnown, Body
    <3>4. "idList" \in Tables /\ idList \in Seq(EntryOf["idList"])
      BY <1>1 DEF Tables, EntryOf
    <3>5. \A s \in Sections(file) : file.starts[s] \in Nat
      BY <1>1, BasesNat
    <3>6. \A s \in Sections(file) : s < sec \/ s = sec =>
            Placed(file, idList', file.starts[s], "idList", s)
      BY <1>1, <1>4, <1>6, <3>1, <3>2, <3>3, <3>4, <3>5, PlacedNext
    <3> QED
      BY <1>1, <2>1, <3>6 DEF IdsPlaced, Done
  <2>4. TablesCounted'
    BY <1>1, <2>1 DEF LoadInv, TablesInv, TablesCounted, Behind, CopiesDone, OffsetsDone,
       OffsetIdsDone, Loading, Body
  <2>5. /\ CopiesPlaced' /\ OffsetsPlaced' /\ OffsetIdsPlaced'
        /\ RelationsOfSections' /\ RelationsFirst'
    BY <1>1, <2>1 DEF LoadInv, TablesInv, CopiesPlaced, OffsetsPlaced, OffsetIdsPlaced,
       RelationsOfSections, RelationsFirst, Done, CopiesDone, OffsetsDone, OffsetIdsDone,
       RelationsDone, Promised, Loading, Body
  <2> QED
    BY <1>1, <2>1, <2>2, <2>3, <2>4, <2>5 DEF LoadInv, TablesInv, RelationsMapped, Fresh
<1> QED
  BY <1>4, <1>5, <1>6

LEMMA TablesReadCopyTable ==
    ASSUME TypeOK, LoadInv, ReadCopyTable
    PROVE  LoadInv'
<1> DEFINE n == Len(Section.copyTable)
<1>1. /\ file \in Files /\ sec \in Sections(file) /\ pc = "copyTable" /\ sec \in Nat
      /\ copyTable \in Seq(CopyEntries) /\ cursor \in Nat
      /\ UNCHANGED <<file, sec, idList, offsetMap, offsetMapIds, relationships, relationshipMap>>
  BY FileFacts DEF TypeOK, StateOK, ReadCopyTable, Body, Sections
<1>2. /\ n \in Nat /\ Section.copy_table_count = n
      /\ TablePos(file, sec).offsetMap = TablePos(file, sec).copyTable + 8 * n
  <2>1. "copyTable" \in Tables
    BY DEF Tables
  <2>2. Len(file.sections[sec]["copyTable"]) \in Nat
    BY <1>1, <2>1, TableFacts
  <2> QED
    BY <1>1, <2>2, LayoutFacts DEF Section
<1>3. PICK outcome \in {"read", "throw"} :
        /\ copyTable' = copyTable \o Appended(outcome, "copyTable", n)
        /\ Continue(outcome, "offsetMap", n * 8)
  BY <1>2 DEF ReadCopyTable, Outcome, EntrySize
<1>4. CASE outcome = "throw"
  BY <1>1, <1>3, <1>4, AbortKeeps DEF LoadInv, TablesInv, Continue
<1>5. CASE outcome = "read"
  <2>1. pc' = "offsetMap" /\ (Section.readable => cursor' = cursor + n * 8)
    BY <1>3, <1>5 DEF Continue, Moved
  <2>2. Section.readable => cursor = TablePos(file, sec).copyTable
    BY <1>1, CursorPlaces DEF LoadInv, CursorKnown, Body
  <2>3. CursorKnown'
    <3>1. UNCHANGED Section
      BY <1>1 DEF Section
    <3>2. Section.readable => cursor' = TablePos(file, sec).offsetMap
      <4> HIDE DEF n
      <4> QED
        BY <1>1, <1>2, <2>1, <2>2
    <3> QED
      BY <1>1, <2>1, <3>1, <3>2 DEF CursorKnown, CursorAt, IdsTurn
  <2>4. Len(copyTable) = file.copyStarts[sec]
    BY <1>1 DEF LoadInv, TablesInv, TablesCounted, Behind, CopiesDone, Loading, Body
  <2>5. CopiesPlaced'
    <3>1. \A s \in Sections(file) : s < sec =>
            Placed(file, copyTable, file.copyStarts[s], "copyTable", s)
      BY <1>1 DEF LoadInv, TablesInv, CopiesPlaced, Done, Promised, Loading, Body
    <3>2. "copyTable" \in Tables /\ copyTable \in Seq(EntryOf["copyTable"])
      BY <1>1 DEF Tables, EntryOf
    <3>3. \A s \in Sections(file) : file.copyStarts[s] \in Nat
      BY <1>1, BasesNat
    <3>4. Section.readable => cursor = TablePos(file, sec)["copyTable"]
      BY <2>2
    <3>5. \A s \in Sections(file) : s < sec \/ s = sec =>
            Placed(file, copyTable', file.copyStarts[s], "copyTable", s)
      BY <1>1, <1>3, <1>5, <2>4, <3>1, <3>2, <3>3, <3>4, PlacedNext
    <3> QED
      BY <1>1, <2>1, <3>5 DEF CopiesPlaced, Done
  <2>6. TablesCounted'
    <3>1. Len(copyTable') = file.copyStarts[sec + 1]
      <4>1. "copyTable" \in Tables /\ CopyEntries = EntryOf["copyTable"]
        BY DEF Tables, EntryOf
      <4>2. Len(copyTable \o Appended("read", "copyTable", n)) = Len(copyTable) + n
        <5> HIDE DEF n
        <5> QED
          BY <1>1, <1>2, <4>1, Grown
      <4>3. file.copyStarts[sec + 1] = file.copyStarts[sec] + Section.copy_table_count
        <5>1. sec \in 1..Len(file.sections) + 1
          BY <1>1, FileFacts DEF Sections
        <5> QED
          BY <1>1, <5>1, StartFacts DEF Section
      <4> QED
        BY <1>2, <1>3, <1>5, <2>4, <4>2, <4>3
    <3> QED
      BY <1>1, <2>1, <3>1 DEF LoadInv, TablesInv, TablesCounted, Behind, CopiesDone, OffsetsDone,
         OffsetIdsDone, Loading, Body
  <2>7. /\ IdsPlaced' /\ OffsetsPlaced' /\ OffsetIdsPlaced'
        /\ RelationsOfSections' /\ RelationsFirst'
    BY <1>1, <2>1 DEF LoadInv, TablesInv, IdsPlaced, OffsetsPlaced, OffsetIdsPlaced,
       RelationsOfSections, RelationsFirst, Done, IdsDone, OffsetsDone, OffsetIdsDone,
       RelationsDone, Promised, Loading, Body
  <2> QED
    BY <1>1, <2>1, <2>3, <2>5, <2>6, <2>7 DEF LoadInv, TablesInv, RelationsMapped, Fresh
<1> QED
  BY <1>3, <1>4, <1>5

\* The offset map and its ids have an entry for each record of a sparse table,
\* and none for those of another.
LEMMA OffsetCounts ==
    ASSUME NEW f \in Files, NEW s \in Sections(f)
    PROVE  LET from == f.sections[s]
           IN  /\ Len(from.offsetMap) \in Nat
               /\ from.offset_map_id_count = Len(from.offsetMap)
               /\ Len(from.offsetMapIds) = Len(from.offsetMap)
               /\ HasOffsetMap(f) => f.starts[s + 1] = f.starts[s] + Len(from.offsetMap)
               /\ ~HasOffsetMap(f) => Len(from.offsetMap) = 0
<1>1. "offsetMap" \in Tables
  BY DEF Tables
<1>2. Len(f.sections[s]["offsetMap"]) \in Nat
  BY <1>1, TableFacts
<1> QED
  BY <1>2, LayoutFacts, FileFacts

LEMMA TablesReadOffsetMap ==
    ASSUME TypeOK, LoadInv, ReadOffsetMap
    PROVE  LoadInv'
<1> DEFINE n == Len(Section.offsetMap)
<1>1. /\ file \in Files /\ sec \in Sections(file) /\ pc = "offsetMap" /\ sec \in Nat
      /\ offsetMap \in Seq(OffsetEntries) /\ cursor \in Nat
      /\ UNCHANGED <<file, sec, idList, copyTable, offsetMapIds, relationships, relationshipMap>>
  BY FileFacts DEF TypeOK, StateOK, ReadOffsetMap, Body, Sections
<1>2. /\ n \in Nat /\ Section.offset_map_id_count = n
      /\ HasOffsetMap(file) => file.starts[sec + 1] = file.starts[sec] + n
      /\ ~HasOffsetMap(file) => n = 0
  BY <1>1, OffsetCounts DEF Section
<1>3. PICK outcome \in {"read", "throw"} :
        /\ offsetMap' = offsetMap \o Appended(outcome, "offsetMap", n)
        /\ Continue(outcome, "firstKeys", n * 6)
  BY <1>2 DEF ReadOffsetMap, Outcome, EntrySize
<1>4. CASE outcome = "throw"
  BY <1>1, <1>3, <1>4, AbortKeeps DEF LoadInv, TablesInv, Continue
<1>5. CASE outcome = "read"
  <2>1. pc' = "firstKeys" /\ (Section.readable => cursor' = cursor + n * 6)
    BY <1>3, <1>5 DEF Continue, Moved
  <2>2. Section.readable => cursor = TablePos(file, sec).offsetMap
    BY <1>1, CursorPlaces DEF LoadInv, CursorKnown, Body
  <2>3. CursorKnown'
    <3>1. UNCHANGED Section
      BY <1>1 DEF Section
    <3>2. Section.readable => cursor' = IF HasRelationshipData(file) THEN TablePos(file, sec).offsetMapIds
                                        ELSE TablePos(file, sec).relationHeader
      <4>1. IF HasRelationshipData(file)
            THEN TablePos(file, sec).offsetMapIds = TablePos(file, sec).offsetMap + 6 * n
            ELSE TablePos(file, sec).relationHeader = TablePos(file, sec).offsetMap + 6 * n
        BY <1>1, LayoutFacts DEF Section
      <4> HIDE DEF n
      <4> QED
        BY <1>1, <1>2, <2>1, <2>2, <4>1
    <3> QED
      BY <1>1, <2>1, <3>1, <3>2 DEF CursorKnown, CursorAt, IdsTurn
  <2>4. HasOffsetMap(file) => Len(offsetMap) = file.starts[sec]
    BY <1>1 DEF LoadInv, TablesInv, TablesCounted, Behind, OffsetsDone, Loading, Body
  <2>5. OffsetsPlaced'
    <3>1. \A s \in Sections(file) : s < sec =>
            Placed(file, offsetMap, file.starts[s], "offsetMap", s)
      BY <1>1 DEF LoadInv, TablesInv, OffsetsPlaced, Done, Promised, Loading, Body
    <3>2. "offsetMap" \in Tables /\ offsetMap \in Seq(EntryOf["offsetMap"])
      BY <1>1 DEF Tables, EntryOf
    <3>3. \A s \in Sections(file) : file.starts[s] \in Nat
      BY <1>1, BasesNat
    <3>4. Section.readable => cursor = TablePos(file, sec)["offsetMap"]
      BY <2>2
    <3>5. n > 0 => Len(offsetMap) = file.starts[sec]
      BY <1>2, <2>4
    <3>6. \A s \in Sections(file) : s < sec \/ s = sec =>
            Placed(file, offsetMap', file.starts[s], "offsetMap", s)
      BY <1>1, <1>3, <1>5, <3>1, <3>2, <3>3, <3>4, <3>5, PlacedNext
    <3> QED
      BY <1>1, <2>1, <3>6 DEF OffsetsPlaced, Done
  <2>6. TablesCounted'
    <3>1. HasOffsetMap(file) => Len(offsetMap') = file.starts[sec + 1]
      <4>1. "offsetMap" \in Tables /\ OffsetEntries = EntryOf["offsetMap"]
        BY DEF Tables, EntryOf
      <4>2. Len(offsetMap \o Appended("read", "offsetMap", n)) = Len(offsetMap) + n
        <5> HIDE DEF n
        <5> QED
          BY <1>1, <1>2, <4>1, Grown
      <4> QED
        BY <1>2, <1>3, <1>5, <2>4, <4>2
    <3> QED
      BY <1>1, <2>1, <3>1 DEF LoadInv, TablesInv, TablesCounted, Behind, CopiesDone, OffsetsDone,
         OffsetIdsDone, Loading, Body
  <2>7. /\ IdsPlaced' /\ CopiesPlaced' /\ OffsetIdsPlaced'
        /\ RelationsOfSections' /\ RelationsFirst'
    BY <1>1, <2>1 DEF LoadInv, TablesInv, IdsPlaced, CopiesPlaced, OffsetIdsPlaced,
       RelationsOfSections, RelationsFirst, Done, IdsDone, CopiesDone, OffsetIdsDone,
       RelationsDone, Promised, Loading, Body
  <2> QED
    BY <1>1, <2>1, <2>3, <2>5, <2>6, <2>7 DEF LoadInv, TablesInv, RelationsMapped, Fresh
<1> QED
  BY <1>3, <1>4, <1>5

\* Behind the first or the second of the key tables: which tables are done now.
LEMMA KeysStep ==
    ASSUME file \in Files, sec \in Sections(file), pc \in {"firstKeys", "lastKeys"},
           pc' = AfterKeys, Advance, UNCHANGED file
    PROVE  /\ pc' \in {"lastKeys", "section"} /\ sec \in Nat
           /\ pc' = "lastKeys" => sec' = sec
           /\ pc' = "section" => sec' = sec + 1
           /\ Behind(CopiesDone)' = Behind(CopiesDone)
           /\ Behind(OffsetsDone)' = Behind(OffsetsDone)
           /\ pc = IdsTurn => Behind(OffsetIdsDone) = sec /\ Behind(OffsetIdsDone)' = sec + 1
           /\ pc = RelationsTurn => Behind(OffsetIdsDone)' = Behind(OffsetIdsDone)
           /\ \A s \in Sections(file) :
                /\ Done(s, IdsDone)' <=> Done(s, IdsDone)
                /\ Done(s, CopiesDone)' <=> Done(s, CopiesDone)
                /\ Done(s, OffsetsDone)' <=> Done(s, OffsetsDone)
                /\ pc = IdsTurn =>
                     /\ Done(s, OffsetIdsDone) <=> s < sec
                     /\ Done(s, OffsetIdsDone)' <=> s < sec \/ s = sec
                     /\ Done(s, RelationsDone)' <=> Done(s, RelationsDone)
                /\ pc = RelationsTurn =>
                     /\ Done(s, RelationsDone) <=> s < sec
                     /\ Done(s, RelationsDone)' <=> s < sec \/ s = sec
                     /\ Done(s, OffsetIdsDone)' <=> Done(s, OffsetIdsDone)
<1>1. /\ sec \in Nat /\ Sections(file) \subseteq Nat
      /\ HasRelationshipData(file)' = HasRelationshipData(file)
  BY FileFacts DEF Sections
<1>2. \/ pc = "firstKeys" /\ pc' = "lastKeys" /\ sec' = sec
      \/ pc = "lastKeys" /\ pc' = "section" /\ sec' = sec + 1
  BY DEF AfterKeys, Advance
<1>3. \A s \in Sections(file) : s < sec + 1 <=> s < sec \/ s = sec
  BY <1>1
<1>4. CASE pc = "firstKeys"
  BY <1>1, <1>2, <1>4 DEF Behind, Done, IdsDone, CopiesDone, OffsetsDone, OffsetIdsDone,
     RelationsDone, IdsTurn, RelationsTurn
<1>5. CASE pc = "lastKeys"
  <2>1. \A s \in Sections(file) : s < sec' <=> s < sec \/ s = sec
    BY <1>2, <1>3, <1>5
  <2>2. \A s \in Sections(file) : ~(s < sec /\ s = sec)
    BY <1>1
  <2> QED
    BY <1>1, <1>2, <1>5, <2>1, <2>2 DEF Behind, Done, IdsDone, CopiesDone, OffsetsDone,
       OffsetIdsDone, RelationsDone, IdsTurn, RelationsTurn
<1> QED
  BY <1>4, <1>5

\* The key tables leave the other three as they are.
LEMMA KeysKeep ==
    ASSUME TypeOK, LoadInv, pc \in {"firstKeys", "lastKeys"}, pc' = AfterKeys, Advance,
           UNCHANGED <<file, idList, copyTable, offsetMap, relationshipMap>>
    PROVE  /\ IdsPlaced' /\ CopiesPlaced' /\ OffsetsPlaced' /\ RelationsMapped' /\ Fresh'
           /\ Len(copyTable') = file'.copyStarts[Behind(CopiesDone)']
           /\ HasOffsetMap(file') => Len(offsetMap') = file'.starts[Behind(OffsetsDone)']
<1>1. /\ file \in Files /\ sec \in Sections(file) /\ pc \in Loading /\ Promised /\ pc # "loaded"
      /\ pc \notin {"closed", "opened"}
  BY DEF TypeOK, StateOK, Body, Loading, Promised
<1>2. pc' \in {"lastKeys", "section"}
  BY DEF AfterKeys
<1>3. /\ \A s \in Sections(file) : Done(s, IdsDone)' =>
            Placed(file, idList, file.starts[s], "idList", s)
      /\ \A s \in Sections(file) : Done(s, CopiesDone)' =>
            Placed(file, copyTable, file.copyStarts[s], "copyTable", s)
      /\ \A s \in Sections(file) : Done(s, OffsetsDone)' =>
            Placed(file, offsetMap, file.starts[s], "offsetMap", s)
  BY <1>1, KeysStep DEF LoadInv, TablesInv, IdsPlaced, CopiesPlaced, OffsetsPlaced
<1>4. IdsPlaced' /\ CopiesPlaced' /\ OffsetsPlaced'
  BY <1>3 DEF IdsPlaced, CopiesPlaced, OffsetsPlaced
<1>5. RelationsMapped' /\ Fresh'
  BY <1>1, <1>2 DEF LoadInv, TablesInv, RelationsMapped, Fresh
<1>6. /\ Len(copyTable) = file.copyStarts[Behind(CopiesDone)']
      /\ HasOffsetMap(file) => Len(offsetMap) = file.starts[Behind(OffsetsDone)']
  BY <1>1, KeysStep DEF LoadInv, TablesInv, TablesCounted
<1> QED
  BY <1>4, <1>5, <1>6

LEMMA TablesLoadOffsetMapIds ==
    ASSUME TypeOK, LoadInv, LoadOffsetMapIds
    PROVE  LoadInv'
<1> DEFINE n == Len(Section.offsetMapIds)
<1>1. /\ file \in Files /\ sec \in Sections(file) /\ pc \in {"firstKeys", "lastKeys"} /\ pc = IdsTurn
      /\ offsetMapIds \in Seq(Nat) /\ cursor \in Nat /\ Advance
      /\ UNCHANGED <<file, idList, copyTable, offsetMap, relationships, relationshipMap>>
  BY DEF TypeOK, StateOK, LoadOffsetMapIds, Body
<1>2. /\ n \in Nat /\ Section.offset_map_id_count = n
      /\ HasOffsetMap(file) => file.starts[sec + 1] = file.starts[sec] + n
      /\ ~HasOffsetMap(file) => n = 0
  BY <1>1, OffsetCounts DEF Section
<1>3. PICK outcome \in {"read", "throw"} :
        /\ offsetMapIds' = offsetMapIds \o Appended(outcome, "offsetMapIds", n)
        /\ Continue(outcome, AfterKeys, n * 4)
  BY <1>2 DEF LoadOffsetMapIds, Outcome, EntrySize
<1>4. CASE outcome = "throw"
  BY <1>1, <1>3, <1>4, AbortKeeps DEF LoadInv, TablesInv, Continue
<1>5. CASE outcome = "read"
  <2>1. pc' = AfterKeys /\ (Section.readable => cursor' = cursor + n * 4)
    BY <1>3, <1>5 DEF Continue, Moved
  <2>2. Section.readable => cursor = TablePos(file, sec).offsetMapIds
    BY <1>1, CursorPlaces DEF LoadInv, CursorKnown, Body
  <2>3. CursorKnown'
    <3>1. pc' \in {"lastKeys", "section"}
      BY <2>1 DEF AfterKeys
    <3>2. CASE pc' = "section"
      BY <3>2 DEF CursorKnown, Body
    <3>3. CASE pc' = "lastKeys"
      <4>1. /\ HasRelationshipData(file) /\ pc' = RelationsTurn' /\ sec' = sec
            /\ UNCHANGED Section
        BY <1>1, <2>1, <3>3 DEF AfterKeys, Advance, IdsTurn, RelationsTurn, Section
      <4>2. TablePos(file, sec).relationHeader = TablePos(file, sec).offsetMapIds + 4 * n
        BY <1>1, <4>1, LayoutFacts DEF Section
      <4>3. Section.readable => cursor' = TablePos(file, sec).relationHeader
        <5> HIDE DEF n
        <5> QED
          BY <1>1, <1>2, <2>1, <2>2, <4>2
      <4>4. CursorAt' = TablePos(file, sec).relationHeader
        BY <1>1, <3>3, <4>1 DEF CursorAt, IdsTurn
      <4> QED
        BY <3>3, <4>1, <4>3, <4>4 DEF CursorKnown
    <3> QED
      BY <3>1, <3>2, <3>3
  <2>4. HasOffsetMap(file) => Len(offsetMapIds) = file.starts[sec]
    BY <1>1, <2>1, KeysStep DEF LoadInv, TablesInv, TablesCounted, Loading, Body
  <2>5. OffsetIdsPlaced'
    <3>1. \A s \in Sections(file) : s < sec =>
            Placed(file, offsetMapIds, file.starts[s], "offsetMapIds", s)
      BY <1>1, <2>1, KeysStep DEF LoadInv, TablesInv, OffsetIdsPlaced, Promised, Loading, Body
    <3>2. "offsetMapIds" \in Tables /\ offsetMapIds \in Seq(EntryOf["offsetMapIds"])
      BY <1>1 DEF Tables, EntryOf
    <3>3. \A s \in Sections(file) : file.starts[s] \in Nat
      BY <1>1, BasesNat
    <3>4. Section.readable => cursor = TablePos(file, sec)["offsetMapIds"]
      BY <2>2
    <3>5. n > 0 => Len(offsetMapIds) = file.starts[sec]
      BY <1>2, <2>4
    <3>6. \A s \in Sections(file) : s < sec \/ s = sec =>
            Placed(file, offsetMapIds', file.starts[s], "offsetMapIds", s)
      BY <1>1, <1>3, <1>5, <3>1, <3>2, <3>3, <3>4, <3>5, PlacedNext
    <3>7. \A s \in Sections(file) : Done(s, OffsetIdsDone)' =>
            Placed(file, offsetMapIds', file.starts[s], "offsetMapIds", s)
      BY <1>1, <2>1, <3>6, KeysStep
    <3> QED
      BY <1>1, <3>7 DEF OffsetIdsPlaced
  <2>6. TablesCounted'
    <3>1. HasOffsetMap(file) => Len(offsetMapIds') = file.starts[sec + 1]
      <4>1. "offsetMapIds" \in Tables /\ Nat = EntryOf["offsetMapIds"]
        BY DEF Tables, EntryOf
      <4>2. Len(offsetMapIds \o Appended("read", "offsetMapIds", n)) = Len(offsetMapIds) + n
        <5> HIDE DEF n
        <5>1. /\ Appended("read", "offsetMapIds", n) \in Seq(Nat)
              /\ Len(Appended("read", "offsetMapIds", n)) = n
          BY <1>1, <1>2, <4>1, AppendedFacts
        <5> QED
          BY <1>1, <5>1, ConcatProperties
      <4> QED
        BY <1>2, <1>3, <1>5, <2>4, <4>2
    <3>2. Behind(OffsetIdsDone)' = sec + 1
      BY <1>1, <2>1, KeysStep
    <3> QED
      BY <1>1, <2>1, <3>1, <3>2, KeysKeep DEF TablesCounted
  <2>7. RelationsOfSections' /\ RelationsFirst'
    <3>1. pc \in Loading
      BY <1>1 DEF Loading, Body
    <3>2. \A s \in Sections(file) : Done(s, RelationsDone)' <=> Done(s, RelationsDone)
      BY <1>1, <2>1, KeysStep
    <3>3. RelationsOfSections'
      BY <1>1, <3>1, <3>2 DEF LoadInv, TablesInv, RelationsOfSections
    <3>4. RelationsFirst'
      BY <1>1, <3>1, <3>2 DEF LoadInv, TablesInv, RelationsFirst
    <3> QED
      BY <3>3, <3>4
  <2> QED
    BY <1>1, <2>1, <2>3, <2>5, <2>6, <2>7, KeysKeep DEF LoadInv, TablesInv
<1> QED
  BY <1>3, <1>4, <1>5

\* What reading the relations of a section appends, if nothing throws: those
\* of a readable section, or zeros.
RelationsRead(new) ==
    /\ new \in Seq(RelationEntries)
    /\ \A j \in 1..Len(new) : OfSection(file, new[j], sec)
    /\ Section.readable =>
        /\ Len(new) = Len(Section.relationships)
        /\ \A j \in 1..Len(new) : new[j] = Section.relationships[j]

LEMMA RelationsAppended ==
    ASSUME TypeOK, LoadInv, LoadRelationships, pc' # "aborted"
    PROVE  /\ pc' = AfterKeys
           /\ \E new \in Seq(RelationEntries) :
                RelationsRead(new) /\ relationships' = relationships \o new
           /\ Section.readable =>
                cursor' = TablePos(file, sec).relationHeader + Section.relationship_data_size
<1> DEFINE entries == Section.relationships
           size == Section.relationship_data_size
<1>1. /\ file \in Files /\ sec \in Sections(file) /\ pc \in {"firstKeys", "lastKeys"}
      /\ pc = RelationsTurn /\ cursor \in Nat /\ relationships \in Seq(RelationEntries)
  BY DEF TypeOK, StateOK, LoadRelationships, Body
<1>2. /\ entries \in Seq(RelationEntries) /\ Len(entries) \in Nat /\ size \in Nat
      /\ size = 12 + 8 * Len(entries) \/ (size = 0 /\ Len(entries) = 0)
  <2>1. entries \in Seq(RelationEntries) /\ size \in Nat
    BY <1>1, SectionFacts DEF Section
  <2>2. Len(entries) \in Nat
    BY <2>1, LenProperties
  <2> QED
    BY <1>1, <2>1, <2>2, LayoutFacts DEF Section, IsRelationBlock, RelationHeaderSize
<1>3. Section.readable => cursor = TablePos(file, sec).relationHeader
  BY <1>1, CursorPlaces DEF LoadInv, CursorKnown, Body
<1>4. CASE size = 0
  <2>1. pc' = AfterKeys /\ cursor' = cursor /\ relationships' = relationships
    BY <1>4 DEF LoadRelationships
  <2>2. Len(entries) = 0
    <3> HIDE DEF size, entries
    <3> QED
      BY <1>2, <1>4
  <2>3. RelationsRead(<< >>) /\ << >> \in Seq(RelationEntries)
    BY <2>2, EmptySeq DEF RelationsRead
  <2>4. relationships \o << >> = relationships
    BY <1>1, ConcatEmptySeq
  <2>5. Section.readable => cursor' = TablePos(file, sec).relationHeader + size
    BY <1>1, <1>3, <1>4, <2>1
  <2> QED
    BY <2>1, <2>3, <2>4, <2>5
<1>5. CASE size # 0
  <2>1. PICK n \in Counts :
          /\ relationships' = relationships
                \o Taken(file, sec, "relationships", cursor + RelationHeaderSize, n)
          /\ pc' = AfterKeys
          /\ Section.readable => cursor' = cursor + (RelationHeaderSize + n * 8)
    BY <1>5 DEF LoadRelationships, Continue, Moved, EntrySize
  <2> DEFINE new == Taken(file, sec, "relationships", cursor + RelationHeaderSize, n)
  <2>2. n \in Nat
    BY <1>1, CountsFacts
  <2>3. "relationships" \in Tables /\ RelationEntries = EntryOf["relationships"]
    BY DEF Tables, EntryOf
  <2>4. new \in Seq(RelationEntries) /\ Len(new) = n
    BY <1>1, <2>2, <2>3, TakenFacts
  <2>5. CASE Section.readable
    <3>1. n = Len(entries)
      BY <1>3, <2>5 DEF Counts
    <3>2. TablePos(file, sec)["relationships"] = TablePos(file, sec).relationHeader + RelationHeaderSize
      BY <1>1, LayoutFacts
    <3>3. cursor + RelationHeaderSize = TablePos(file, sec)["relationships"]
      BY <1>3, <2>5, <3>2
    <3>4. \A j \in 1..n : new[j] = entries[j]
      BY <1>1, <1>2, <2>2, <2>5, <3>1, <3>3 DEF Taken, Section
    <3>5. \A j \in 1..Len(new) : OfSection(file, new[j], sec)
      BY <2>4, <2>5, <3>1, <3>4 DEF OfSection, Section
    <3>6. RelationsRead(new)
      BY <2>4, <3>1, <3>4, <3>5 DEF RelationsRead
    <3>7. cursor' = TablePos(file, sec).relationHeader + size
      <4>1. size = RelationHeaderSize + n * 8
        <5> HIDE DEF size, entries
        <5> QED
          BY <1>2, <1>5, <3>1 DEF RelationHeaderSize
      <4> QED
        BY <1>3, <2>1, <2>5, <4>1
    <3> QED
      BY <2>1, <2>4, <3>6, <3>7
  <2>6. CASE ~Section.readable
    <3>1. \A j \in 1..n : new[j] = Filled("relationships", 0)
      BY <2>6 DEF Taken, Section
    <3>2. Filled("relationships", 0).record_index = 0 /\ Filled("relationships", 0).foreign_id = 0
      BY DEF Filled
    <3>3. size > 0
      <4> HIDE DEF size, entries
      <4> QED
        BY <1>2, <1>5
    <3>4. \A j \in 1..Len(new) : OfSection(file, new[j], sec)
      BY <2>4, <3>1, <3>2, <3>3 DEF OfSection, Section
    <3>5. RelationsRead(new)
      BY <2>4, <2>6, <3>4 DEF RelationsRead
    <3> QED
      BY <2>1, <2>4, <2>6, <3>5
  <2> QED
    BY <2>5, <2>6
<1> QED
  BY <1>4, <1>5

LEMMA FirstInGrows ==
    ASSUME NEW list \in Seq(RelationEntries), NEW new \in Seq(RelationEntries),
           NEW entry, FirstIn(list, entry)
    PROVE  FirstIn(list \o new, entry)
<1>1. PICK p \in 1..Len(list) :
        list[p] = entry /\ \A j \in 1..p - 1 : list[j].record_index # entry.record_index
  BY DEF FirstIn
<1>2. Len(list) \in Nat /\ Len(new) \in Nat
  BY LenProperties
<1>3. Len(list \o new) = Len(list) + Len(new)
  BY ConcatProperties
<1>4. \A j \in 1..Len(list) : (list \o new)[j] = list[j]
  BY <1>2, ConcatProperties
<1>5. p \in 1..Len(list \o new) /\ 1..p - 1 \subseteq 1..Len(list)
  BY <1>2, <1>3
<1> QED
  BY <1>1, <1>4, <1>5 DEF FirstIn

\* A record has one relation: no relation read before is for the same record.
LEMMA RelationIsNew ==
    ASSUME NEW f \in Files, NEW s \in Sections(f), NEW t \in Sections(f), t < s,
           NEW k \in 1..Len(f.sections[s].relationships), NEW entry, OfSection(f, entry, t)
    PROVE  entry.record_index # f.sections[s].relationships[k].record_index
<1>1. AreRelations(f)
  BY FilesAssumption DEF IsFile
<1>2. s # t
  BY FileFacts DEF Sections
<1>3. f.sections[t].relationship_data_size > 0 =>
        f.sections[s].relationships[k].record_index > 0
  BY <1>1 DEF AreRelations
<1>4. \A m \in 1..Len(f.sections[t].relationships) :
        f.sections[t].relationships[m].record_index # f.sections[s].relationships[k].record_index
  BY <1>1, <1>2 DEF AreRelations
<1> QED
  BY <1>3, <1>4 DEF OfSection

LEMMA RelationsNext ==
    ASSUME TypeOK, LoadInv, pc \in {"firstKeys", "lastKeys"}, pc = RelationsTurn,
           pc' = AfterKeys, Advance, UNCHANGED file,
           NEW new \in Seq(RelationEntries), RelationsRead(new),
           relationships' = relationships \o new
    PROVE  RelationsOfSections' /\ RelationsFirst'
<1> DEFINE old == relationships
<1>1. file \in Files /\ sec \in Sections(file) /\ old \in Seq(RelationEntries) /\ pc \in Loading
  BY DEF TypeOK, StateOK, Body, Loading
<1>2. /\ Len(old) \in Nat /\ Len(new) \in Nat /\ Len(old \o new) = Len(old) + Len(new)
      /\ \A j \in 1..Len(old) : (old \o new)[j] = old[j]
  BY <1>1, LenProperties, ConcatProperties
<1>3. \A j \in 1..Len(new) :
        Len(old) + j \in 1..Len(old \o new) /\ (old \o new)[Len(old) + j] = new[j]
  <2> TAKE j \in 1..Len(new)
  <2>1. Len(old) + j \in 1..Len(old \o new)
    BY <1>2
  <2>2. (old \o new)[Len(old) + j] = new[(Len(old) + j) - Len(old)]
    BY <1>1, <1>2, <2>1, ConcatProperties
  <2>3. (Len(old) + j) - Len(old) = j
    BY <1>2
  <2> QED
    BY <2>1, <2>2, <2>3
<1>4. \A j \in 1..Len(old \o new) :
        j \in 1..Len(old) \/ \E i \in 1..Len(new) : j = Len(old) + i
  <2> TAKE j \in 1..Len(old \o new)
  <2>1. j > Len(old) => j - Len(old) \in 1..Len(new) /\ j = Len(old) + (j - Len(old))
    BY <1>2
  <2> QED
    BY <1>2, <2>1
<1>5. \A j \in 1..Len(old) : \E t \in Sections(file) : t < sec /\ OfSection(file, old[j], t)
  BY <1>1, KeysStep DEF LoadInv, TablesInv, RelationsOfSections
<1>6. RelationsOfSections'
  <2>1. ASSUME NEW j \in 1..Len(old \o new)
        PROVE  \E t \in Sections(file) :
                  (t < sec \/ t = sec) /\ OfSection(file, (old \o new)[j], t)
    <3>1. CASE j \in 1..Len(old)
      BY <1>2, <1>5, <3>1
    <3>2. ASSUME NEW i \in 1..Len(new), j = Len(old) + i
          PROVE  OfSection(file, (old \o new)[j], sec)
      BY <1>3, <3>2 DEF RelationsRead
    <3> QED
      BY <1>1, <1>4, <3>1, <3>2
  <2>2. \A s \in Sections(file) : Done(s, RelationsDone)' <=> s < sec \/ s = sec
    BY <1>1, KeysStep
  <2> QED
    BY <2>1, <2>2 DEF RelationsOfSections
<1>7. RelationsFirst'
  <2>1. \A s \in Sections(file) : Done(s, RelationsDone)' <=> s < sec \/ s = sec
    BY <1>1, KeysStep
  <2>2. ASSUME NEW s \in Sections(file), s < sec, file.sections[s].readable,
               NEW k \in 1..Len(file.sections[s].relationships)
        PROVE  FirstIn(old \o new, file.sections[s].relationships[k])
    <3>1. FirstIn(old, file.sections[s].relationships[k])
      BY <1>1, <2>2, KeysStep DEF LoadInv, TablesInv, RelationsFirst
    <3> QED
      BY <1>1, <3>1, FirstInGrows
  <2>3. ASSUME Section.readable, NEW k \in 1..Len(Section.relationships)
        PROVE  FirstIn(old \o new, Section.relationships[k])
    <3> DEFINE entry == Section.relationships[k]
    <3>1. Len(new) = Len(Section.relationships) /\ \A j \in 1..Len(new) : new[j] = Section.relationships[j]
      BY <2>3 DEF RelationsRead
    <3>2. (old \o new)[Len(old) + k] = entry /\ Len(old) + k \in 1..Len(old \o new)
      BY <1>3, <3>1
    <3>3. ASSUME NEW j \in 1..(Len(old) + k) - 1
          PROVE  (old \o new)[j].record_index # entry.record_index
      <4>1. CASE j \in 1..Len(old)
        <5>1. PICK t \in Sections(file) : t < sec /\ OfSection(file, old[j], t)
          BY <1>5, <4>1
        <5> QED
          BY <1>1, <1>2, <4>1, <5>1, RelationIsNew DEF Section
      <4>2. CASE j \notin 1..Len(old)
        <5>1. j \in 1..Len(old \o new)
          <6> HIDE DEF entry
          <6> QED
            BY <1>2, <3>1, <3>2
        <5>2. PICK i \in 1..Len(new) : j = Len(old) + i
          BY <1>4, <4>2, <5>1
        <5>3. i # k
          BY <1>2, <3>3, <5>2
        <5>4. (old \o new)[j] = Section.relationships[i] /\ i \in 1..Len(Section.relationships)
          BY <1>3, <3>1, <5>2
        <5>5. AreRelations(file)
          BY <1>1, FilesAssumption DEF IsFile
        <5> QED
          BY <1>1, <5>3, <5>4, <5>5 DEF AreRelations, Section
      <4> QED
        BY <4>1, <4>2
    <3> QED
      BY <3>2, <3>3 DEF FirstIn
  <2>4. ASSUME NEW s \in Sections(file), s < sec \/ s = sec, file.sections[s].readable,
               NEW k \in 1..Len(file.sections[s].relationships)
        PROVE  FirstIn(old \o new, file.sections[s].relationships[k])
    BY <2>2, <2>3, <2>4 DEF Section
  <2> QED
    BY <2>1, <2>4 DEF RelationsFirst
<1> QED
  BY <1>6, <1>7

LEMMA TablesLoadRelationships ==
    ASSUME TypeOK, LoadInv, LoadRelationships
    PROVE  LoadInv'
<1>1. /\ file \in Files /\ sec \in Sections(file) /\ pc \in {"firstKeys", "lastKeys"}
      /\ pc = RelationsTurn /\ Advance
      /\ UNCHANGED <<file, idList, copyTable, offsetMap, offsetMapIds, relationshipMap>>
  BY DEF TypeOK, StateOK, LoadRelationships, Body
<1>2. CASE pc' = "aborted"
  BY <1>1, <1>2, AbortKeeps DEF LoadInv, TablesInv
<1>3. CASE pc' # "aborted"
  <2>1. /\ pc' = AfterKeys
        /\ Section.readable =>
             cursor' = TablePos(file, sec).relationHeader + Section.relationship_data_size
    BY <1>3, RelationsAppended
  <2>2. PICK new \in Seq(RelationEntries) :
          RelationsRead(new) /\ relationships' = relationships \o new
    BY <1>3, RelationsAppended
  <2>3. RelationsOfSections' /\ RelationsFirst'
    BY <1>1, <2>1, <2>2, RelationsNext
  <2>4. CursorKnown'
    <3>1. pc' \in {"lastKeys", "section"}
      BY <2>1 DEF AfterKeys
    <3>2. CASE pc' = "section"
      BY <3>2 DEF CursorKnown, Body
    <3>3. CASE pc' = "lastKeys"
      <4>1. /\ ~HasRelationshipData(file) /\ pc' = IdsTurn' /\ sec' = sec
            /\ UNCHANGED Section
        BY <1>1, <2>1, <3>3 DEF AfterKeys, Advance, IdsTurn, RelationsTurn, Section
      <4>2. TablePos(file, sec).offsetMapIds
              = TablePos(file, sec).relationHeader + Section.relationship_data_size
        BY <1>1, <4>1, LayoutFacts DEF Section
      <4>3. CursorAt' = TablePos(file, sec).offsetMapIds
        BY <1>1, <3>3, <4>1 DEF CursorAt, IdsTurn
      <4> QED
        BY <2>1, <3>3, <4>1, <4>2, <4>3 DEF CursorKnown
    <3> QED
      BY <3>1, <3>2, <3>3
  <2>5. OffsetIdsPlaced'
    <3>1. \A s \in Sections(file) : Done(s, OffsetIdsDone)' <=> Done(s, OffsetIdsDone)
      BY <1>1, <2>1, KeysStep
    <3> QED
      BY <1>1, <3>1 DEF LoadInv, TablesInv, OffsetIdsPlaced, Promised, Loading, Body
  <2>6. TablesCounted'
    <3>1. Behind(OffsetIdsDone)' = Behind(OffsetIdsDone)
      BY <1>1, <2>1, KeysStep
    <3>2. HasOffsetMap(file) => Len(offsetMapIds) = file.starts[Behind(OffsetIdsDone)]
      BY <1>1 DEF LoadInv, TablesInv, TablesCounted, Loading, Body
    <3> QED
      BY <1>1, <2>1, <3>1, <3>2, KeysKeep DEF TablesCounted
  <2> QED
    BY <1>1, <2>1, <2>3, <2>4, <2>5, <2>6, KeysKeep DEF LoadInv, TablesInv
<1> QED
  BY <1>2, <1>3

\* emplace() over an empty map keeps the first relation of each record.
LEMMA EmplacedFirst ==
    ASSUME NEW map, DOMAIN map = {}, NEW entries \in Seq(RelationEntries),
           NEW entry, FirstIn(entries, entry)
    PROVE  Mapped(Emplaced(map, entries), entry)
<1> DEFINE r == entry.record_index
           Is(k) == /\ entries[k].record_index = r
                    /\ \A j \in 1..k-1 : entries[j].record_index # r
<1>1. PICK p \in 1..Len(entries) :
        entries[p] = entry /\ \A j \in 1..p - 1 : entries[j].record_index # r
  BY DEF FirstIn
<1>2. Is(p)
  BY <1>1
<1>3. Len(entries) \in Nat
  BY LenProperties
<1>4. \A k \in 1..Len(entries) : Is(k) => k = p
  <2> SUFFICES ASSUME NEW k \in 1..Len(entries), Is(k), k # p PROVE FALSE
    OBVIOUS
  <2>1. k \in 1..p - 1 \/ p \in 1..k - 1
    BY <1>3
  <2> QED
    BY <1>2, <2>1
<1>5. (CHOOSE k \in 1..Len(entries) : Is(k)) = p
  <2> HIDE DEF Is
  <2> QED
    BY <1>2, <1>4
<1>6. r \in DOMAIN Emplaced(map, entries)
  BY <1>1 DEF Emplaced
<1>7. Emplaced(map, entries)[r] = entries[p].foreign_id
  BY <1>5, <1>6 DEF Emplaced
<1> QED
  BY <1>1, <1>6, <1>7 DEF Mapped

LEMMA TablesFinishLoad ==
    ASSUME TypeOK, LoadInv, FinishLoad
    PROVE  LoadInv'
<1>1. /\ file \in Files /\ pc = "section" /\ pc' = "loaded" /\ sec = Len(file.sections) + 1
      /\ relationships \in Seq(RelationEntries) /\ DOMAIN relationshipMap = {}
      /\ relationshipMap' = Emplaced(relationshipMap, relationships)
      /\ UNCHANGED <<file, sec, idList, copyTable, offsetMap, offsetMapIds>>
  BY FileFacts DEF TypeOK, StateOK, FinishLoad, LoadInv, TablesInv, Fresh
<1>2. \A s \in Sections(file) : s < sec
  BY <1>1, FileFacts DEF Sections
<1>3. IdsPlaced' /\ CopiesPlaced' /\ OffsetsPlaced' /\ OffsetIdsPlaced'
  BY <1>1, <1>2 DEF LoadInv, TablesInv, IdsPlaced, CopiesPlaced, OffsetsPlaced, OffsetIdsPlaced,
     Done, Promised, Loading
<1>4. RelationsMapped'
  <2>1. ASSUME NEW s \in Sections(file), file.sections[s].readable,
               NEW k \in 1..Len(file.sections[s].relationships)
        PROVE  Mapped(relationshipMap', file.sections[s].relationships[k])
    <3>1. FirstIn(relationships, file.sections[s].relationships[k])
      BY <1>1, <1>2, <2>1 DEF LoadInv, TablesInv, RelationsFirst, Done, Loading
    <3> QED
      BY <1>1, <3>1, EmplacedFirst
  <2> QED
    BY <1>1, <2>1 DEF RelationsMapped
<1> QED
  BY <1>1, <1>3, <1>4 DEF LoadInv, TablesInv, CursorKnown, TablesCounted, RelationsOfSections,
     RelationsFirst, Fresh, Loading, Body

LEMMA LoadInvLoads == TypeOK /\ LoadInv => TablesLoaded
<1> SUFFICES ASSUME TypeOK, LoadInv, pc = "loaded", NEW s \in Sections(file)
             PROVE  LET from == file.sections[s]
                        base == file.starts[s]
                    IN  /\ \A k \in 1..Len(from.idList) :
                             idList[base + k] = IF from.readable THEN from.idList[k] ELSE 0
                        /\ from.readable =>
                             /\ \A k \in 1..Len(from.copyTable) :
                                    copyTable[file.copyStarts[s] + k] = from.copyTable[k]
                             /\ \A k \in 1..Len(from.offsetMap) :
                                    /\ offsetMap[base + k] = from.offsetMap[k]
                                    /\ offsetMapIds[base + k] = from.offsetMapIds[k]
                             /\ \A k \in 1..Len(from.relationships) :
                                    Mapped(relationshipMap, from.relationships[k])
  BY DEF TablesLoaded, Mapped
<1>1. file \in Files /\ Promised
  BY DEF TypeOK, StateOK, Promised
<1>2. Done(s, IdsDone) /\ Done(s, CopiesDone) /\ Done(s, OffsetsDone) /\ Done(s, OffsetIdsDone)
  BY <1>1, FileFacts DEF LoadInv, TablesInv, Fresh, Done, Sections
<1>3. /\ Placed(file, idList, file.starts[s], "idList", s)
      /\ Placed(file, copyTable, file.copyStarts[s], "copyTable", s)
      /\ Placed(file, offsetMap, file.starts[s], "offsetMap", s)
      /\ Placed(file, offsetMapIds, file.starts[s], "offsetMapIds", s)
  BY <1>1, <1>2 DEF LoadInv, TablesInv, IdsPlaced, CopiesPlaced, OffsetsPlaced, OffsetIdsPlaced
<1>4. Filled("idList", 0) = 0
  BY DEF Filled
<1>5. Len(file.sections[s].offsetMapIds) = Len(file.sections[s].offsetMap)
  BY <1>1, OffsetCounts
<1>6. file.sections[s].readable => \A k \in 1..Len(file.sections[s].relationships) :
        Mapped(relationshipMap, file.sections[s].relationships[k])
  BY DEF LoadInv, TablesInv, RelationsMapped
<1> QED
  BY <1>3, <1>4, <1>5, <1>6 DEF Placed, Entry

\* Neither a step of open() and load() nor one of neither breaks it.
LEMMA LoadInvStep ==
    ASSUME MaxLoads = 1, TypeOK, CountedIds, LoadInv, FileNext
    PROVE  LoadInv'
BY TablesOpen, TablesLoad, TablesEnterSection, TablesReadIdList, TablesReadCopyTable,
   TablesReadOffsetMap, TablesLoadOffsetMapIds, TablesLoadRelationships, TablesFinishLoad
   DEF FileNext, LoadStep

LEMMA LoadInvStutter ==
    ASSUME LoadInv, UNCHANGED vars
    PROVE  LoadInv'
<1>1. /\ UNCHANGED <<Section, CursorAt, UnexpectedIdList(file, Section)>>
      /\ UNCHANGED <<Behind(CopiesDone), Behind(OffsetsDone), Behind(OffsetIdsDone)>>
  BY DEF vars, Section, CursorAt, IdsTurn, UnexpectedIdList, Behind, OffsetIdsDone
<1>2. \A s \in Sections(file) :
        /\ Done(s, IdsDone)' = Done(s, IdsDone)
        /\ Done(s, CopiesDone)' = Done(s, CopiesDone)
        /\ Done(s, OffsetsDone)' = Done(s, OffsetsDone)
        /\ Done(s, OffsetIdsDone)' = Done(s, OffsetIdsDone)
        /\ Done(s, RelationsDone)' = Done(s, RelationsDone)
  BY DEF vars, Done, IdsDone, CopiesDone, OffsetsDone, OffsetIdsDone, RelationsDone
<1>3. CursorKnown' /\ TablesCounted' /\ RelationsMapped' /\ Fresh'
  BY <1>1 DEF vars, tableVars, LoadInv, TablesInv, CursorKnown, TablesCounted,
     RelationsMapped, Fresh
<1>4. IdsPlaced' /\ CopiesPlaced' /\ OffsetsPlaced' /\ OffsetIdsPlaced'
  BY <1>2 DEF vars, tableVars, LoadInv, TablesInv, IdsPlaced, CopiesPlaced,
     OffsetsPlaced, OffsetIdsPlaced, Promised
<1>5. RelationsOfSections' /\ RelationsFirst'
  BY <1>2 DEF vars, tableVars, LoadInv, TablesInv, RelationsOfSections, RelationsFirst
<1> QED
  BY <1>3, <1>4, <1>5 DEF LoadInv, TablesInv

(* load() called once reads every table of every section from where it     *)
(* lies, whichever order the header flag gives them, whatever a read finds *)
(* behind a section it cannot read, and however many sections there are:   *)
(* each is behind the tables of the sections before it, and each relation  *)
(* is found by its record.  Called again after a load() that threw, it puts*)
(* the tables behind what that one has left, and the places are others.    *)
THEOREM LoadedOnceTables ==
    ASSUME MaxLoads = 1
    PROVE  Spec => []TablesLoaded
<1> DEFINE Inv == TypeOK /\ CountedIds /\ LoadInv
<1>1. Init => Inv
  BY TypeInit, CountedInit, TablesInvInit
<1>2. TypeOK' /\ Inv /\ [FileNext]_vars => CountedIds'
  <2> SUFFICES ASSUME TypeOK, CountedIds, [FileNext]_vars PROVE CountedIds'
    OBVIOUS
  <2>1. CASE Open
    BY <2>1 DEF Open, CountedIds, tableVars, Body
  <2>2. CASE UNCHANGED vars
    <3>1. UNCHANGED Section
      BY <2>2 DEF vars, Section
    <3> QED
      BY <2>2, <3>1 DEF CountedIds, vars, tableVars
  <2> QED
    BY <2>1, <2>2, CountedLoad, CountedEnterSection, CountedReadIdList, CountedTables,
       CountedKeys, CountedFinishLoad DEF FileNext, LoadStep
<1>3. Inv /\ [FileNext]_vars => LoadInv'
  BY LoadInvStep, LoadInvStutter
<1>4. Inv => TablesLoaded
  BY LoadInvLoads
<1> QED
  BY <1>1, <1>2, <1>3, <1>4, TypeCorrect, PTL DEF Spec
==============================================================================
