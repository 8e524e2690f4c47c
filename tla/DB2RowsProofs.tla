--------------------------- MODULE DB2RowsProofs ---------------------------
(***************************************************************************)
(* Theorems about operator[], for every set of well-formed files and every *)
(* bound on faults, when load() is called once.                            *)
(*                                                                         *)
(* SectionsInRange and RowsTypeCorrect hold of any such file.  RowsInv says*)
(* how far the running ends of the sections have got, that the id list has *)
(* an id for each record or is empty, and that the walk of getSectionIndex *)
(* has taken off exactly the records it passed; TypedInv adds the types.   *)
(*                                                                         *)
(* RowsImplementTable and what follows from it hold of files that are      *)
(* tables (DB2Table's IsTable).  TableInv adds where each entry of the     *)
(* loaded tables stands, which record a call is on, and what the buffer    *)
(* holds of it.                                                            *)
(***************************************************************************)
EXTENDS DB2Rows, DB2FileProofs

Read == {"loaded"} \union Reading

\* DB2LoaderStandard::_section_offsets against the header.
SectionEnds ==
    /\ pc \in {"closed", "opened"} => sectionOffsets = << >>
    /\ \A k \in 1..Len(sectionOffsets) :
        k \in Sections(file) => sectionOffsets[k] = file.starts[k + 1]
    /\ ~HasOffsetMap(file) =>
        /\ pc = "section" => Len(sectionOffsets) = sec - 1
        /\ pc \in Body => Len(sectionOffsets) = sec
        /\ pc \in Read => Len(sectionOffsets) = Len(file.sections)

\* The id list of a table without one, and of a loaded table.
IdsKnown ==
    /\ pc = "idList" /\ ~file.useIdList => Section.id_list_size = 0
    /\ ~file.useIdList => Len(idList) = 0
    /\ pc \in Read /\ file.useIdList => Len(idList) = file.record_count

\* getSectionIndex on its way, and at its end.
Walk ==
    /\ pc = "find" =>
        /\ lookup \in 0..file.record_count - 1
        /\ section \in 1..Len(file.sections) + 1
        /\ rest \in Nat
        /\ rest + file.starts[section] = lookup
    /\ pc \in {"read", "decode"} =>
        /\ lookup \in Nat
        /\ section \in Sections(file)
        /\ lookup - file.starts[section] \in 0..file.sections[section].record_count - 1

RowsInv ==
    /\ StateOK /\ pc \in Places \union Reading
    /\ CountedIds /\ SectionEnds /\ IdsKnown
    /\ pc = "lookup" => index \in Nat
    /\ Walk

------------------------------------------------------------------------------
LEMMA RowsInvInit == RowsInit => RowsInv
<1> SUFFICES ASSUME RowsInit PROVE RowsInv
  OBVIOUS
<1>1. TypeOK /\ CountedIds
  BY TypeInit, CountedInit DEF RowsInit
<1>2. pc = "closed" /\ idList = << >> /\ sectionOffsets = << >>
  BY DEF RowsInit, Init
<1> QED
  BY <1>1, <1>2, EmptySeq DEF RowsInv, TypeOK, SectionEnds, IdsKnown, Walk, Read, Reading, Body

\* What the steps of open() and load() keep: their own invariants carry over.
LEMMA FileStep ==
    ASSUME RowsInv, FileNext
    PROVE  TypeOK /\ TypeOK'
<1>1. pc \in Places
  BY DEF RowsInv, FileNext, LoadStep, Open, Load, EnterSection, ReadIdList, ReadCopyTable,
         ReadOffsetMap, LoadOffsetMapIds, LoadRelationships, FinishLoad, Places, Body
<1>2. TypeOK
  BY <1>1 DEF RowsInv, TypeOK
<1>3. TypeOK'
  BY <1>2, TypeOpen, TypeLoad, TypeEnterSection, TypeReadIdList, TypeReadCopyTable,
     TypeReadOffsetMap, TypeLoadOffsetMapIds, TypeLoadRelationships, TypeFinishLoad
     DEF FileNext, LoadStep
<1> QED
  BY <1>2, <1>3

LEMMA EnterSectionKeeps ==
    ASSUME RowsInv, EnterSection, TypeOK
    PROVE  SectionEnds' /\ IdsKnown'
<1>1. /\ file \in Files /\ sec \in Sections(file) /\ pc = "section"
      /\ sectionOffsets \in Seq(Nat)
      /\ pc' \in {"idList", "aborted"}
      /\ UNCHANGED <<file, sec, idList>>
  BY FileFacts DEF TypeOK, StateOK, EnterSection, tableVars, Sections
<1>2. IdsKnown'
  <2>1. pc' = "idList" /\ ~file.useIdList => Section.id_list_size = 0
    <3>1. Section.id_list_size \in Nat
      BY <1>1, SectionFacts DEF Section
    <3> QED
      BY <3>1 DEF EnterSection, IdListRefused, UnexpectedIdList
  <2> QED
    BY <1>1, <2>1 DEF RowsInv, IdsKnown, Section, Read, Reading
<1>3. CASE UNCHANGED sectionOffsets /\ (pc' = "aborted" \/ HasOffsetMap(file))
  BY <1>1, <1>2, <1>3 DEF RowsInv, SectionEnds, Read, Reading, Body
<1>4. CASE /\ ~HasOffsetMap(file)
           /\ pc' = "idList"
           /\ sectionOffsets' = Append(sectionOffsets, LastEnd + Section.record_count)
  <2>1. Len(sectionOffsets) = sec - 1
    BY <1>1, <1>4 DEF RowsInv, SectionEnds
  <2>2. LastEnd = file.starts[sec]
    <3>1. CASE sec = 1
      <4>1. Len(sectionOffsets) = 0
        BY <2>1, <3>1
      <4>2. sectionOffsets = << >>
        BY <1>1, <4>1, EmptySeq
      <4>3. file.starts[1] = 0
        BY <1>1, FileFacts
      <4> QED
        BY <3>1, <4>2, <4>3 DEF LastEnd
    <3>2. CASE sec # 1
      <4>1. /\ Len(sectionOffsets) \in 1..Len(sectionOffsets) /\ sectionOffsets # << >>
            /\ Len(sectionOffsets) \in Sections(file)
        <5>1. sec \in 1..Len(file.sections) /\ Len(file.sections) \in Nat
          BY <1>1, FileFacts DEF Sections
        <5>2. Len(sectionOffsets) \in 1..Len(file.sections)
          BY <2>1, <3>2, <5>1
        <5>3. Len(<< >>) = 0
          BY EmptySeq
        <5> QED
          BY <5>2, <5>3 DEF Sections
      <4>2. LastEnd = file.starts[Len(sectionOffsets) + 1]
        BY <4>1 DEF RowsInv, SectionEnds, LastEnd
      <4> QED
        BY <1>1, <2>1, <4>2, FileFacts DEF Sections
    <3> QED
      BY <3>1, <3>2
  <2>3. LastEnd + Section.record_count = file.starts[sec + 1]
    <3>1. file.starts[sec + 1] = file.starts[sec] + file.sections[sec].record_count
      BY <1>1, FileFacts
    <3> QED
      BY <2>2, <3>1 DEF Section
  <2>4. file.starts[sec + 1] \in Nat
    BY <1>1, FileFacts, ElementOfSeq DEF Sections
  <2>5. sec \in Nat /\ Len(sectionOffsets) + 1 = sec
    BY <1>1, <2>1, FileFacts DEF Sections
  <2>6. /\ Len(sectionOffsets') = sec
        /\ \A k \in 1..Len(sectionOffsets) : sectionOffsets'[k] = sectionOffsets[k]
        /\ sectionOffsets'[sec] = file.starts[sec + 1]
    <3> DEFINE end == LastEnd + Section.record_count
    <3>1. end \in Nat
      BY <2>3, <2>4
    <3> HIDE DEF end
    <3>2. sectionOffsets' = Append(sectionOffsets, end)
      BY <1>4 DEF end
    <3>3. end = file.starts[sec + 1]
      BY <2>3 DEF end
    <3> QED
      BY <1>1, <2>5, <3>1, <3>2, <3>3, AppendProperties
  <2>7. ASSUME NEW k \in 1..sec, k \in Sections(file)
        PROVE  sectionOffsets'[k] = file.starts[k + 1]
    <3>1. CASE k = sec
      BY <2>6, <3>1
    <3>2. CASE k # sec
      <4>1. k \in 1..Len(sectionOffsets)
        BY <2>5, <3>2
      <4> QED
        BY <2>6, <2>7, <4>1 DEF RowsInv, SectionEnds
    <3> QED
      BY <3>1, <3>2
  <2> QED
    BY <1>1, <1>2, <1>4, <2>6, <2>7 DEF SectionEnds, Read, Reading, Body
<1> QED
  BY <1>2, <1>3, <1>4 DEF EnterSection

LEMMA ReadIdListKeeps ==
    ASSUME RowsInv, ReadIdList, TypeOK
    PROVE  SectionEnds' /\ IdsKnown'
<1> DEFINE n == Section.id_list_size \div 4
<1>1. /\ file \in Files /\ sec \in Sections(file) /\ pc = "idList"
      /\ idList \in Seq(Nat)
      /\ pc' \in {"copyTable", "aborted"}
      /\ UNCHANGED <<file, sec, sectionOffsets>>
  BY DEF TypeOK, StateOK, ReadIdList, Body, Continue
<1>2. SectionEnds'
  BY <1>1 DEF RowsInv, SectionEnds, Read, Reading, Body
<1>3. ASSUME ~file.useIdList
      PROVE  Len(idList') = 0
  <2>1. Section.id_list_size = 0
    BY <1>1, <1>3 DEF RowsInv, IdsKnown
  <2>2. n = 0
    BY <2>1
  <2>3. PICK outcome \in Outcome(n) : idList' = idList \o Appended(outcome, "idList", n)
    BY DEF ReadIdList
  <2>4. /\ Appended(outcome, "idList", 0) \in Seq(Nat)
        /\ Len(Appended(outcome, "idList", 0)) = 0
    <3>1. Nat = EntryOf["idList"] /\ "idList" \in Tables
      BY DEF EntryOf, Tables
    <3> QED
      BY <1>1, <3>1, AppendedFacts
  <2>5. Len(idList \o Appended(outcome, "idList", 0)) = Len(idList) + 0
    BY <1>1, <2>4, ConcatProperties
  <2> QED
    BY <1>3, <2>2, <2>3, <2>5 DEF RowsInv, IdsKnown
<1> QED
  BY <1>1, <1>2, <1>3 DEF IdsKnown, Read, Reading

LEMMA LoadKeeps ==
    ASSUME MaxLoads = 1, RowsInv, Load, TypeOK
    PROVE  SectionEnds' /\ IdsKnown'
<1>1. pc = "opened" /\ pc' = "section" /\ sec' = 1
  BY DEF TypeOK, StateOK, RowsInv, CountedIds, Load
<1>2. sectionOffsets = << >> /\ UNCHANGED <<file, sectionOffsets, idList>>
  BY <1>1 DEF RowsInv, SectionEnds, Load, tableVars
<1> QED
  BY <1>1, <1>2, EmptySeq DEF RowsInv, SectionEnds, IdsKnown, Read, Reading, Body

LEMMA FinishLoadKeeps ==
    ASSUME RowsInv, FinishLoad, TypeOK
    PROVE  SectionEnds' /\ IdsKnown'
<1>1. /\ file \in Files /\ sec = Len(file.sections) + 1 /\ pc = "section" /\ pc' = "loaded"
      /\ UNCHANGED <<file, sec, sectionOffsets, idList>>
  BY FileFacts DEF TypeOK, StateOK, FinishLoad
<1>2. file.useIdList => Len(idList') = file.record_count
  BY <1>1, CountedFinishLoad DEF RowsInv, IdListMatchesHeader
<1>3. ~HasOffsetMap(file) => Len(sectionOffsets) = Len(file.sections)
  BY <1>1, FileFacts DEF RowsInv, SectionEnds
<1> QED
  BY <1>1, <1>2, <1>3 DEF RowsInv, SectionEnds, IdsKnown, Read, Reading, Body

\* The other steps of load() touch neither the running ends nor the id list.
LEMMA TablesKeep ==
    ASSUME RowsInv, TypeOK,
           ReadCopyTable \/ ReadOffsetMap \/ LoadOffsetMapIds \/ LoadRelationships
    PROVE  SectionEnds' /\ IdsKnown'
<1>1. /\ file \in Files /\ sec \in Sections(file) /\ pc \in Body \ {"idList"}
      /\ UNCHANGED <<file, sectionOffsets, idList>>
  BY DEF TypeOK, StateOK, ReadCopyTable, ReadOffsetMap, LoadOffsetMapIds, LoadRelationships, Body
<1>2. /\ pc' \in {"offsetMap", "firstKeys", "lastKeys", "section", "aborted"}
      /\ pc' \in Body => sec' = sec
      /\ pc' = "section" => sec' = sec + 1
  <2>1. CASE ReadCopyTable \/ ReadOffsetMap
    BY <2>1 DEF ReadCopyTable, ReadOffsetMap, Continue, Body
  <2>2. CASE LoadOffsetMapIds \/ LoadRelationships
    <3>1. pc \in {"firstKeys", "lastKeys"} /\ pc' \in {AfterKeys, "aborted"} /\ Advance
      BY <2>2 DEF LoadOffsetMapIds, LoadRelationships, Continue
    <3> QED
      BY <1>1, <3>1, AdvanceFacts DEF Body
  <2> QED
    BY <2>1, <2>2
<1>3. IdsKnown'
  BY <1>1, <1>2 DEF RowsInv, IdsKnown, Read, Reading
<1>4. ~HasOffsetMap(file) => Len(sectionOffsets) = sec
  BY <1>1 DEF RowsInv, SectionEnds
<1>5. sec \in Nat
  BY <1>1, FileFacts DEF Sections
<1> QED
  BY <1>1, <1>2, <1>3, <1>4, <1>5 DEF RowsInv, SectionEnds, Read, Reading, Body

LEMMA FileStepKeeps ==
    ASSUME MaxLoads = 1, RowsInv, FileNext, UNCHANGED rowVars
    PROVE  RowsInv'
<1>1. TypeOK /\ TypeOK'
  BY FileStep
<1>2. StateOK' /\ pc' \in Places
  BY <1>1 DEF TypeOK
<1>3. CountedIds'
  <2>1. CASE Open
    <3>1. pc = "closed" /\ pc' \in {"closed", "opened"} /\ UNCHANGED <<loads, idList>>
      BY <2>1 DEF Open, tableVars
    <3> QED
      BY <3>1 DEF RowsInv, CountedIds, Body
  <2> QED
    BY <1>1, <2>1, CountedLoad, CountedEnterSection, CountedReadIdList, CountedTables,
       CountedKeys, CountedFinishLoad DEF RowsInv, FileNext, LoadStep
<1>4. SectionEnds' /\ IdsKnown'
  <2>1. CASE Open
    <3>1. /\ pc = "closed" /\ pc' \in {"closed", "opened"}
          /\ UNCHANGED <<file, sectionOffsets, idList>>
      BY <2>1 DEF Open, tableVars
    <3> QED
      BY <3>1 DEF RowsInv, SectionEnds, IdsKnown, Read, Reading, Body
  <2> QED
    BY <1>1, <2>1, LoadKeeps, EnterSectionKeeps, ReadIdListKeeps, TablesKeep, FinishLoadKeeps
       DEF FileNext, LoadStep
<1> QED
  BY <1>2, <1>3, <1>4 DEF RowsInv, Walk, Places, Body, Reading

------------------------------------------------------------------------------
\* What the steps of operator[] share: they stay inside it, and leave what
\* load() has built.
ReadSteps ==
    /\ pc \in Read /\ pc' \in Read
    /\ UNCHANGED <<file, opens, loads, cursor, sec, commonData, sectionOffsets,
                   idList, copyTable, offsetMap, offsetMapIds, relationships>>

LEMMA ReadStepKeeps ==
    ASSUME RowsInv, ReadSteps, faults' \in 0..MaxFaults,
           DOMAIN relationshipMap' \subseteq Nat,
           \A r \in DOMAIN relationshipMap' : relationshipMap'[r] \in Nat
    PROVE  /\ StateOK' /\ pc' \in Places \union Reading
           /\ CountedIds' /\ SectionEnds' /\ IdsKnown'
<1>1. StateOK' /\ pc' \in Places \union Reading
  BY DEF RowsInv, StateOK, ReadSteps, Read, Reading, Places, Body
<1>2. CountedIds'
  BY DEF RowsInv, CountedIds, ReadSteps, Read, Reading, Body
<1>3. SectionEnds' /\ IdsKnown'
  BY DEF RowsInv, SectionEnds, IdsKnown, ReadSteps, Read, Reading, Body
<1> QED
  BY <1>1, <1>2, <1>3

\* An exception ends the call; nothing of the walk is left to be in range.
LEMMA AskKeeps ==
    ASSUME RowsInv, NEW i \in Nat, Ask(i)
    PROVE  RowsInv'
<1>1. ReadSteps /\ UNCHANGED <<faults, relationshipMap>> /\ pc' = "lookup" /\ index' = i
  BY DEF Ask, ReadSteps, Read, Reading, tableVars
<1>2. /\ StateOK' /\ pc' \in Places \union Reading
      /\ CountedIds' /\ SectionEnds' /\ IdsKnown'
  BY <1>1, ReadStepKeeps DEF RowsInv, StateOK
<1> QED
  BY <1>1, <1>2 DEF RowsInv, Walk

LEMMA FoundAtFacts ==
    ASSUME NEW ids, Len(ids) \in Nat, NEW id, \E k \in 1..Len(ids) : ids[k] = id
    PROVE  FoundAt(ids, id) \in 1..Len(ids)
<1> DEFINE hits == {k \in 1..Len(ids) : ids[k] = id}
<1>1. PICK k \in hits : \A j \in hits : k <= j
  <2>1. hits # {} /\ hits \subseteq Nat
    OBVIOUS
  <2> QED
    BY <2>1, LeastNatural
<1>2. \A j \in 1..k-1 : ids[j] # id
  BY <1>1
<1> QED
  BY <1>1, <1>2 DEF FoundAt

LEMMA LookupKeeps ==
    ASSUME RowsInv, Lookup
    PROVE  RowsInv'
<1>1. /\ pc = "lookup" /\ pc' \in {"find", "loaded"} /\ index \in Nat /\ file \in Files
      /\ idList \in Seq(Nat)
      /\ UNCHANGED <<file, opens, loads, faults, cursor, sec, commonData, sectionOffsets,
                     tableVars, index>>
  BY DEF Lookup, StartFind, Throws, RowsInv, StateOK
<1>2. ReadSteps /\ UNCHANGED <<faults, relationshipMap>>
  BY <1>1 DEF ReadSteps, Read, Reading, tableVars
<1>3. /\ StateOK' /\ pc' \in Places \union Reading
      /\ CountedIds' /\ SectionEnds' /\ IdsKnown'
  BY <1>2, ReadStepKeeps DEF RowsInv, StateOK
<1>4. ASSUME pc' = "find"
      PROVE  lookup' \in 0..file.record_count - 1 /\ rest' = lookup' /\ section' = 1
  <2>1. CASE index < file.record_count
    BY <1>1, <2>1, FileFacts DEF Lookup, StartFind
  <2>2. CASE ~(index < file.record_count)
    <3> DEFINE entry == copyTable[index - file.record_count + 1]
    <3>1. /\ \E k \in 1..Len(idList) : idList[k] = entry.id_of_copied_row
          /\ StartFind(FoundAt(idList, entry.id_of_copied_row) - 1)
      BY <1>4, <2>2 DEF Lookup, Throws
    <3>2. Len(idList) \in Nat
      BY <1>1, LenProperties
    <3>3. FoundAt(idList, entry.id_of_copied_row) \in 1..Len(idList)
      BY <3>1, <3>2, FoundAtFacts
    <3>4. Len(idList) = file.record_count
      BY <1>1, <3>1, <3>2, FileFacts DEF RowsInv, IdsKnown, Read, Reading
    <3> QED
      BY <3>1, <3>2, <3>3, <3>4 DEF StartFind
  <2> QED
    BY <2>1, <2>2
<1>5. Walk'
  BY <1>1, <1>4, FileFacts DEF Walk
<1> QED
  BY <1>1, <1>3, <1>5 DEF RowsInv

LEMMA FindSectionKeeps ==
    ASSUME RowsInv, FindSection
    PROVE  RowsInv'
<1>1. /\ pc = "find" /\ pc' \in {"find", "read"} /\ file \in Files
      /\ UNCHANGED <<file, opens, loads, faults, cursor, sec, commonData, sectionOffsets,
                     tableVars, lookup>>
  BY DEF FindSection, RowsInv, StateOK
<1>2. ReadSteps /\ UNCHANGED <<faults, relationshipMap>>
  BY <1>1 DEF ReadSteps, Read, Reading, tableVars
<1>3. /\ StateOK' /\ pc' \in Places \union Reading
      /\ CountedIds' /\ SectionEnds' /\ IdsKnown'
  BY <1>2, ReadStepKeeps DEF RowsInv, StateOK
<1>4. /\ lookup \in 0..file.record_count - 1 /\ rest \in Nat
      /\ section \in 1..Len(file.sections) + 1
      /\ rest + file.starts[section] = lookup
  BY <1>1 DEF RowsInv, Walk
<1>5. \A s \in 1..Len(file.sections) + 1 : file.starts[s] \in Nat
  BY <1>1, FileFacts, ElementOfSeq
<1>6. ASSUME section \in Sections(file)
      PROVE  /\ SectionSize(section) = file.sections[section].record_count
             /\ SectionSize(section) \in Nat
             /\ file.starts[section + 1] = file.starts[section] + SectionSize(section)
  BY <1>1, <1>6, FileFacts, SectionFacts, FilesAssumption DEF IsFile, SectionSize
<1>7. CASE section <= Len(file.sections) /\ ~Within(section, rest)
  <2>1. section \in Sections(file)
    BY <1>1, <1>4, <1>7, FileFacts DEF Sections
  <2>2. /\ rest' = rest - SectionSize(section) /\ section' = section + 1 /\ pc' = "find"
        /\ rest >= SectionSize(section)
    BY <1>1, <1>4, <1>6, <1>7, <2>1 DEF FindSection, Within, SectionBehind
  <2>3. section' \in 1..Len(file.sections) + 1
    BY <1>1, <2>1, <2>2, FileFacts DEF Sections
  <2>4. rest' \in Nat
    BY <1>4, <1>6, <2>1, <2>2
  <2>5. rest' + file.starts[section'] = lookup
    BY <1>4, <1>5, <1>6, <2>1, <2>2
  <2>6. Walk'
    BY <1>1, <1>4, <2>2, <2>3, <2>4, <2>5 DEF Walk
  <2> QED
    BY <1>1, <1>3, <2>6 DEF RowsInv
<1>8. CASE ~(section <= Len(file.sections) /\ ~Within(section, rest))
  <2>1. pc' = "read" /\ UNCHANGED <<rest, section>>
    BY <1>8 DEF FindSection
  <2>2. section # Len(file.sections) + 1
    BY <1>1, <1>4, FileFacts
  <2>3. section \in Sections(file)
    BY <1>1, <1>4, <2>2, FileFacts DEF Sections
  <2>4. rest < SectionSize(section)
    BY <1>1, <1>4, <1>8, <2>3, FileFacts DEF Within, Sections
  <2>5. lookup - file.starts[section] = rest
    BY <1>4, <1>5
  <2>6. rest \in 0..file.sections[section].record_count - 1
    BY <1>4, <1>6, <2>3, <2>4
  <2>7. lookup \in Nat
    BY <1>1, <1>4, FileFacts
  <2>8. Walk'
    BY <1>1, <2>1, <2>3, <2>5, <2>6, <2>7 DEF Walk
  <2> QED
    BY <1>1, <1>3, <2>8 DEF RowsInv
<1> QED
  BY <1>7, <1>8

LEMMA ReadRecordKeeps ==
    ASSUME RowsInv, ReadRecord
    PROVE  RowsInv'
<1>1. /\ pc = "read" /\ pc' \in {"decode", "loaded"}
      /\ UNCHANGED <<file, opens, loads, cursor, sec, commonData, sectionOffsets,
                     tableVars, lookup, section>>
  BY DEF ReadRecord, SourceThrows, Throws
<1>2. ReadSteps /\ UNCHANGED relationshipMap
  BY <1>1 DEF ReadSteps, Read, Reading, tableVars
<1>3. faults' \in 0..MaxFaults
  <2>1. faults' = faults \/ (faults < MaxFaults /\ faults' = faults + 1)
    BY DEF ReadRecord, SourceThrows
  <2>2. faults \in 0..MaxFaults
    BY DEF RowsInv, StateOK
  <2> QED
    BY <2>1, <2>2, BoundsAssumption
<1>4. /\ StateOK' /\ pc' \in Places \union Reading
      /\ CountedIds' /\ SectionEnds' /\ IdsKnown'
  BY <1>2, <1>3, ReadStepKeeps DEF RowsInv, StateOK
<1>5. Walk'
  BY <1>1 DEF RowsInv, Walk
<1> QED
  BY <1>1, <1>4, <1>5 DEF RowsInv

LEMMA DecodeKeeps ==
    ASSUME RowsInv, Decode
    PROVE  RowsInv'
<1>1. /\ pc = "decode" /\ pc' = "loaded"
      /\ UNCHANGED <<file, opens, loads, cursor, sec, commonData, sectionOffsets,
                     idList, copyTable, offsetMap, offsetMapIds, relationships>>
  BY DEF Decode, SourceThrows, Throws, Returns
<1>2. ReadSteps
  BY <1>1 DEF ReadSteps, Read, Reading
<1>3. faults' \in 0..MaxFaults
  <2>1. faults' = faults \/ (faults < MaxFaults /\ faults' = faults + 1)
    BY DEF Decode, SourceThrows
  <2>2. faults \in 0..MaxFaults
    BY DEF RowsInv, StateOK
  <2> QED
    BY <2>1, <2>2, BoundsAssumption
<1>4. relationshipMap' \in {relationshipMap, WithDefault(relationshipMap, lookup)}
  BY DEF Decode
<1>5. lookup \in Nat
  BY <1>1 DEF RowsInv, Walk
<1>6. /\ DOMAIN relationshipMap' \subseteq Nat
      /\ \A r \in DOMAIN relationshipMap' : relationshipMap'[r] \in Nat
  BY <1>4, <1>5 DEF RowsInv, StateOK, WithDefault
<1>7. /\ StateOK' /\ pc' \in Places \union Reading
      /\ CountedIds' /\ SectionEnds' /\ IdsKnown'
  BY <1>2, <1>3, <1>6, ReadStepKeeps
<1> QED
  BY <1>1, <1>7 DEF RowsInv, Walk

LEMMA RowsInvStutter == RowsInv /\ UNCHANGED allVars => RowsInv'
<1> SUFFICES ASSUME RowsInv, UNCHANGED allVars PROVE RowsInv'
  OBVIOUS
<1>1. UNCHANGED <<file, pc, opens, loads, faults, cursor, sec, sectionOffsets, idList, copyTable,
                  offsetMap, offsetMapIds, relationships, relationshipMap,
                  index, lookup, section, rest>>
  BY DEF allVars, vars, tableVars, rowVars
<1>2. UNCHANGED Section
  BY <1>1 DEF Section
<1>3. StateOK' /\ pc' \in Places \union Reading
  BY <1>1 DEF RowsInv, StateOK
<1>4. CountedIds' /\ SectionEnds' /\ IdsKnown' /\ Walk'
  BY <1>1, <1>2 DEF RowsInv, CountedIds, SectionEnds, IdsKnown, Walk
<1> QED
  BY <1>1, <1>3, <1>4 DEF RowsInv

LEMMA WalkInRange == RowsInv => SectionInRange
<1> SUFFICES ASSUME RowsInv, pc \in {"read", "decode"}
             PROVE  /\ section \in Sections(file)
                    /\ lookup - file.starts[section] \in 0..file.sections[section].record_count - 1
                    /\ ~HasOffsetMap(file) => RelativeIndex = lookup - file.starts[section]
  BY DEF SectionInRange
<1>1. /\ file \in Files /\ section \in Sections(file) /\ lookup \in Nat
      /\ lookup - file.starts[section] \in 0..file.sections[section].record_count - 1
  BY DEF RowsInv, Walk, StateOK
<1>2. ASSUME ~HasOffsetMap(file)
      PROVE  RelativeIndex = lookup - file.starts[section]
  <2>1. section \in 1..Len(sectionOffsets)
    BY <1>1, <1>2 DEF RowsInv, SectionEnds, Sections, Read, Reading
  <2>2. sectionOffsets[section] = file.starts[section + 1]
    BY <1>1, <2>1 DEF RowsInv, SectionEnds
  <2>3. /\ file.starts[section + 1] = file.starts[section] + file.sections[section].record_count
    BY <1>1, FileFacts
  <2>4. section \in 1..Len(file.starts)
    BY <1>1, FileFacts DEF Sections
  <2>5. file.starts[section] \in Nat
    BY <1>1, <2>4, FileFacts, ElementOfSeq
  <2>6. file.sections[section].record_count \in Nat
    BY <1>1, SectionFacts
  <2> QED
    BY <1>1, <2>2, <2>3, <2>5, <2>6 DEF RelativeIndex
<1> QED
  BY <1>1, <1>2

LEMMA RowsInvNext ==
    ASSUME MaxLoads = 1, RowsInv, [RowsNext]_allVars
    PROVE  RowsInv'
<1>1. CASE FileNext /\ UNCHANGED rowVars
  BY <1>1, FileStepKeeps
<1>2. ASSUME NEW i \in 0..Size - 1, Ask(i)
      PROVE  RowsInv'
  <2>1. i \in Nat
    BY <1>2
  <2> QED
    BY <1>2, <2>1, AskKeeps
<1>3. CASE ReadStep
  BY <1>3, LookupKeeps, FindSectionKeeps, ReadRecordKeeps, DecodeKeeps DEF ReadStep
<1>4. CASE UNCHANGED allVars
  BY <1>4, RowsInvStutter
<1> QED
  BY <1>1, <1>2, <1>3, <1>4 DEF RowsNext

(* Whatever the file, the index and the faults: on a table loaded once,    *)
(* getSectionIndex ends at a section of the header that holds the record,  *)
(* and the running ends give the record's index inside it, so the accesses *)
(* of DB2File.hpp:187-200 are in bounds for records and for copies.        *)
THEOREM SectionsInRange ==
    ASSUME MaxLoads = 1
    PROVE  RowsSpec => []SectionInRange
<1>1. RowsInit => RowsInv
  BY RowsInvInit
<1>2. RowsInv /\ [RowsNext]_allVars => RowsInv'
  BY RowsInvNext
<1>3. RowsInv => SectionInRange
  BY WalkInRange
<1> QED
  BY <1>1, <1>2, <1>3, PTL DEF RowsSpec

------------------------------------------------------------------------------
(* What operator[] holds while it runs is of its types.                    *)

\* The common values of a table that is open.
CommonKnown ==
    pc # "closed" =>
        commonData = [x \in 1..file.field_count |->
                        IF file.fields[x].storage = "CommonData" THEN CommonMap(file.common[x])
                        ELSE [id \in {} |-> 0]]

CallTyped ==
    /\ index \in Nat /\ lookup \in Nat
    /\ replacement \in Nat \union {NoId}
    /\ section \in 0..Len(file.sections) + 1
    /\ rest \in Nat
    /\ buffer \in [1..file.field_count -> Nat]
    /\ IsAnswer(answer)

\* A running call is for a record or a copy of the table.
IndexAsked == pc \in Reading => index < Size

TypedInv == RowsInv /\ CommonKnown /\ CallTyped /\ IndexAsked

\* What a record has: a value for each field, and a text.
LEMMA RowFacts ==
    ASSUME NEW f \in Files, NEW s \in Sections(f), NEW k \in 1..f.sections[s].record_count
    PROVE  /\ f.sections[s].rows[k] \in [1..f.field_count -> Nat]
           /\ f.sections[s].texts[k] \in Nat
           /\ f.sections[s].rows[k] \in Seq(Nat)
<1> DEFINE head == f.sections[s]
<1>1. head \in SectionShape
  BY SectionFacts
<1>2. head.rows \in Seq(Seq(Nat)) /\ head.texts \in Seq(Nat)
  BY <1>1 DEF SectionShape
<1>3. /\ Len(head.rows) = head.record_count /\ Len(head.texts) = head.record_count
      /\ Len(head.rows[k]) = f.field_count
  BY FilesAssumption DEF IsFile
<1>4. head.rows[k] \in Seq(Nat) /\ head.texts[k] \in Nat
  <2> HIDE DEF head
  <2> QED
    BY <1>2, <1>3, ElementOfSeq DEF head
<1>5. head.rows[k] \in [1..Len(head.rows[k]) -> Nat]
  <2> HIDE DEF head
  <2> QED
    BY <1>4, LenProperties
<1> QED
  BY <1>3, <1>4, <1>5

LEMMA SchemaFacts ==
    ASSUME NEW f \in Files
    PROVE  /\ f.field_count \in Nat
           /\ \A x \in 1..f.field_count :
                f.common[x] \in Seq(CommonEntries) /\ f.default_value[x] \in Nat
<1>1. f \in FileShape
  BY FileFacts
<1>2. /\ f.field_count \in Nat
      /\ f.common \in Seq(Seq(CommonEntries)) /\ f.default_value \in Seq(Nat)
  BY <1>1 DEF FileShape
<1>3. Len(f.common) = f.field_count /\ Len(f.default_value) = f.field_count
  BY FilesAssumption DEF IsFile
<1> QED
  BY <1>2, <1>3, ElementOfSeq

\* A record read is one of the file, or no record's, or what is behind a key.
LEMMA GotTyped ==
    ASSUME NEW f \in Files, NEW at, NEW before \in [1..f.field_count -> Nat]
    PROVE  Got(f, at, before) \subseteq [1..f.field_count -> Nat]
<1>1. Blank(f) \in [1..f.field_count -> Nat] /\ Scrambled(f) \in [1..f.field_count -> Nat]
  BY DEF Blank, Scrambled, Junk
<1>2. CASE RecordAt(f, at) = {}
  BY <1>1, <1>2 DEF Got
<1>3. CASE RecordAt(f, at) # {}
  <2> DEFINE r == CHOOSE r \in RecordAt(f, at) : TRUE
  <2>1. r \in Rows(f)
    BY <1>3 DEF RecordAt
  <2>2. r[1] \in Sections(f) /\ r[2] \in 1..f.record_count /\ r[2] <= f.sections[r[1]].record_count
    BY <2>1 DEF Rows
  <2>3. r[2] \in 1..f.sections[r[1]].record_count
    BY <2>2, SectionFacts, FileFacts
  <2>4. f.sections[r[1]].rows[r[2]] \in [1..f.field_count -> Nat]
    BY <2>2, <2>3, RowFacts
  <2>5. Got(f, at, before) \subseteq
          {f.sections[r[1]].rows[r[2]], Blank(f), before, Scrambled(f)}
    BY <1>3 DEF Got
  <2> QED
    BY <1>1, <2>4, <2>5
<1> QED
  BY <1>2, <1>3

LEMMA TextTyped ==
    ASSUME NEW f \in Files, NEW at
    PROVE  TextAt(f, at) \in Nat
<1> DEFINE owner == {r \in Rows(f) : TextPos(f, r[1], r[2]) = at}
<1>1. CASE owner = {}
  BY <1>1 DEF TextAt, Junk
<1>2. CASE owner # {}
  <2> DEFINE r == CHOOSE r \in owner : TRUE
  <2>1. r \in Rows(f)
    BY <1>2
  <2> HIDE DEF r
  <2>2. r[1] \in Sections(f) /\ r[2] \in 1..f.record_count /\ r[2] <= f.sections[r[1]].record_count
    BY <2>1 DEF Rows
  <2>3. r[2] \in 1..f.sections[r[1]].record_count
    BY <2>2, SectionFacts, FileFacts
  <2>4. f.sections[r[1]].texts[r[2]] \in Nat
    BY <2>2, <2>3, RowFacts
  <2> QED
    BY <1>2, <2>4 DEF TextAt, r
<1> QED
  BY <1>1, <1>2

\* The map of a common block has the last value of each record id in it.
LEMMA CommonMapFacts ==
    ASSUME NEW pairs \in Seq(CommonEntries), NEW id
    PROVE  LET mine == {k \in 1..Len(pairs) : pairs[k].record_id = id}
           IN  /\ id \in DOMAIN CommonMap(pairs) <=> mine # {}
               /\ id \in DOMAIN CommonMap(pairs) =>
                    \E k \in mine : /\ \A j \in mine : j <= k
                                    /\ CommonMap(pairs)[id] = pairs[k].value
<1> DEFINE mine == {k \in 1..Len(pairs) : pairs[k].record_id = id}
           Last(k) == /\ pairs[k].record_id = id
                      /\ \A j \in k+1..Len(pairs) : pairs[j].record_id # id
<1>1. Len(pairs) \in Nat
  BY LenProperties
<1>2. id \in DOMAIN CommonMap(pairs) <=> mine # {}
  BY DEF CommonMap
<1>3. ASSUME id \in DOMAIN CommonMap(pairs)
      PROVE  \E k \in mine : /\ \A j \in mine : j <= k
                             /\ CommonMap(pairs)[id] = pairs[k].value
  <2>1. PICK k \in mine : \A j \in mine : j <= k
    <3>1. mine \subseteq 1..Len(pairs) /\ mine # {}
      BY <1>2, <1>3
    <3> HIDE DEF mine
    <3> QED
      BY <1>1, <3>1, GreatestNatural
  <2>2. Last(k) /\ k \in 1..Len(pairs)
    <3>1. ASSUME NEW j \in k+1..Len(pairs) PROVE pairs[j].record_id # id
      <4>1. j \in 1..Len(pairs) /\ ~(j <= k)
        BY <1>1
      <4> QED
        BY <2>1, <4>1
    <3> QED
      BY <3>1
  <2>3. \A j \in 1..Len(pairs) : Last(j) => j = k
    <3> TAKE j \in 1..Len(pairs)
    <3> HAVE Last(j)
    <3>1. j <= k
      BY <2>1
    <3>2. ~(j < k)
      BY <1>1, <2>2
    <3> QED
      BY <1>1, <3>1, <3>2
  <2>4. (CHOOSE j \in 1..Len(pairs) : Last(j)) = k
    <3> HIDE DEF Last
    <3> QED
      BY <2>2, <2>3
  <2>5. CommonMap(pairs)[id] = pairs[CHOOSE j \in 1..Len(pairs) : Last(j)].value
    BY <1>3 DEF CommonMap
  <2> QED
    BY <2>1, <2>4, <2>5
<1> QED
  BY <1>2, <1>3

LEMMA CommonTyped ==
    ASSUME TypedInv, pc # "closed", NEW x \in 1..file.field_count
    PROVE  CommonValueOf(x) \in Nat
<1>1. file \in Files
  BY DEF TypedInv, RowsInv, StateOK
<1>2. file.common[x] \in Seq(CommonEntries) /\ file.default_value[x] \in Nat
  BY <1>1, SchemaFacts
<1>3. commonData[x] = IF file.fields[x].storage = "CommonData" THEN CommonMap(file.common[x])
                      ELSE [id \in {} |-> 0]
  BY DEF TypedInv, CommonKnown
<1>4. ASSUME NEW id \in DOMAIN CommonMap(file.common[x])
      PROVE  CommonMap(file.common[x])[id] \in Nat
  <2>1. PICK k \in 1..Len(file.common[x]) : CommonMap(file.common[x])[id] = file.common[x][k].value
    BY <1>2, <1>4, CommonMapFacts
  <2>2. file.common[x][k] \in CommonEntries
    BY <1>2, <2>1, ElementOfSeq
  <2> QED
    BY <2>1, <2>2 DEF CommonEntries
<1> QED
  BY <1>2, <1>3, <1>4 DEF CommonValueOf

\* The records of a section are among those of the file.
LEMMA StartsClimb ==
    ASSUME NEW f \in Files
    PROVE  Climbs(f.starts, Len(f.sections)) /\ Climbs(f.copyStarts, Len(f.sections))
<1>1. \A s \in 1..Len(f.sections) + 1 : f.starts[s] \in Nat /\ f.copyStarts[s] \in Nat
  BY StartFacts
<1>2. ASSUME NEW s \in 1..Len(f.sections)
      PROVE  f.starts[s] <= f.starts[s + 1] /\ f.copyStarts[s] <= f.copyStarts[s + 1]
  <2>1. s \in Sections(f) /\ s \in 1..Len(f.sections) + 1 /\ Len(f.sections) \in Nat
    BY FileFacts DEF Sections
  <2>2. f.starts[s + 1] = f.starts[s] + f.sections[s].record_count
    BY <2>1, FileFacts
  <2>3. f.copyStarts[s + 1] = f.copyStarts[s] + f.sections[s].copy_table_count
    BY <2>1, StartFacts
  <2>4. f.sections[s].record_count \in Nat /\ f.sections[s].copy_table_count \in Nat
    BY <2>1, SectionFacts
  <2>5. f.starts[s] \in Nat /\ f.copyStarts[s] \in Nat
    BY <1>1, <2>1
  <2> QED
    BY <2>2, <2>3, <2>4, <2>5
<1> QED
  BY <1>1, <1>2 DEF Climbs

LEMMA SectionEndsBefore ==
    ASSUME NEW f \in Files, NEW s \in Sections(f)
    PROVE  f.starts[s + 1] <= f.record_count
<1>1. Len(f.sections) \in Nat /\ f.starts[Len(f.sections) + 1] = f.record_count
  BY FileFacts
<1>2. s + 1 \in 1..Len(f.sections) + 1 /\ s + 1 <= Len(f.sections) + 1
      /\ Len(f.sections) + 1 \in 1..Len(f.sections) + 1
  BY <1>1 DEF Sections
<1> QED
  BY <1>1, <1>2, StartsClimb, ClimbsThrough

LEMMA TypedInit == RowsInit => TypedInv
<1> SUFFICES ASSUME RowsInit PROVE TypedInv
  OBVIOUS
<1>1. RowsInv
  BY RowsInvInit
<1>2. pc = "closed" /\ file \in Files
  BY DEF RowsInit, Init
<1>3. buffer \in [1..file.field_count -> Nat]
  BY DEF RowsInit, Blank
<1>4. IsAnswer(answer)
  BY DEF RowsInit, IsAnswer
<1>5. Len(file.sections) \in Nat
  BY <1>2, FileFacts
<1>6. CallTyped
  BY <1>3, <1>4, <1>5 DEF CallTyped, RowsInit
<1> QED
  BY <1>1, <1>2, <1>6 DEF TypedInv, CommonKnown, IndexAsked, Reading

LEMMA AnswersTyped ==
    ASSUME NEW i \in Nat
    PROVE  /\ IsAnswer(Table!NoAnswer)
           /\ \A why \in {"file source", "copy id", "common data", "relation ids"} :
                IsAnswer(Table!Thrown(i, why))
           /\ \A state \in {"NONE", "ENCRYPTED", "DECRYPTED"}, fields \in Seq(Nat) :
                IsAnswer(Table!Record(i, state, fields))
BY DEF IsAnswer, Table!Thrown, Table!Record

LEMMA CommonStays ==
    ASSUME TypedInv, UNCHANGED <<file, commonData>>, pc = "closed" => pc' = "closed"
    PROVE  CommonKnown'
BY DEF TypedInv, CommonKnown

LEMMA TypedFileStep ==
    ASSUME TypedInv, FileNext, UNCHANGED rowVars
    PROVE  CommonKnown' /\ CallTyped' /\ IndexAsked'
<1>1. UNCHANGED file /\ pc' \notin Reading
  BY DEF FileNext, LoadStep, Open, Load, EnterSection, ReadIdList, ReadCopyTable, ReadOffsetMap,
     LoadOffsetMapIds, LoadRelationships, FinishLoad, Continue, AfterKeys, Reading
<1>2. CallTyped' /\ IndexAsked'
  BY <1>1 DEF TypedInv, CallTyped, IndexAsked, rowVars
<1>3. CASE Open
  <2>1. pc = "closed"
    BY <1>3 DEF Open
  <2>2. PICK outcome \in Outcome(1) :
          IF outcome = "throw" \/ Rejected(file)
          THEN UNCHANGED <<pc, commonData>>
          ELSE /\ pc' = "opened"
               /\ commonData' = [x \in 1..file.field_count |->
                                   IF file.fields[x].storage = "CommonData"
                                   THEN CommonMap(file.common[x])
                                   ELSE [id \in {} |-> 0]]
    BY <1>3 DEF Open
  <2>3. CASE outcome = "throw" \/ Rejected(file)
    BY <1>2, <2>1, <2>2, <2>3 DEF CommonKnown
  <2>4. CASE ~(outcome = "throw" \/ Rejected(file))
    <3>1. commonData' = [x \in 1..file'.field_count |->
                           IF file'.fields[x].storage = "CommonData" THEN CommonMap(file'.common[x])
                           ELSE [id \in {} |-> 0]]
      BY <1>1, <2>2, <2>4
    <3> QED
      BY <1>2, <3>1 DEF CommonKnown
  <2> QED
    BY <2>3, <2>4
<1>4. CASE ~Open
  <2>1. pc # "closed" /\ UNCHANGED <<file, commonData>>
    BY <1>1, <1>4 DEF FileNext, LoadStep, Load, EnterSection, ReadIdList, ReadCopyTable, ReadOffsetMap,
       LoadOffsetMapIds, LoadRelationships, FinishLoad
  <2> QED
    BY <1>2, <2>1, CommonStays
<1> QED
  BY <1>3, <1>4

LEMMA TypedAsk ==
    ASSUME TypedInv, NEW i \in 0..Size - 1, Ask(i)
    PROVE  CommonKnown' /\ CallTyped' /\ IndexAsked'
<1>1. pc = "loaded" /\ pc' = "lookup" /\ index' = i /\ i \in Nat /\ i < Size
  BY DEF Ask
<1>2. /\ answer' = Table!NoAnswer
      /\ UNCHANGED <<file, commonData, copyTable, lookup, replacement, section, rest, buffer>>
  BY DEF Ask, tableVars
<1>3. IsAnswer(answer')
  BY <1>1, <1>2, AnswersTyped
<1> QED
  BY <1>1, <1>2, <1>3, CommonStays DEF TypedInv, CallTyped, IndexAsked, Size, Reading

\* The copy a call is for.
LEMMA CopyAsked ==
    ASSUME TypedInv, pc \in Reading, ~(index < file.record_count)
    PROVE  /\ index - file.record_count + 1 \in 1..Len(copyTable)
           /\ copyTable[index - file.record_count + 1] \in CopyEntries
<1>1. /\ file \in Files /\ copyTable \in Seq(CopyEntries) /\ index \in Nat /\ index < Size
  BY DEF TypedInv, RowsInv, StateOK, CallTyped, IndexAsked
<1>2. file.record_count \in Nat /\ Len(copyTable) \in Nat
  BY <1>1, FileFacts, LenProperties
<1>3. index - file.record_count + 1 \in 1..Len(copyTable)
  BY <1>1, <1>2 DEF Size
<1> QED
  BY <1>1, <1>3, ElementOfSeq

LEMMA TypedLookup ==
    ASSUME TypedInv, RowsInv', Lookup
    PROVE  CommonKnown' /\ CallTyped' /\ IndexAsked'
<1>1. /\ pc = "lookup" /\ pc' \in {"find", "loaded"} /\ index \in Nat
      /\ UNCHANGED <<file, commonData, copyTable, index, buffer>>
  BY DEF Lookup, StartFind, Throws, TypedInv, CallTyped, tableVars
<1>2. CommonKnown' /\ IndexAsked'
  BY <1>1, CommonStays DEF TypedInv, IndexAsked, Reading, Size
<1>3. CASE pc' = "find"
  <2>1. /\ lookup' \in 0..file.record_count - 1 /\ rest' \in Nat
        /\ section' \in 1..Len(file.sections) + 1
    BY <1>1, <1>3 DEF RowsInv, Walk
  <2>2. file \in Files /\ file.record_count \in Nat /\ Len(file.sections) \in Nat
    BY FileFacts DEF TypedInv, RowsInv, StateOK
  <2>3. replacement' \in Nat \union {NoId} /\ answer' = answer
    <3>1. CASE index < file.record_count
      BY <3>1 DEF Lookup
    <3>2. CASE ~(index < file.record_count)
      <4>1. copyTable[index - file.record_count + 1].id_of_new_row \in Nat
        BY <1>1, <3>2, CopyAsked DEF CopyEntries, Reading
      <4> QED
        BY <1>3, <3>2, <4>1 DEF Lookup, Throws
    <3> QED
      BY <3>1, <3>2
  <2> QED
    BY <1>1, <1>2, <2>1, <2>2, <2>3 DEF TypedInv, CallTyped
<1>4. CASE pc' = "loaded"
  <2>1. UNCHANGED <<lookup, rest, section, replacement>> /\ answer' = Table!Thrown(index, "copy id")
    BY <1>4 DEF Lookup, StartFind, Throws
  <2>2. IsAnswer(answer')
    BY <1>1, <2>1, AnswersTyped
  <2> QED
    BY <1>1, <1>2, <2>1, <2>2 DEF TypedInv, CallTyped
<1> QED
  BY <1>1, <1>3, <1>4

LEMMA TypedFindSection ==
    ASSUME TypedInv, RowsInv', FindSection
    PROVE  CommonKnown' /\ CallTyped' /\ IndexAsked'
<1>1. /\ pc = "find" /\ pc' \in {"find", "read"}
      /\ pc' = "read" => UNCHANGED <<rest, section>>
      /\ UNCHANGED <<file, commonData, copyTable, index, lookup, replacement, buffer, answer>>
  BY DEF FindSection, tableVars
<1>2. CommonKnown' /\ IndexAsked'
  BY <1>1, CommonStays DEF TypedInv, IndexAsked, Reading, Size
<1>3. rest' \in Nat /\ section' \in 0..Len(file.sections) + 1
  <2>1. pc' = "find" => rest' \in Nat /\ section' \in 1..Len(file.sections) + 1
    BY <1>1 DEF RowsInv, Walk
  <2> QED
    BY <1>1, <2>1 DEF TypedInv, CallTyped
<1> QED
  BY <1>1, <1>2, <1>3 DEF TypedInv, CallTyped

LEMMA TypedReadRecord ==
    ASSUME TypedInv, ReadRecord
    PROVE  CommonKnown' /\ CallTyped' /\ IndexAsked'
<1>1. /\ pc = "read" /\ pc' \in {"decode", "loaded"}
      /\ UNCHANGED <<file, commonData, copyTable, index, lookup, replacement, section, rest>>
  BY DEF ReadRecord, SourceThrows, Throws, tableVars
<1>2. CommonKnown' /\ IndexAsked'
  BY <1>1, CommonStays DEF TypedInv, IndexAsked, Reading, Size
<1>3. Cleared(buffer) \in [1..file.field_count -> Nat]
  BY DEF TypedInv, CallTyped, Cleared
<1>4. buffer' \in [1..file.field_count -> Nat]
  <2>1. file \in Files
    BY DEF TypedInv, RowsInv, StateOK
  <2>2. Got(file, RecordStart, Cleared(buffer)) \subseteq [1..file.field_count -> Nat]
    BY <1>3, <2>1, GotTyped
  <2>3. buffer' \in {Cleared(buffer)} \union Got(file, RecordStart, Cleared(buffer))
    BY DEF ReadRecord
  <2> QED
    BY <1>3, <2>2, <2>3
<1>5. IsAnswer(answer')
  <2>1. answer' = answer \/ answer' = Table!Thrown(index, "file source")
    BY DEF ReadRecord, SourceThrows, Throws
  <2> QED
    BY <2>1, AnswersTyped DEF TypedInv, CallTyped
<1> QED
  BY <1>1, <1>2, <1>4, <1>5 DEF TypedInv, CallTyped

\* What a decoded record is made of.
LEMMA ValuesTyped ==
    ASSUME TypedInv, pc = "decode",
           NEW map, WantsRelation => map[lookup] \in Nat
    PROVE  RecordValues(map) \in Seq(Nat)
<1>1. /\ file \in Files /\ lookup \in 0..file.record_count - 1 /\ idList \in Seq(Nat)
      /\ replacement \in Nat \union {NoId} /\ buffer \in [1..file.field_count -> Nat]
      /\ file.field_count \in Nat
  <2>1. file \in Files /\ lookup \in Nat /\ section \in Sections(file)
        /\ lookup - file.starts[section] \in 0..file.sections[section].record_count - 1
    BY DEF TypedInv, RowsInv, StateOK, Walk
  <2>2. lookup < file.record_count
    <3>1. file.starts[section + 1] <= file.record_count
      BY <2>1, SectionEndsBefore
    <3>2. /\ file.starts[section + 1] = file.starts[section] + file.sections[section].record_count
          /\ file.starts[section] \in Nat
      BY <2>1, FileFacts, BasesNat
    <3>3. file.sections[section].record_count \in Nat /\ file.record_count \in Nat
      BY <2>1, SectionFacts, FileFacts
    <3> QED
      BY <2>1, <3>1, <3>2, <3>3
  <2>3. file.record_count \in Nat
    BY <2>1, FileFacts
  <2> QED
    BY <2>1, <2>2, <2>3, SchemaFacts DEF TypedInv, RowsInv, StateOK, CallTyped
<1>2. file.useIdList => UseId \in Nat
  <2>1. ASSUME file.useIdList PROVE idList[lookup + 1] \in Nat
    <3>1. Len(idList) = file.record_count /\ file.record_count \in Nat
      BY <1>1, <2>1, FileFacts DEF TypedInv, RowsInv, IdsKnown, Read, Reading
    <3>2. lookup + 1 \in 1..Len(idList)
      BY <1>1, <3>1
    <3> QED
      BY <1>1, <3>2, ElementOfSeq
  <2> QED
    BY <1>1, <2>1 DEF UseId
<1>3. ASSUME NEW x \in 1..file.field_count
      PROVE  Value(x) \in Nat
  <2>1. buffer[x] \in Nat /\ InlineId(x) \in Nat
    BY <1>1 DEF InlineId
  <2>2. CommonValueOf(x) \in Nat
    BY CommonTyped
  <2>3. StringOf(x) \in Nat
    BY <1>1, <2>1, TextTyped DEF StringOf
  <2> QED
    BY <2>1, <2>2, <2>3 DEF Value
<1>4. [x \in 1..file.field_count |-> Value(x)] \in Seq(Nat)
  <2>1. file.field_count \in Nat
    BY <1>1
  <2> QED
    BY <1>3, <2>1, IsASeq
<1>5. (IF file.useIdList THEN <<UseId>> ELSE << >>) \in Seq(Nat)
  BY <1>2
<1>6. (IF WantsRelation THEN <<map[lookup]>> ELSE << >>) \in Seq(Nat)
  OBVIOUS
<1> DEFINE ids == IF file.useIdList THEN <<UseId>> ELSE << >>
           values == [x \in 1..file.field_count |-> Value(x)]
           relations == IF WantsRelation THEN <<map[lookup]>> ELSE << >>
<1>7. (ids \o values) \o relations \in Seq(Nat)
  <2> HIDE DEF ids, values, relations
  <2>1. ids \in Seq(Nat) /\ values \in Seq(Nat) /\ relations \in Seq(Nat)
    BY <1>4, <1>5, <1>6 DEF ids, values, relations
  <2> QED
    BY <2>1, ConcatProperties
<1> QED
  BY <1>7 DEF RecordValues

LEMMA TypedDecode ==
    ASSUME TypedInv, Decode
    PROVE  CommonKnown' /\ CallTyped' /\ IndexAsked'
<1>1. /\ pc = "decode" /\ pc' = "loaded" /\ index \in Nat
      /\ UNCHANGED <<file, commonData, copyTable, index, lookup, replacement, section, rest, buffer>>
  BY DEF Decode, SourceThrows, Throws, Returns, TypedInv, CallTyped
<1>2. CommonKnown' /\ IndexAsked'
  BY <1>1, CommonStays DEF TypedInv, IndexAsked, Reading, Size
<1>3. ASSUME WantsRelation
      PROVE  WithDefault(relationshipMap, lookup)[lookup] \in Nat
  BY DEF TypedInv, RowsInv, StateOK, WithDefault
<1>4. EncryptionState \in {"NONE", "DECRYPTED"}
  BY DEF EncryptionState
<1>5. IsAnswer(answer')
  <2>1. \/ answer' = Table!Record(index, "ENCRYPTED", << >>)
        \/ \E why \in {"file source", "common data", "relation ids"} : answer' = Table!Thrown(index, why)
        \/ /\ answer' = Table!Record(index, EncryptionState, RecordValues(relationshipMap'))
           /\ relationshipMap' = IF WantsRelation THEN WithDefault(relationshipMap, lookup)
                                 ELSE relationshipMap
    BY DEF Decode, Returns, Throws, SourceThrows
  <2>2. << >> \in Seq(Nat)
    BY EmptySeq
  <2>3. ASSUME answer' = Table!Record(index, EncryptionState, RecordValues(relationshipMap')),
               relationshipMap' = IF WantsRelation THEN WithDefault(relationshipMap, lookup)
                                  ELSE relationshipMap
        PROVE  IsAnswer(answer')
    <3>1. RecordValues(relationshipMap') \in Seq(Nat)
      BY <1>1, <1>3, <2>3, ValuesTyped
    <3> QED
      BY <1>1, <1>4, <2>3, <3>1, AnswersTyped
  <2> QED
    BY <1>1, <2>1, <2>2, <2>3, AnswersTyped
<1> QED
  BY <1>1, <1>2, <1>5 DEF TypedInv, CallTyped

LEMMA TypedInvNext ==
    ASSUME MaxLoads = 1, TypedInv, [RowsNext]_allVars
    PROVE  TypedInv'
<1>1. RowsInv'
  BY RowsInvNext DEF TypedInv
<1>2. CommonKnown' /\ CallTyped' /\ IndexAsked'
  <2>1. CASE FileNext /\ UNCHANGED rowVars
    BY <2>1, TypedFileStep
  <2>2. ASSUME NEW i \in 0..Size - 1, Ask(i)
        PROVE  CommonKnown' /\ CallTyped' /\ IndexAsked'
    BY <2>2, TypedAsk
  <2>3. CASE ReadStep
    BY <1>1, <2>3, TypedLookup, TypedFindSection, TypedReadRecord, TypedDecode DEF ReadStep
  <2>4. CASE UNCHANGED allVars
    BY <2>4 DEF allVars, vars, rowVars, tableVars, TypedInv, CommonKnown, CallTyped, IndexAsked, Size
  <2> QED
    BY <2>1, <2>2, <2>3, <2>4 DEF RowsNext
<1> QED
  BY <1>1, <1>2 DEF TypedInv

(* Whatever is read of a table loaded once, through copies, keys and       *)
(* faults: what operator[] keeps between its steps is of its types, and    *)
(* what it returns or throws is one of the answers it can give, its fields *)
(* numbers (or texts) and none of them left without a value.               *)
THEOREM RowsTypeCorrect ==
    ASSUME MaxLoads = 1
    PROVE  RowsSpec => []RowsTypeOK
<1>1. RowsInit => TypedInv
  BY TypedInit
<1>2. TypedInv /\ [RowsNext]_allVars => TypedInv'
  BY TypedInvNext
<1>3. TypedInv => RowsTypeOK
  BY DEF TypedInv, RowsInv, CallTyped, RowsTypeOK
<1> QED
  BY <1>1, <1>2, <1>3, PTL DEF RowsSpec

------------------------------------------------------------------------------
(* What operator[] answers is what the table promises: the safety part of  *)
(* ImplementsTable, for files that are tables.                             *)

\* What open() and load() have looked at.
FileChecked ==
    /\ pc # "closed" => ~Rejected(file)
    /\ pc \in Loading => \A s \in Sections(file) :
            s < sec \/ (s = sec /\ pc \in Body) => ~UnexpectedIdList(file, file.sections[s])
    /\ pc \in Read => Accepted(file)

\* The relation map has each relation that could be read, and a 0 at most for
\* a record that has none.
RelationsKnown ==
    /\ \A s \in Sections(file) : file.sections[s].readable =>
            \A r \in Table!RelationsOf(file, s) : r.record_index \in DOMAIN relationshipMap
    /\ \A i \in DOMAIN relationshipMap : relationshipMap[i] = Table!ForeignId(file, i)

\* The tables of a table that is read.
TablesKnown ==
    pc \in Read =>
        /\ Len(copyTable) = file.copyStarts[Len(file.sections) + 1]
        /\ \A s \in Sections(file) :
            /\ Placed(file, idList, file.starts[s], "idList", s)
            /\ Placed(file, copyTable, file.copyStarts[s], "copyTable", s)
            /\ Placed(file, offsetMap, file.starts[s], "offsetMap", s)
        /\ RelationsKnown

\* The index of the record, and the id in place of its own, that a copy stands
\* for: those the table promises, or of a record behind a missing key, with id 0.
CopyStandsFor(f, j, row, id) ==
    LET p     == Table!Place(f.copyStarts, f, j)
        entry == f.sections[p.section].copyTable[p.at]
    IN  IF f.sections[p.section].readable
        THEN /\ id = entry.id_of_new_row
             /\ \E r \in Rows(f) : /\ f.sections[r[1]].readable
                                   /\ Table!RowId(f, r[1], r[2]) = entry.id_of_copied_row
                                   /\ row = f.starts[r[1]] + r[2] - 1
        ELSE id = 0 /\ \E r \in Rows(f) : ~f.sections[r[1]].readable /\ row = f.starts[r[1]] + r[2] - 1

RecordFound ==
    pc \in {"find", "read", "decode"} =>
        IF index < file.record_count THEN lookup = index /\ replacement = NoId
        ELSE CopyStandsFor(file, index - file.record_count, lookup, replacement)

\* The record's place in its section, from 1.
At == lookup - file.starts[section] + 1

\* What the buffer holds of the record, if anything can be told.
BufferKnown ==
    pc = "decode" =>
        IF file.sections[section].readable THEN buffer = file.sections[section].rows[At]
        ELSE AllZero(buffer) \/ (~HasOffsetMap(file) /\ file.useIdList)

TableInv ==
    /\ TypedInv /\ FileChecked
    /\ pc \notin Read => LoadInv
    /\ TablesKnown /\ RecordFound /\ BufferKnown

------------------------------------------------------------------------------
\* The picture of a file is the same to the table and to its reader.
LEMMA SamePicture ==
    ASSUME NEW f
    PROVE  /\ Table!Sections(f) = Sections(f) /\ Table!Rows(f) = Rows(f)
           /\ Table!HasOffsetMap(f) = HasOffsetMap(f)
           /\ Table!HasRelationshipData(f) = HasRelationshipData(f)
           /\ \A s, k : Table!RecordPos(f, s, k) = RecordPos(f, s, k)
           /\ \A s, k : Table!TextPos(f, s, k) = TextPos(f, s, k)
BY DEF Table!Sections, Sections, Table!Rows, Rows, Table!HasOffsetMap, HasOffsetMap,
       Table!HasRelationshipData, HasRelationshipData, Table!RecordPos, RecordPos,
       Table!TextPos, TextPos

\* Where a record of a section, or a copy, is among all of them.
LEMMA PlaceOf ==
    ASSUME NEW f \in Files, NEW starts \in {f.starts, f.copyStarts},
           NEW s \in Sections(f), NEW i \in Nat, starts[s] <= i, i < starts[s + 1]
    PROVE  Table!Place(starts, f, i) = [section |-> s, at |-> i - starts[s] + 1]
<1> DEFINE n == Len(f.sections)
           Holds(t) == starts[t] <= i /\ i < starts[t + 1]
<1>1. n \in Nat /\ Climbs(starts, n) /\ Sections(f) = 1..n
  BY FileFacts, StartsClimb DEF Sections
<1>2. \A t \in 1..n : Holds(t) => t = s
  BY <1>1, OneStep
<1>3. (CHOOSE t \in 1..n : Holds(t)) = s
  <2> HIDE DEF Holds, n
  <2>1. Holds(s)
    BY DEF Holds
  <2> QED
    BY <1>1, <1>2, <2>1
<1>4. Table!Sections(f) = 1..n
  BY <1>1, SamePicture
<1> QED
  BY <1>3, <1>4 DEF Table!Place

LEMMA RowPlace ==
    ASSUME NEW f \in Files, NEW r \in Rows(f)
    PROVE  /\ r[1] \in Sections(f) /\ r[2] \in 1..f.sections[r[1]].record_count
           /\ f.starts[r[1]] \in Nat /\ f.starts[r[1]] + r[2] - 1 \in 0..f.record_count - 1
           /\ Table!Place(f.starts, f, f.starts[r[1]] + r[2] - 1)
                = [section |-> r[1], at |-> r[2]]
           /\ r = <<r[1], r[2]>>
<1> DEFINE s == r[1]
           i == f.starts[s] + r[2] - 1
<1>1. s \in Sections(f) /\ r[2] \in 1..f.record_count /\ r[2] <= f.sections[s].record_count
      /\ r = <<r[1], r[2]>>
  BY DEF Rows
<1>2. f.sections[s].record_count \in Nat /\ f.starts[s] \in Nat /\ f.record_count \in Nat
  BY <1>1, SectionFacts, BasesNat, FileFacts
<1>3. f.starts[s + 1] = f.starts[s] + f.sections[s].record_count /\ f.starts[s + 1] <= f.record_count
  BY <1>1, FileFacts, SectionEndsBefore
<1>4. i \in Nat /\ f.starts[s] <= i /\ i < f.starts[s + 1] /\ i - f.starts[s] + 1 = r[2]
      /\ i \in 0..f.record_count - 1
  BY <1>1, <1>2, <1>3
<1>5. Table!Place(f.starts, f, i) = [section |-> s, at |-> i - f.starts[s] + 1]
  <2> HIDE DEF i, s
  <2> QED
    BY <1>1, <1>4, PlaceOf
<1> QED
  BY <1>1, <1>2, <1>4, <1>5

\* Every record of the table is in a section.
LEMMA RowOf ==
    ASSUME NEW f \in Files, NEW i \in 0..f.record_count - 1
    PROVE  \E r \in Rows(f) : i = f.starts[r[1]] + r[2] - 1
<1> DEFINE n == Len(f.sections)
<1>1. n \in Nat /\ Climbs(f.starts, n) /\ f.starts[1] = 0 /\ f.starts[n + 1] = f.record_count
      /\ f.record_count \in Nat /\ Sections(f) = 1..n
  BY FileFacts, StartsClimb DEF Sections
<1>2. i \in Nat /\ i < f.record_count /\ 0 <= i
  BY <1>1
<1>3. PICK s \in 1..n : f.starts[s] <= i /\ i < f.starts[s + 1]
  <2> HIDE DEF n
  <2> QED
    BY <1>1, <1>2, StepOf
<1>4. /\ f.starts[s + 1] = f.starts[s] + f.sections[s].record_count
      /\ f.starts[s] \in Nat /\ f.sections[s].record_count \in Nat
  BY <1>1, <1>3, FileFacts, BasesNat, SectionFacts
<1> DEFINE k == i - f.starts[s] + 1
<1>5. k \in 1..f.sections[s].record_count /\ k \in 1..f.record_count
      /\ i = f.starts[s] + k - 1
  <2> DEFINE d == i - f.starts[s]
  <2>1. d \in Nat /\ d < f.sections[s].record_count /\ i = f.starts[s] + (d + 1) - 1
    BY <1>2, <1>3, <1>4
  <2>2. d < f.record_count
    BY <1>1, <1>2, <1>4
  <2>3. k = d + 1
    OBVIOUS
  <2> HIDE DEF d, k
  <2>4. k \in 1..f.sections[s].record_count
    BY <1>4, <2>1, <2>3
  <2>5. k \in 1..f.record_count
    BY <1>1, <2>1, <2>2, <2>3
  <2> QED
    BY <2>1, <2>3, <2>4, <2>5
<1>6. <<s, k>> \in Rows(f)
  <2> HIDE DEF k
  <2>1. s \in Sections(f)
    BY <1>1, <1>3
  <2>2. k <= f.sections[s].record_count
    BY <1>4, <1>5
  <2>3. <<s, k>> \in Sections(f) \X (1..f.record_count)
    BY <1>5, <2>1
  <2> QED
    BY <2>2, <2>3 DEF Rows
<1> QED
  BY <1>5, <1>6

------------------------------------------------------------------------------
(* The steps of open() and load().                                         *)

\* A table that is read is never loaded again.
LEMMA NoReload ==
    ASSUME MaxLoads = 1, RowsInv, FileNext
    PROVE  pc \notin Read /\ UNCHANGED file /\ TypeOK /\ TypeOK'
<1>1. TypeOK /\ TypeOK'
  BY FileStep
<1>2. pc \notin Reading /\ UNCHANGED file
  BY DEF FileNext, LoadStep, Open, Load, EnterSection, ReadIdList, ReadCopyTable, ReadOffsetMap,
     LoadOffsetMapIds, LoadRelationships, FinishLoad, Reading
<1>3. pc # "loaded"
  <2> SUFFICES ASSUME pc = "loaded" PROVE FALSE
    OBVIOUS
  <2>1. loads < MaxLoads
    BY DEF FileNext, LoadStep, Open, Load, EnterSection, ReadIdList, ReadCopyTable, ReadOffsetMap,
       LoadOffsetMapIds, LoadRelationships, FinishLoad
  <2>2. loads > 0
    BY DEF RowsInv, CountedIds
  <2>3. loads \in 0..MaxLoads
    BY <1>1 DEF TypeOK, StateOK
  <2> QED
    BY <2>1, <2>2, <2>3
<1> QED
  BY <1>1, <1>2, <1>3 DEF Read

\* Inside the body of the loop only the last read advances i.
LEMMA BodyStep ==
    ASSUME TypeOK, FileNext, pc \in Body
    PROVE  /\ pc' \in Body \union {"section", "aborted"} /\ UNCHANGED file
           /\ pc' \in Body => sec' = sec
           /\ pc' = "section" => sec' = sec + 1
<1>1. CASE ReadIdList \/ ReadCopyTable \/ ReadOffsetMap
  BY <1>1 DEF ReadIdList, ReadCopyTable, ReadOffsetMap, Continue, Body
<1>2. CASE LoadOffsetMapIds \/ LoadRelationships
  <2>1. pc \in {"firstKeys", "lastKeys"} /\ pc' \in {AfterKeys, "aborted"} /\ Advance /\ UNCHANGED file
    BY <1>2 DEF LoadOffsetMapIds, LoadRelationships, Continue
  <2>2. file \in Files /\ sec \in Sections(file)
    BY DEF TypeOK, StateOK
  <2> QED
    BY <2>1, <2>2, AdvanceFacts DEF Body
<1> QED
  BY <1>1, <1>2 DEF FileNext, LoadStep, Open, Load, EnterSection, FinishLoad, Body

LEMMA CheckedFileStep ==
    ASSUME MaxLoads = 1, RowsInv, FileChecked, FileNext
    PROVE  FileChecked'
<1>1. pc \notin Read /\ UNCHANGED file /\ TypeOK /\ file \in Files
  BY NoReload DEF TypeOK, StateOK
<1>2. CASE Open
  <2>1. pc' = "closed" \/ (pc' = "opened" /\ ~Rejected(file))
    BY <1>2 DEF Open
  <2> QED
    BY <1>1, <2>1 DEF FileChecked, Loading, Body, Read, Reading
<1>3. CASE Load
  <2>1. pc # "closed" /\ pc' = "section" /\ sec' = 1
    BY <1>3 DEF Load
  <2>2. \A s \in Sections(file) : ~(s < 1)
    BY <1>1, FileFacts DEF Sections
  <2> QED
    BY <1>1, <2>1, <2>2 DEF FileChecked, Body, Read, Reading
<1>4. CASE EnterSection
  <2>1. /\ pc = "section" /\ pc' \in {"idList", "aborted"} /\ UNCHANGED sec
        /\ pc' = "idList" => ~UnexpectedIdList(file, file.sections[sec])
    BY <1>4 DEF EnterSection, IdListRefused, Section
  <2> QED
    BY <1>1, <2>1 DEF FileChecked, Loading, Body, Read, Reading
<1>5. CASE pc \in Body
  <2>1. /\ pc' \in Body \union {"section", "aborted"}
        /\ pc' \in Body => sec' = sec
        /\ pc' = "section" => sec' = sec + 1
    BY <1>1, <1>5, BodyStep
  <2>2. \A s \in Sections(file) : s < sec + 1 => s < sec \/ s = sec
    BY <1>1, FileFacts DEF TypeOK, StateOK, Sections
  <2> QED
    BY <1>1, <1>5, <2>1, <2>2 DEF FileChecked, Loading, Body, Read, Reading
<1>6. CASE FinishLoad
  <2>1. pc = "section" /\ pc' = "loaded" /\ sec > Len(file.sections)
    BY <1>6 DEF FinishLoad
  <2>2. \A s \in Sections(file) : s < sec
    BY <1>1, <2>1, FileFacts DEF TypeOK, StateOK, Sections
  <2>3. Accepted(file)
    BY <2>1, <2>2 DEF FileChecked, Accepted, Loading
  <2> QED
    BY <1>1, <2>1, <2>3 DEF FileChecked, Loading, Body, Read, Reading, Accepted
<1> QED
  BY <1>2, <1>3, <1>4, <1>5, <1>6
     DEF FileNext, LoadStep, ReadIdList, ReadCopyTable, ReadOffsetMap, LoadOffsetMapIds,
         LoadRelationships, Body

\* Relations are told apart by their records: the one of a record is its only one.
LEMMA ForeignIdOf ==
    ASSUME NEW f \in Files, NEW s \in Sections(f), f.sections[s].readable,
           NEW k \in 1..Len(f.sections[s].relationships)
    PROVE  Table!ForeignId(f, f.sections[s].relationships[k].record_index)
             = f.sections[s].relationships[k].foreign_id
<1> DEFINE entry == f.sections[s].relationships[k]
           i == entry.record_index
           all == UNION {Table!RelationsOf(f, t) : t \in {u \in Table!Sections(f) : f.sections[u].readable}}
           mine == {r \in all : r.record_index = i}
<1>1. Table!Sections(f) = Sections(f)
  BY SamePicture
<1>2. entry \in mine
  <2>1. entry \in Table!RelationsOf(f, s)
    BY DEF Table!RelationsOf
  <2> QED
    BY <1>1, <2>1
<1>3. \A r \in mine : r = entry
  <2> TAKE r \in mine
  <2>1. PICK t \in Sections(f) : r \in Table!RelationsOf(f, t)
    BY <1>1
  <2>2. PICK m \in 1..Len(f.sections[t].relationships) : r = f.sections[t].relationships[m]
    BY <2>1 DEF Table!RelationsOf
  <2>3. AreRelations(f)
    BY FilesAssumption DEF IsFile
  <2>4. r.record_index = i
    OBVIOUS
  <2>5. t = s /\ m = k
    BY <2>2, <2>3, <2>4 DEF AreRelations
  <2> QED
    BY <2>2, <2>5
<1>4. (CHOOSE r \in mine : TRUE) = entry
  <2> HIDE DEF mine, entry
  <2> QED
    BY <1>2, <1>3
<1>5. Table!ForeignId(f, i) = (CHOOSE r \in mine : TRUE).foreign_id
  BY <1>2 DEF Table!ForeignId
<1> QED
  BY <1>4, <1>5

LEMMA NoForeignId ==
    ASSUME NEW f \in Files, NEW i,
           \A s \in Sections(f) : f.sections[s].readable =>
                \A r \in Table!RelationsOf(f, s) : r.record_index # i
    PROVE  Table!ForeignId(f, i) = 0
<1>1. Table!Sections(f) = Sections(f)
  BY SamePicture
<1>2. {r \in UNION {Table!RelationsOf(f, t) : t \in {u \in Table!Sections(f) : f.sections[u].readable}} :
            r.record_index = i} = {}
  BY <1>1
<1> QED
  BY <1>2 DEF Table!ForeignId

\* What is in the map after emplace() over an empty one is of the entries.
LEMMA EmplacedFrom ==
    ASSUME NEW map, DOMAIN map = {}, NEW entries \in Seq(RelationEntries),
           NEW i \in DOMAIN Emplaced(map, entries)
    PROVE  \E j \in 1..Len(entries) :
                entries[j].record_index = i /\ Emplaced(map, entries)[i] = entries[j].foreign_id
<1> DEFINE hits == {k \in 1..Len(entries) : entries[k].record_index = i}
           Is(k) == /\ entries[k].record_index = i
                    /\ \A j \in 1..k-1 : entries[j].record_index # i
<1>1. hits # {} /\ hits \subseteq Nat
  BY DEF Emplaced
<1>2. PICK k \in hits : \A j \in hits : k <= j
  <2> HIDE DEF hits
  <2> QED
    BY <1>1, LeastNatural
<1>3. Is(k) /\ k \in 1..Len(entries)
  BY <1>2, LenProperties
<1> DEFINE first == CHOOSE m \in 1..Len(entries) : Is(m)
<1>4. first \in 1..Len(entries) /\ entries[first].record_index = i
  <2>1. first \in 1..Len(entries) /\ Is(first)
    <3> HIDE DEF Is
    <3> QED
      BY <1>3
  <2> QED
    BY <2>1
<1>5. Emplaced(map, entries)[i] = entries[first].foreign_id
  BY DEF Emplaced
<1> QED
  BY <1>4, <1>5

\* At the end of load() the map has the first relation of each record it read.
LEMMA RelationsLoaded ==
    ASSUME RowsInv, LoadInv, FinishLoad, TypeOK
    PROVE  RelationsKnown'
<1>1. /\ file \in Files /\ pc = "section" /\ pc' = "loaded" /\ sec = Len(file.sections) + 1
      /\ relationships \in Seq(RelationEntries) /\ DOMAIN relationshipMap = {}
      /\ relationshipMap' = Emplaced(relationshipMap, relationships)
      /\ UNCHANGED file
  BY FileFacts DEF TypeOK, StateOK, FinishLoad, LoadInv, TablesInv, Fresh
<1>2. \A s \in Sections(file) : s < sec
  BY <1>1, FileFacts DEF Sections
<1>3. ASSUME NEW s \in Sections(file), file.sections[s].readable,
             NEW k \in 1..Len(file.sections[s].relationships)
      PROVE  Mapped(relationshipMap', file.sections[s].relationships[k])
  <2>1. FirstIn(relationships, file.sections[s].relationships[k])
    BY <1>1, <1>2, <1>3 DEF LoadInv, TablesInv, RelationsFirst, Done, Loading
  <2> QED
    BY <1>1, <2>1, EmplacedFirst
<1>4. ASSUME NEW i \in DOMAIN relationshipMap'
      PROVE  relationshipMap'[i] = Table!ForeignId(file, i)
  <2>1. PICK j \in 1..Len(relationships) :
          relationships[j].record_index = i /\ relationshipMap'[i] = relationships[j].foreign_id
    BY <1>1, <1>4, EmplacedFrom
  <2>2. PICK s \in Sections(file) : OfSection(file, relationships[j], s)
    BY <1>1 DEF LoadInv, TablesInv, RelationsOfSections, Loading
  <2>3. CASE \E t \in Sections(file) : /\ file.sections[t].readable
                                       /\ \E r \in Table!RelationsOf(file, t) : r.record_index = i
    <3>1. PICK t \in Sections(file) :
            file.sections[t].readable /\ \E r \in Table!RelationsOf(file, t) : r.record_index = i
      BY <2>3
    <3>2. PICK k \in 1..Len(file.sections[t].relationships) :
            file.sections[t].relationships[k].record_index = i
      BY <3>1 DEF Table!RelationsOf
    <3>3. relationshipMap'[i] = file.sections[t].relationships[k].foreign_id
      BY <1>3, <3>1, <3>2 DEF Mapped
    <3> QED
      BY <1>1, <3>1, <3>2, <3>3, ForeignIdOf
  <2>4. CASE \A t \in Sections(file) : file.sections[t].readable =>
                \A r \in Table!RelationsOf(file, t) : r.record_index # i
    <3>1. relationships[j].foreign_id = 0
      BY <2>1, <2>2, <2>4 DEF OfSection, Table!RelationsOf
    <3>2. Table!ForeignId(file, i) = 0
      BY <1>1, <2>4, NoForeignId
    <3> QED
      BY <2>1, <3>1, <3>2
  <2> QED
    BY <2>3, <2>4
<1> QED
  BY <1>1, <1>3, <1>4 DEF RelationsKnown, Mapped, Table!RelationsOf

LEMMA TablesFileStep ==
    ASSUME MaxLoads = 1, RowsInv, LoadInv, TablesKnown, FileNext
    PROVE  LoadInv' /\ TablesKnown'
<1>1. pc \notin Read /\ UNCHANGED file /\ TypeOK /\ TypeOK' /\ file \in Files
  BY NoReload DEF TypeOK, StateOK
<1>2. LoadInv'
  BY <1>1, LoadInvStep DEF RowsInv
<1>3. ASSUME pc' \in Read
      PROVE  TablesKnown'
  <2>1. FinishLoad
    <3>1. ~Open /\ ~Load
      BY <1>1, <1>3 DEF Open, Load, Read, Reading
    <3>2. ~EnterSection
      BY <1>3 DEF EnterSection, Read, Reading
    <3>3. ~ReadIdList /\ ~ReadCopyTable /\ ~ReadOffsetMap
      BY <1>3 DEF ReadIdList, ReadCopyTable, ReadOffsetMap, Continue, Read, Reading
    <3>4. AfterKeys \notin Read
      BY DEF AfterKeys, Read, Reading
    <3>5. ~LoadOffsetMapIds
      BY <1>3, <3>4 DEF LoadOffsetMapIds, Continue, Read, Reading
    <3>6. ~LoadRelationships
      BY <1>3, <3>4 DEF LoadRelationships, Continue, Read, Reading
    <3> QED
      BY <3>1, <3>2, <3>3, <3>5, <3>6 DEF FileNext, LoadStep
  <2>2. /\ pc = "section" /\ pc' = "loaded" /\ sec = Len(file.sections) + 1
        /\ UNCHANGED <<sec, copyTable>>
    BY <1>1, <2>1, FileFacts DEF FinishLoad, TypeOK, StateOK
  <2>3. Len(copyTable') = file'.copyStarts[Len(file'.sections) + 1]
    BY <1>1, <2>2 DEF LoadInv, TablesInv, TablesCounted, Behind, CopiesDone, Loading
  <2>4. \A s \in Sections(file') : s < sec'
    BY <1>1, <2>2, FileFacts DEF Sections
  <2>5. \A s \in Sections(file') :
          /\ Placed(file, idList, file.starts[s], "idList", s)'
          /\ Placed(file, copyTable, file.copyStarts[s], "copyTable", s)'
          /\ Placed(file, offsetMap, file.starts[s], "offsetMap", s)'
    BY <1>2, <2>2, <2>4 DEF LoadInv, TablesInv, IdsPlaced, CopiesPlaced, OffsetsPlaced, Done, Promised
  <2>6. RelationsKnown'
    BY <1>1, <2>1, RelationsLoaded
  <2> QED
    BY <2>3, <2>5, <2>6 DEF TablesKnown
<1> QED
  BY <1>2, <1>3 DEF TablesKnown

------------------------------------------------------------------------------
(* The steps of operator[].                                                *)

\* Reading leaves the tables known: the zero it inserts for a record is what a
\* record without a relation has.
LEMMA TablesReadStep ==
    ASSUME RowsInv, FileChecked, TablesKnown, ReadSteps,
           relationshipMap' \in {relationshipMap, WithDefault(relationshipMap, lookup)}
    PROVE  FileChecked' /\ TablesKnown'
<1>1. /\ pc \in Read /\ pc' \in Read /\ file \in Files
      /\ UNCHANGED <<file, idList, copyTable, offsetMap>>
  BY DEF ReadSteps, RowsInv, StateOK
<1>2. FileChecked'
  BY <1>1 DEF FileChecked, Accepted, Read, Reading, Loading, Body
<1>3. RelationsKnown
  BY <1>1 DEF TablesKnown
<1>4. RelationsKnown'
  <2>1. CASE relationshipMap' = relationshipMap
    BY <1>1, <1>3, <2>1 DEF RelationsKnown
  <2>2. CASE relationshipMap' = WithDefault(relationshipMap, lookup)
    <3>1. /\ DOMAIN relationshipMap' = DOMAIN relationshipMap \union {lookup}
          /\ \A q \in DOMAIN relationshipMap' :
                relationshipMap'[q] = IF q \in DOMAIN relationshipMap THEN relationshipMap[q] ELSE 0
      BY <2>2 DEF WithDefault
    <3>2. lookup \notin DOMAIN relationshipMap => Table!ForeignId(file, lookup) = 0
      <4> SUFFICES ASSUME lookup \notin DOMAIN relationshipMap
                   PROVE  Table!ForeignId(file, lookup) = 0
        OBVIOUS
      <4>1. \A s \in Sections(file) : file.sections[s].readable =>
                \A r \in Table!RelationsOf(file, s) : r.record_index # lookup
        BY <1>3 DEF RelationsKnown
      <4> QED
        BY <1>1, <4>1, NoForeignId
    <3> QED
      BY <1>1, <1>3, <3>1, <3>2 DEF RelationsKnown
  <2> QED
    BY <2>1, <2>2
<1>5. TablesKnown'
  BY <1>1, <1>4 DEF TablesKnown, Placed, Entry
<1> QED
  BY <1>2, <1>5

\* An accepted table with an id list has an id for each record of a section.
LEMMA IdsCounted ==
    ASSUME NEW f \in Files, Accepted(f), f.useIdList, NEW s \in Sections(f)
    PROVE  Len(f.sections[s].idList) = f.sections[s].record_count
<1> DEFINE n == Len(f.sections[s].idList)
<1>1. f.sections[s].id_list_size = 4 * n
  BY LayoutFacts
<1>2. f.sections[s].id_list_size = f.sections[s].record_count * 4
  BY DEF Accepted, UnexpectedIdList
<1>3. n \in Nat /\ f.sections[s].record_count \in Nat
  BY SectionFacts, LenProperties
<1> HIDE DEF n
<1>4. n = f.sections[s].record_count
  BY <1>1, <1>2, <1>3
<1> QED
  BY <1>4 DEF n

\* The id of a record in the loaded list: its own, or 0 if it is out of reach.
LEMMA IdOfRow ==
    ASSUME TableInv, pc \in Read, file.useIdList, NEW r \in Rows(file)
    PROVE  /\ file.starts[r[1]] + r[2] \in 1..Len(idList)
           /\ idList[file.starts[r[1]] + r[2]]
                = IF file.sections[r[1]].readable THEN Table!RowId(file, r[1], r[2]) ELSE 0
<1>1. file \in Files /\ Accepted(file)
  BY DEF TableInv, TypedInv, RowsInv, StateOK, FileChecked
<1>2. r[1] \in Sections(file) /\ r[2] \in 1..file.sections[r[1]].record_count
  BY <1>1, RowPlace
<1>3. r[2] \in 1..Len(file.sections[r[1]]["idList"])
  BY <1>1, <1>2, IdsCounted
<1>4. Placed(file, idList, file.starts[r[1]], "idList", r[1])
  BY <1>2 DEF TableInv, TablesKnown
<1>5. /\ file.starts[r[1]] + r[2] \in 1..Len(idList)
      /\ idList[file.starts[r[1]] + r[2]] = Entry(file, r[1], "idList", r[2])
  BY <1>3, <1>4 DEF Placed
<1>6. Filled("idList", 0) = 0
  BY DEF Filled
<1>7. Table!RowId(file, r[1], r[2]) = file.sections[r[1]].idList[r[2]]
  BY DEF Table!RowId
<1> QED
  BY <1>5, <1>6, <1>7 DEF Entry

LEMMA FoundAtHit ==
    ASSUME NEW ids, Len(ids) \in Nat, NEW id, \E k \in 1..Len(ids) : ids[k] = id
    PROVE  FoundAt(ids, id) \in 1..Len(ids) /\ ids[FoundAt(ids, id)] = id
<1> DEFINE hits == {k \in 1..Len(ids) : ids[k] = id}
<1>1. PICK k \in hits : \A j \in hits : k <= j
  <2>1. hits # {} /\ hits \subseteq Nat
    OBVIOUS
  <2> QED
    BY <2>1, LeastNatural
<1>2. \A j \in 1..k-1 : ids[j] # id
  BY <1>1
<1> QED
  BY <1>1, <1>2 DEF FoundAt

\* An id found in the list is that of a record within reach, or a 0 of another.
LEMMA FoundRow ==
    ASSUME TableInv, pc \in Read, file.useIdList, Table!IdsTell(file), NEW id,
           \E k \in 1..Len(idList) : idList[k] = id
    PROVE  \E r \in Rows(file) :
                /\ FoundAt(idList, id) - 1 = file.starts[r[1]] + r[2] - 1
                /\ IF id = 0 THEN ~file.sections[r[1]].readable
                   ELSE file.sections[r[1]].readable /\ Table!RowId(file, r[1], r[2]) = id
<1> DEFINE m == FoundAt(idList, id)
<1>1. file \in Files /\ idList \in Seq(Nat)
  BY DEF TableInv, TypedInv, RowsInv, StateOK
<1>2. Len(idList) = file.record_count /\ Len(idList) \in Nat
  BY <1>1, LenProperties DEF TableInv, TypedInv, RowsInv, IdsKnown
<1>3. m \in 1..file.record_count /\ idList[m] = id
  BY <1>2, FoundAtHit
<1> HIDE DEF m
<1>4. m - 1 \in 0..file.record_count - 1
  BY <1>2, <1>3
<1>5. PICK r \in Rows(file) : m - 1 = file.starts[r[1]] + r[2] - 1
  BY <1>1, <1>4, RowOf
<1>6. m = file.starts[r[1]] + r[2]
  <2>1. file.starts[r[1]] \in Nat /\ r[2] \in Nat
    <3>1. r[1] \in Sections(file) /\ r[2] \in 1..file.sections[r[1]].record_count
      BY <1>1, RowPlace
    <3>2. file.sections[r[1]].record_count \in Nat
      BY <1>1, <3>1, SectionFacts
    <3> QED
      BY <1>1, <3>1, <3>2, BasesNat
  <2> QED
    BY <1>2, <1>3, <1>5, <2>1
<1>7. id = IF file.sections[r[1]].readable THEN Table!RowId(file, r[1], r[2]) ELSE 0
  BY <1>3, <1>6, IdOfRow
<1>8. Table!RowId(file, r[1], r[2]) # 0
  BY SamePicture DEF Table!IdsTell
<1> QED
  BY <1>5, <1>7, <1>8 DEF m

LEMMA TableInit == RowsInit => TableInv
<1> SUFFICES ASSUME RowsInit PROVE TableInv
  OBVIOUS
<1>1. TypedInv /\ LoadInv
  BY TypedInit, TablesInvInit DEF RowsInit
<1>2. pc = "closed"
  BY DEF RowsInit, Init
<1> QED
  BY <1>1, <1>2
     DEF TableInv, FileChecked, Loading, Read, Reading, Body, TablesKnown, RecordFound, BufferKnown

\* The entry of a copy: the promised one, or zeros from behind a missing key.
LEMMA CopyPlaced ==
    ASSUME TableInv, pc \in Read, NEW j \in Nat, j < Len(copyTable)
    PROVE  \E s \in Sections(file) : \E k \in 1..Len(file.sections[s].copyTable) :
                /\ Table!Place(file.copyStarts, file, j) = [section |-> s, at |-> k]
                /\ copyTable[j + 1] = IF file.sections[s].readable
                                      THEN file.sections[s].copyTable[k]
                                      ELSE [id_of_new_row |-> 0, id_of_copied_row |-> 0]
<1> DEFINE n == Len(file.sections)
           starts == file.copyStarts
<1>1. file \in Files
  BY DEF TableInv, TypedInv, RowsInv, StateOK
<1>2. n \in Nat /\ Climbs(starts, n) /\ starts[1] = 0 /\ Sections(file) = 1..n
  BY <1>1, FileFacts, StartsClimb, StartFacts DEF Sections
<1>3. j < starts[n + 1]
  BY DEF TableInv, TablesKnown
<1>4. PICK s \in 1..n : starts[s] <= j /\ j < starts[s + 1]
  <2> HIDE DEF n, starts
  <2>1. starts[1] <= j
    BY <1>2
  <2> QED
    BY <1>2, <1>3, <2>1, StepOf
<1>5. /\ starts[s + 1] = starts[s] + Len(file.sections[s].copyTable)
      /\ starts[s] \in Nat /\ Len(file.sections[s].copyTable) \in Nat
  <2>1. starts[s + 1] = starts[s] + file.sections[s].copy_table_count
    BY <1>1, <1>2, <1>4, StartFacts
  <2>2. file.sections[s].copy_table_count = Len(file.sections[s].copyTable)
    BY <1>1, <1>2, <1>4, LayoutFacts
  <2>3. file.sections[s].copy_table_count \in Nat
    BY <1>1, <1>2, <1>4, SectionFacts
  <2> QED
    BY <1>1, <1>2, <1>4, <2>1, <2>2, <2>3, BasesNat
<1> DEFINE k == j - starts[s] + 1
<1>6. k \in 1..Len(file.sections[s].copyTable) /\ starts[s] + k = j + 1
  <2> DEFINE b == starts[s]
             c == Len(file.sections[s].copyTable)
  <2>1. b \in Nat /\ c \in Nat /\ b <= j /\ j < b + c /\ k = j - b + 1
    BY <1>4, <1>5
  <2> HIDE DEF b, c, k, starts
  <2>2. k \in 1..c /\ b + k = j + 1
    BY <2>1
  <2> QED
    BY <2>2 DEF b, c
<1>7. Table!Place(starts, file, j) = [section |-> s, at |-> k]
  BY <1>1, <1>2, <1>4, PlaceOf
<1>8. Placed(file, copyTable, starts[s], "copyTable", s)
  BY <1>2, <1>4 DEF TableInv, TablesKnown
<1>9. copyTable[j + 1] = Entry(file, s, "copyTable", k)
  <2> HIDE DEF k, starts
  <2> QED
    BY <1>6, <1>8 DEF Placed
<1>10. Entry(file, s, "copyTable", k)
         = IF file.sections[s].readable THEN file.sections[s].copyTable[k]
           ELSE [id_of_new_row |-> 0, id_of_copied_row |-> 0]
  BY DEF Entry, Filled
<1> QED
  <2> HIDE DEF k, starts
  <2> QED
    BY <1>2, <1>4, <1>6, <1>7, <1>9, <1>10 DEF starts

\* The row found for the copy at k of section s.
LEMMA CopyFound ==
    ASSUME TableInv, pc \in Read, Table!IsTable(file),
           NEW s \in Sections(file), NEW k \in 1..Len(file.sections[s].copyTable)
    PROVE  LET id == Entry(file, s, "copyTable", k).id_of_copied_row
           IN  /\ \E m \in 1..Len(idList) : idList[m] = id
               /\ \E r \in Rows(file) :
                    /\ FoundAt(idList, id) - 1 = file.starts[r[1]] + r[2] - 1
                    /\ IF file.sections[s].readable
                       THEN file.sections[r[1]].readable /\ Table!RowId(file, r[1], r[2]) = id
                       ELSE ~file.sections[r[1]].readable
<1> DEFINE copied == file.sections[s].copyTable[k]
           entry == Entry(file, s, "copyTable", k)
<1>0. entry = IF file.sections[s].readable THEN copied
              ELSE [id_of_new_row |-> 0, id_of_copied_row |-> 0]
  BY DEF Entry, Filled
<1> HIDE DEF entry
<1>1. Table!CopiesStand(file) /\ Table!IdsTell(file)
  BY DEF Table!IsTable
<1>2. /\ file.useIdList
      /\ \E r \in Rows(file) : r[1] = s /\ Table!RowId(file, s, r[2]) = copied.id_of_copied_row
  BY <1>1, SamePicture DEF Table!CopiesStand
<1>3. PICK r \in Rows(file) : r[1] = s /\ Table!RowId(file, s, r[2]) = copied.id_of_copied_row
  BY <1>2
<1>4. Table!RowId(file, s, r[2]) # 0
  BY <1>1, <1>2, <1>3, SamePicture DEF Table!IdsTell
<1>5. /\ file.starts[s] + r[2] \in 1..Len(idList)
      /\ idList[file.starts[s] + r[2]] = entry.id_of_copied_row
  BY <1>0, <1>2, <1>3, IdOfRow
<1>6. entry.id_of_copied_row = 0 <=> ~file.sections[s].readable
  BY <1>0, <1>3, <1>4
<1>7. \E m \in 1..Len(idList) : idList[m] = entry.id_of_copied_row
  BY <1>5
<1> QED
  BY <1>1, <1>2, <1>6, <1>7, FoundRow DEF entry

\* The index of a call is a record's, or a copy's that names one: an id that
\* open() and load() let through is always found.
LEMMA LookupFound ==
    ASSUME TableInv, Table!IsTable(file), Lookup
    PROVE  pc' = "find" /\ UNCHANGED answer /\ RecordFound'
<1>1. /\ pc = "lookup" /\ UNCHANGED <<file, index>> /\ pc \in Read /\ pc \in Reading /\ index \in Nat
      /\ file \in Files /\ file.record_count \in Nat
  BY FileFacts DEF Lookup, Read, Reading, TableInv, TypedInv, CallTyped, RowsInv, StateOK
<1>2. CASE index < file.record_count
  BY <1>1, <1>2 DEF Lookup, StartFind, RecordFound
<1>3. CASE ~(index < file.record_count)
  <2> DEFINE j == index - file.record_count
             entry == copyTable[j + 1]
  <2>1. j \in Nat /\ j < Len(copyTable)
    <3>1. j + 1 \in 1..Len(copyTable)
      BY <1>1, <1>3, CopyAsked DEF TableInv
    <3>2. Len(copyTable) \in Nat
      BY LenProperties DEF TableInv, TypedInv, RowsInv, StateOK
    <3> QED
      BY <1>1, <1>3, <3>1, <3>2
  <2>2. PICK s \in Sections(file) : \E k \in 1..Len(file.sections[s].copyTable) :
            /\ Table!Place(file.copyStarts, file, j) = [section |-> s, at |-> k]
            /\ entry = IF file.sections[s].readable THEN file.sections[s].copyTable[k]
                       ELSE [id_of_new_row |-> 0, id_of_copied_row |-> 0]
    <3> HIDE DEF j
    <3> QED
      BY <1>1, <2>1, CopyPlaced
  <2>3. PICK k \in 1..Len(file.sections[s].copyTable) :
            /\ Table!Place(file.copyStarts, file, j) = [section |-> s, at |-> k]
            /\ entry = IF file.sections[s].readable THEN file.sections[s].copyTable[k]
                       ELSE [id_of_new_row |-> 0, id_of_copied_row |-> 0]
    BY <2>2
  <2> HIDE DEF entry, j
  <2>a. entry = Entry(file, s, "copyTable", k)
    BY <2>3 DEF Entry, Filled
  <2>4. /\ \E m \in 1..Len(idList) : idList[m] = entry.id_of_copied_row
        /\ \E r \in Rows(file) :
                /\ FoundAt(idList, entry.id_of_copied_row) - 1 = file.starts[r[1]] + r[2] - 1
                /\ IF file.sections[s].readable
                   THEN /\ file.sections[r[1]].readable
                        /\ Table!RowId(file, r[1], r[2]) = entry.id_of_copied_row
                   ELSE ~file.sections[r[1]].readable
    BY <1>1, <2>a, CopyFound
  <2>5. /\ pc' = "find" /\ UNCHANGED answer
        /\ lookup' = FoundAt(idList, entry.id_of_copied_row) - 1
        /\ replacement' = entry.id_of_new_row
    BY <1>3, <2>4 DEF Lookup, StartFind, entry, j
  <2>6. CopyStandsFor(file, j, lookup', replacement')
    BY <2>3, <2>4, <2>5 DEF CopyStandsFor
  <2> QED
    BY <1>1, <1>3, <2>5, <2>6 DEF RecordFound, j
<1> QED
  BY <1>2, <1>3

\* Where the walk has ended: at a record of the table.
LEMMA AtRow ==
    ASSUME TableInv, pc \in {"read", "decode"}
    PROVE  /\ file \in Files /\ section \in Sections(file)
           /\ At \in 1..file.sections[section].record_count
           /\ <<section, At>> \in Rows(file)
           /\ lookup \in Nat /\ file.starts[section] \in Nat /\ lookup = file.starts[section] + At - 1
           /\ Table!Place(file.starts, file, lookup) = [section |-> section, at |-> At]
<1>1. /\ file \in Files /\ section \in Sections(file) /\ lookup \in Nat
      /\ lookup - file.starts[section] \in 0..file.sections[section].record_count - 1
  BY DEF TableInv, TypedInv, RowsInv, Walk, StateOK
<1>2. /\ file.starts[section] \in Nat /\ file.sections[section].record_count \in Nat
      /\ file.record_count \in Nat
      /\ file.starts[section + 1] = file.starts[section] + file.sections[section].record_count
      /\ file.starts[section + 1] <= file.record_count
  BY <1>1, BasesNat, SectionFacts, FileFacts, SectionEndsBefore
<1> DEFINE b == file.starts[section]
           n == file.sections[section].record_count
           m == file.record_count
<1>3. /\ At \in 1..n /\ lookup = b + At - 1 /\ b <= lookup /\ lookup < file.starts[section + 1]
      /\ At \in 1..m /\ At <= n
  <2>1. At = lookup - b + 1 /\ lookup - b \in 0..n - 1 /\ file.starts[section + 1] = b + n
    BY <1>1, <1>2 DEF At
  <2>2. b \in Nat /\ n \in Nat /\ m \in Nat /\ b + n <= m
    BY <1>2
  <2> HIDE DEF b, n, m
  <2> QED
    BY <1>1, <2>1, <2>2
<1>4. <<section, At>> \in Rows(file)
  BY <1>1, <1>3 DEF Rows
<1>5. Table!Place(file.starts, file, lookup) = [section |-> section, at |-> lookup - b + 1]
  BY <1>1, <1>3, PlaceOf
<1> QED
  BY <1>1, <1>2, <1>3, <1>4, <1>5 DEF At

\* The offset map entry of a record, as load() has left it.
LEMMA OffsetOfRow ==
    ASSUME TableInv, pc \in {"read", "decode"}, HasOffsetMap(file)
    PROVE  offsetMap[lookup + 1] = Entry(file, section, "offsetMap", At)
<1>1. /\ file \in Files /\ section \in Sections(file)
      /\ At \in 1..file.sections[section].record_count
      /\ lookup \in Nat /\ file.starts[section] \in Nat /\ lookup = file.starts[section] + At - 1
  BY AtRow
<1>2. file.sections[section].record_count = Len(file.sections[section]["offsetMap"])
      /\ file.sections[section].record_count \in Nat
  BY <1>1, LayoutFacts, SectionFacts
<1>3. Placed(file, offsetMap, file.starts[section], "offsetMap", section)
  BY <1>1 DEF TableInv, TablesKnown, Read, Reading
<1>4. offsetMap[file.starts[section] + At] = Entry(file, section, "offsetMap", At)
  BY <1>1, <1>2, <1>3 DEF Placed
<1>5. file.starts[section] + At = lookup + 1
  BY <1>1, <1>2
<1> QED
  BY <1>4, <1>5

\* A record within reach is read from where it lies, and is not empty; one out
\* of reach is read from there too, or has no entry in the offset map.
LEMMA ReadFrom ==
    ASSUME TableInv, Table!IsTable(file), pc \in {"read", "decode"}
    PROVE  /\ ~file.sections[section].readable => Keyed
           /\ HasOffsetMap(file) /\ ~file.sections[section].readable => NoBytes
           /\ ~HasOffsetMap(file) \/ file.sections[section].readable =>
                /\ ~NoBytes
                /\ RecordStart = RecordPos(file, section, At)
                /\ RecordAt(file, RecordStart) = {<<section, At>>}
<1>1. /\ file \in Files /\ section \in Sections(file) /\ <<section, At>> \in Rows(file)
      /\ At \in 1..file.sections[section].record_count
      /\ lookup - file.starts[section] = At - 1
  <2>1. /\ file \in Files /\ section \in Sections(file) /\ <<section, At>> \in Rows(file)
        /\ At \in 1..file.sections[section].record_count
        /\ lookup \in Nat /\ file.starts[section] \in Nat
    BY AtRow
  <2>2. lookup - file.starts[section] = At - 1
    BY <2>1 DEF At
  <2> QED
    BY <2>1, <2>2
<1>2. Table!PlacesApart(file) /\ Table!OffsetsLead(file)
  BY DEF Table!IsTable
<1>3. ~file.sections[section].readable => Keyed
  BY <1>1, <1>2, SamePicture DEF Table!PlacesApart, Keyed
<1>4. RecordAt(file, RecordPos(file, section, At)) = {<<section, At>>}
  <2>1. \A r \in Rows(file) : RecordPos(file, r[1], r[2]) = RecordPos(file, section, At)
                                 => r = <<section, At>>
    BY <1>1, <1>2, SamePicture DEF Table!PlacesApart
  <2> QED
    BY <1>1, <2>1 DEF RecordAt
<1>5. CASE ~HasOffsetMap(file)
  <2>1. ~NoBytes
    BY <1>5 DEF NoBytes
  <2>2. RelativeIndex = At - 1
    BY <1>1, <1>5, WalkInRange DEF SectionInRange, TableInv, TypedInv
  <2>3. At - 1 \in Int /\ file.record_size \in Nat
    BY <1>1, FileFacts
  <2>4. RecordStart = file.sections[section].file_offset + (At - 1) * file.record_size
    BY <1>5, <2>2 DEF RecordStart
  <2>5. RecordPos(file, section, At)
          = file.sections[section].file_offset + file.record_size * (At - 1)
    BY <1>5 DEF RecordPos
  <2>6. (At - 1) * file.record_size = file.record_size * (At - 1)
    BY <2>3
  <2> QED
    BY <1>3, <1>4, <1>5, <2>1, <2>4, <2>5, <2>6
<1>6. CASE HasOffsetMap(file)
  <2>1. offsetMap[lookup + 1] = Entry(file, section, "offsetMap", At)
    BY <1>6, OffsetOfRow
  <2>2. CASE file.sections[section].readable
    <3>1. offsetMap[lookup + 1] = file.sections[section].offsetMap[At]
      BY <2>1, <2>2 DEF Entry
    <3>2. /\ file.sections[section].offsetMap[At].offset = RecordPos(file, section, At)
          /\ file.sections[section].offsetMap[At].size > 0
      BY <1>1, <1>2, <1>6, SamePicture DEF Table!OffsetsLead
    <3>3. RecordStart = RecordPos(file, section, At)
      BY <1>6, <3>1, <3>2 DEF RecordStart
    <3>4. ~NoBytes
      BY <3>1, <3>2 DEF NoBytes
    <3> QED
      BY <1>4, <2>2, <3>3, <3>4
  <2>3. CASE ~file.sections[section].readable
    <3>1. offsetMap[lookup + 1] = [offset |-> 0, size |-> 0]
      BY <2>1, <2>3 DEF Entry, Filled
    <3> QED
      BY <1>3, <1>6, <2>3, <3>1 DEF NoBytes
  <2> QED
    BY <2>2, <2>3
<1> QED
  BY <1>5, <1>6

LEMMA BufferRead ==
    ASSUME TableInv, Table!IsTable(file), ReadRecord
    PROVE  BufferKnown'
<1>1. pc = "read" /\ UNCHANGED <<file, section, lookup>>
  BY DEF ReadRecord
<1>2. At' = At
  BY <1>1 DEF At
<1>3. ASSUME pc' = "decode"
      PROVE  buffer' \in IF NoBytes THEN {Cleared(buffer)} ELSE Got(file, RecordStart, Cleared(buffer))
  BY <1>3 DEF ReadRecord, SourceThrows, Throws
<1>4. AllZero(Blank(file)) /\ AllZero(Cleared(buffer))
  BY DEF AllZero, Blank, Cleared
<1>5. CASE pc' = "decode" /\ file.sections[section].readable
  <2>1. ~NoBytes /\ RecordAt(file, RecordStart) = {<<section, At>>}
    BY <1>1, <1>5, ReadFrom
  <2>2. Got(file, RecordStart, Cleared(buffer)) = {file.sections[section].rows[At]}
    <3>1. (CHOOSE r \in RecordAt(file, RecordStart) : TRUE) = <<section, At>>
      BY <2>1
    <3> QED
      BY <1>5, <2>1, <3>1 DEF Got
  <2> QED
    BY <1>1, <1>2, <1>3, <1>5, <2>1, <2>2 DEF BufferKnown
<1>6. CASE pc' = "decode" /\ ~file.sections[section].readable
  <2>1. buffer' \in {Blank(file), Cleared(buffer)} \/ (~HasOffsetMap(file) /\ file.useIdList)
    <3>1. CASE NoBytes
      BY <1>3, <1>6, <3>1
    <3>2. CASE ~NoBytes
      <4>1. ~HasOffsetMap(file) /\ RecordAt(file, RecordStart) = {<<section, At>>}
        BY <1>1, <1>6, <3>2, ReadFrom
      <4>2. (CHOOSE r \in RecordAt(file, RecordStart) : TRUE) = <<section, At>>
        BY <4>1
      <4>3. ~file.useIdList => Got(file, RecordStart, Cleared(buffer)) = {Blank(file), Cleared(buffer)}
        BY <1>6, <4>1, <4>2 DEF Got
      <4> QED
        BY <1>3, <1>6, <3>2, <4>1, <4>3
    <3> QED
      BY <3>1, <3>2
  <2>2. AllZero(buffer') \/ (~HasOffsetMap(file) /\ file.useIdList)
    BY <1>4, <2>1
  <2> QED
    BY <1>1, <1>6, <2>2 DEF BufferKnown, AllZero, HasOffsetMap
<1> QED
  BY <1>5, <1>6 DEF BufferKnown

\* A table that is read is one the promise is made for.
LEMMA ReadsTable ==
    ASSUME FilesAreTables, TableInv, pc \in Read
    PROVE  Table!IsTable(file) /\ file \in Files
<1>1. Accepted(file) /\ file \in Files
  BY DEF TableInv, FileChecked, TypedInv, RowsInv, StateOK
<1> QED
  BY <1>1 DEF FilesAreTables

LEMMA TableFileStep ==
    ASSUME MaxLoads = 1, TableInv, FileNext, UNCHANGED rowVars
    PROVE  FileChecked' /\ (pc' \notin Read => LoadInv') /\ TablesKnown' /\ RecordFound' /\ BufferKnown'
<1>1. pc \notin Read /\ RowsInv
  BY NoReload DEF TableInv, TypedInv
<1>2. FileChecked' /\ LoadInv' /\ TablesKnown'
  BY <1>1, CheckedFileStep, TablesFileStep DEF TableInv
<1>3. pc' \notin Reading
  BY DEF FileNext, LoadStep, Open, Load, EnterSection, ReadIdList, ReadCopyTable, ReadOffsetMap,
     LoadOffsetMapIds, LoadRelationships, FinishLoad, Continue, AfterKeys, Reading
<1> QED
  BY <1>2, <1>3 DEF RecordFound, BufferKnown, Reading

\* What each step of operator[] leaves known, apart from the record it is on.
LEMMA TableReadStep ==
    ASSUME TableInv, \/ \E i \in 0..Size - 1 : Ask(i)
                     \/ ReadStep
    PROVE  pc \in Read /\ pc' \in Read /\ FileChecked' /\ TablesKnown'
<1>1. ReadSteps /\ relationshipMap' \in {relationshipMap, WithDefault(relationshipMap, lookup)}
  <2>1. CASE \E i \in 0..Size - 1 : Ask(i)
    BY <2>1 DEF Ask, ReadSteps, Read, Reading, tableVars
  <2>2. CASE Lookup
    BY <2>2 DEF Lookup, StartFind, Throws, ReadSteps, Read, Reading, tableVars
  <2>3. CASE FindSection
    BY <2>3 DEF FindSection, ReadSteps, Read, Reading, tableVars
  <2>4. CASE ReadRecord
    BY <2>4 DEF ReadRecord, SourceThrows, Throws, ReadSteps, Read, Reading, tableVars
  <2>5. CASE Decode
    <3>1. /\ pc = "decode" /\ pc' = "loaded"
          /\ UNCHANGED <<file, opens, loads, cursor, sec, commonData, sectionOffsets,
                         idList, copyTable, offsetMap, offsetMapIds, relationships>>
      BY <2>5 DEF Decode, SourceThrows, Throws, Returns
    <3>2. relationshipMap' \in {relationshipMap, WithDefault(relationshipMap, lookup)}
      BY <2>5 DEF Decode
    <3> QED
      BY <3>1, <3>2 DEF ReadSteps, Read, Reading
  <2> QED
    BY <2>1, <2>2, <2>3, <2>4, <2>5 DEF ReadStep
<1>2. pc \in Read /\ pc' \in Read
  BY <1>1 DEF ReadSteps
<1> QED
  BY <1>1, <1>2, TablesReadStep DEF TableInv, TypedInv

\* Only Lookup changes which record a call is on.
LEMMA FoundStays ==
    ASSUME TableInv, \/ \E i \in 0..Size - 1 : Ask(i)
                     \/ FindSection \/ ReadRecord \/ Decode
    PROVE  RecordFound'
<1>1. CASE \E i \in 0..Size - 1 : Ask(i)
  BY <1>1 DEF Ask, RecordFound
<1>2. CASE FindSection \/ ReadRecord
  <2>1. pc \in {"find", "read"} /\ UNCHANGED <<file, index, lookup, replacement>>
    BY <1>2 DEF FindSection, ReadRecord
  <2> QED
    BY <2>1 DEF TableInv, RecordFound, CopyStandsFor
<1>3. CASE Decode
  <2>1. pc' = "loaded"
    BY <1>3 DEF Decode, SourceThrows, Throws, Returns
  <2> QED
    BY <2>1 DEF RecordFound
<1> QED
  BY <1>1, <1>2, <1>3

\* Nothing is in the buffer before the read.
LEMMA BufferStays ==
    ASSUME TableInv, \/ \E i \in 0..Size - 1 : Ask(i)
                     \/ Lookup \/ FindSection \/ Decode
    PROVE  BufferKnown'
<1>1. pc' # "decode"
  <2>1. CASE \E i \in 0..Size - 1 : Ask(i)
    BY <2>1 DEF Ask
  <2>2. CASE Lookup \/ FindSection
    BY <2>2 DEF Lookup, StartFind, Throws, FindSection
  <2>3. CASE Decode
    BY <2>3 DEF Decode, SourceThrows, Throws, Returns
  <2> QED
    BY <2>1, <2>2, <2>3
<1> QED
  BY <1>1 DEF BufferKnown

LEMMA TableInvStutter ==
    ASSUME TableInv, UNCHANGED allVars
    PROVE  FileChecked' /\ (pc' \notin Read => LoadInv') /\ TablesKnown' /\ RecordFound' /\ BufferKnown'
<1>1. /\ UNCHANGED <<file, pc, sec, idList, copyTable, offsetMap, relationshipMap>>
      /\ UNCHANGED <<index, lookup, replacement, section, buffer>>
      /\ UNCHANGED vars
  BY DEF allVars, vars, tableVars, rowVars
<1>2. FileChecked'
  BY <1>1 DEF TableInv, FileChecked, Loading, Accepted
<1>3. pc' \notin Read => LoadInv'
  BY <1>1, LoadInvStutter DEF TableInv
<1>4. TablesKnown'
  BY <1>1 DEF TableInv, TablesKnown, RelationsKnown, Placed, Entry
<1>5. RecordFound'
  BY <1>1 DEF TableInv, RecordFound, CopyStandsFor
<1>6. BufferKnown'
  BY <1>1 DEF TableInv, BufferKnown, At, AllZero, HasOffsetMap
<1> QED
  BY <1>2, <1>3, <1>4, <1>5, <1>6

LEMMA TableInvNext ==
    ASSUME MaxLoads = 1, FilesAreTables, TableInv, [RowsNext]_allVars
    PROVE  TableInv'
<1>1. TypedInv'
  BY TypedInvNext DEF TableInv
<1>2. FileChecked' /\ (pc' \notin Read => LoadInv') /\ TablesKnown' /\ RecordFound' /\ BufferKnown'
  <2>1. CASE FileNext /\ UNCHANGED rowVars
    BY <2>1, TableFileStep
  <2>2. CASE \E i \in 0..Size - 1 : Ask(i)
    BY <2>2, TableReadStep, FoundStays, BufferStays
  <2>3. CASE ReadStep
    <3>1. pc \in Read /\ pc' \in Read /\ FileChecked' /\ TablesKnown' /\ Table!IsTable(file)
      BY <2>3, TableReadStep, ReadsTable
    <3>2. RecordFound'
      BY <2>3, <3>1, LookupFound, FoundStays DEF ReadStep
    <3>3. BufferKnown'
      BY <2>3, <3>1, BufferRead, BufferStays DEF ReadStep
    <3> QED
      BY <3>1, <3>2, <3>3
  <2>4. CASE UNCHANGED allVars
    BY <2>4, TableInvStutter
  <2> QED
    BY <2>1, <2>2, <2>3, <2>4 DEF RowsNext
<1> QED
  BY <1>1, <1>2 DEF TableInv

------------------------------------------------------------------------------
(* What a decoded record has, and what it is promised to have.             *)

\* The id a record goes by: its own, or that of the copy asked for.
IdUsed == IF replacement # NoId THEN replacement ELSE Table!RowId(file, section, At)

\* The place of the copied row is that of no other row.
LEMMA CopiedRow ==
    ASSUME NEW f \in Files, NEW id, NEW r \in Rows(f), Table!RowId(f, r[1], r[2]) = id,
           \A p, q \in Rows(f) : Table!RowId(f, p[1], p[2]) = Table!RowId(f, q[1], q[2]) => p = q
    PROVE  (CHOOSE i \in 0..f.record_count - 1 :
                LET q == Table!Place(f.starts, f, i) IN Table!RowId(f, q.section, q.at) = id)
             = f.starts[r[1]] + r[2] - 1
<1> DEFINE Names(i) == LET q == Table!Place(f.starts, f, i) IN Table!RowId(f, q.section, q.at) = id
           row == f.starts[r[1]] + r[2] - 1
<1>1. row \in 0..f.record_count - 1 /\ Table!Place(f.starts, f, row) = [section |-> r[1], at |-> r[2]]
  BY RowPlace
<1>2. Names(row)
  <2> HIDE DEF row
  <2> QED
    BY <1>1
<1>3. ASSUME NEW i \in 0..f.record_count - 1, Names(i)
      PROVE  i = row
  <2>1. PICK q \in Rows(f) : i = f.starts[q[1]] + q[2] - 1
    BY RowOf
  <2>2. Table!Place(f.starts, f, i) = [section |-> q[1], at |-> q[2]]
    BY <2>1, RowPlace
  <2>3. Table!RowId(f, q[1], q[2]) = id
    BY <1>3, <2>2
  <2>4. q = r
    BY <2>3
  <2> QED
    BY <2>1, <2>4
<1>4. (CHOOSE i \in 0..f.record_count - 1 : Names(i)) = row
  <2> HIDE DEF Names, row
  <2> QED
    BY <1>1, <1>2, <1>3
<1> QED
  BY <1>4

\* The copy a decoded record stands for, if the call is for one.
LEMMA CopyDecoded ==
    ASSUME TableInv, Table!IsTable(file), pc = "decode", ~(index < file.record_count),
           NEW p, p = Table!Place(file.copyStarts, file, index - file.record_count)
    PROVE  /\ file.useIdList
           /\ file.sections[p.section].readable <=> file.sections[section].readable
           /\ file.sections[section].readable =>
                LET entry == file.sections[p.section].copyTable[p.at]
                IN  /\ replacement = entry.id_of_new_row /\ replacement # 0 /\ replacement # NoId
                    /\ (CHOOSE i \in 0..file.record_count - 1 :
                            LET q == Table!Place(file.starts, file, i)
                            IN  Table!RowId(file, q.section, q.at) = entry.id_of_copied_row) = lookup
           /\ ~file.sections[section].readable => replacement = 0
<1> DEFINE j == index - file.record_count
           entry == file.sections[p.section].copyTable[p.at]
<1>1. /\ file \in Files /\ file.record_count \in Nat /\ index \in Nat /\ pc \in Reading /\ pc \in Read
  BY FileFacts DEF TableInv, TypedInv, RowsInv, StateOK, CallTyped, Reading, Read
<1>2. j \in Nat /\ j < Len(copyTable)
  <2>1. j + 1 \in 1..Len(copyTable)
    BY <1>1, CopyAsked DEF TableInv
  <2>2. Len(copyTable) \in Nat
    BY LenProperties DEF TableInv, TypedInv, RowsInv, StateOK
  <2> QED
    BY <1>1, <2>1, <2>2
<1>3. p.section \in Sections(file) /\ p.at \in 1..Len(file.sections[p.section].copyTable)
  <2> HIDE DEF j
  <2>1. PICK s \in Sections(file) : \E k \in 1..Len(file.sections[s].copyTable) :
            Table!Place(file.copyStarts, file, j) = [section |-> s, at |-> k]
    BY <1>1, <1>2, CopyPlaced
  <2> QED
    BY <2>1 DEF j
<1>4. /\ file.useIdList /\ entry.id_of_new_row # 0
      /\ \A r, t \in Rows(file) :
            Table!RowId(file, r[1], r[2]) = Table!RowId(file, t[1], t[2]) => r = t
  BY <1>3, SamePicture DEF Table!IsTable, Table!CopiesStand
<1>5. entry \in CopyEntries
  BY <1>1, <1>3, SectionFacts, ElementOfSeq
<1>6. CopyStandsFor(file, j, lookup, replacement)
  BY DEF TableInv, RecordFound
<1>7. Table!Place(file.starts, file, lookup) = [section |-> section, at |-> At]
  BY AtRow
<1>8. CASE file.sections[p.section].readable
  <2>1. replacement = entry.id_of_new_row
    BY <1>6, <1>8 DEF CopyStandsFor
  <2>2. PICK r \in Rows(file) : /\ file.sections[r[1]].readable
                                /\ Table!RowId(file, r[1], r[2]) = entry.id_of_copied_row
                                /\ lookup = file.starts[r[1]] + r[2] - 1
    BY <1>6, <1>8 DEF CopyStandsFor
  <2>3. Table!Place(file.starts, file, lookup) = [section |-> r[1], at |-> r[2]]
    BY <1>1, <2>2, RowPlace
  <2>4. section = r[1]
    BY <1>7, <2>3
  <2>5. (CHOOSE i \in 0..file.record_count - 1 :
            LET q == Table!Place(file.starts, file, i)
            IN  Table!RowId(file, q.section, q.at) = entry.id_of_copied_row) = lookup
    <3> HIDE DEF entry
    <3> QED
      BY <1>1, <1>4, <2>2, CopiedRow
  <2>6. replacement # NoId
    <3> HIDE DEF entry
    <3>1. entry.id_of_new_row \in Nat
      BY <1>5 DEF CopyEntries
    <3> QED
      BY <2>1, <3>1 DEF NoId
  <2> QED
    BY <1>4, <1>8, <2>1, <2>2, <2>4, <2>5, <2>6
<1>9. CASE ~file.sections[p.section].readable
  <2>1. replacement = 0
    BY <1>6, <1>9 DEF CopyStandsFor
  <2>2. PICK r \in Rows(file) :
            ~file.sections[r[1]].readable /\ lookup = file.starts[r[1]] + r[2] - 1
    BY <1>6, <1>9 DEF CopyStandsFor
  <2>3. Table!Place(file.starts, file, lookup) = [section |-> r[1], at |-> r[2]]
    BY <1>1, <2>2, RowPlace
  <2>4. section = r[1]
    BY <1>7, <2>3
  <2> QED
    BY <1>4, <1>9, <2>1, <2>2, <2>4
<1> QED
  BY <1>8, <1>9

\* The promise of a row, told by its place.
LEMMA RecordOfPlace ==
    ASSUME NEW f, NEW index0, NEW i, NEW id, NEW s, NEW k,
           Table!Place(f.starts, f, i) = [section |-> s, at |-> k]
    PROVE  Table!RecordOf(f, index0, i, id) =
             IF Table!Opaque(f, s, k) THEN Table!Record(index0, "ENCRYPTED", << >>)
             ELSE IF Table!RefusedCommon(f) THEN Table!Thrown(index0, "common data")
             ELSE IF Table!RefusedRelation(f) THEN Table!Thrown(index0, "relation ids")
             ELSE Table!Record(index0, Table!State(f, s),
                    (IF f.useIdList THEN <<id>> ELSE << >>)
                    \o [x \in 1..f.field_count |-> Table!FieldOf(f, s, k, id, x)]
                    \o (IF f.relation THEN <<Table!ForeignId(f, i)>> ELSE << >>))
<1> DEFINE p == Table!Place(f.starts, f, i)
<1>1. p.section = s /\ p.at = k
  OBVIOUS
<1>2. Table!RecordOf(f, index0, i, id) =
        IF Table!Opaque(f, p.section, p.at) THEN Table!Record(index0, "ENCRYPTED", << >>)
        ELSE IF Table!RefusedCommon(f) THEN Table!Thrown(index0, "common data")
        ELSE IF Table!RefusedRelation(f) THEN Table!Thrown(index0, "relation ids")
        ELSE Table!Record(index0, Table!State(f, p.section),
               (IF f.useIdList THEN <<id>> ELSE << >>)
               \o [x \in 1..f.field_count |-> Table!FieldOf(f, p.section, p.at, id, x)]
               \o (IF f.relation THEN <<Table!ForeignId(f, i)>> ELSE << >>))
  BY DEF Table!RecordOf
<1> HIDE DEF p
<1> QED
  BY <1>1, <1>2

\* What the index is promised, told from where the walk has ended.
LEMMA PromiseOf ==
    ASSUME TableInv, Table!IsTable(file), pc = "decode"
    PROVE  /\ file.sections[section].readable =>
                Table!Promise(file, index) = Table!RecordOf(file, index, lookup, IdUsed)
           /\ ~file.sections[section].readable =>
                Table!Promise(file, index) = Table!Record(index, "ENCRYPTED", << >>)
<1>1. Table!Place(file.starts, file, lookup) = [section |-> section, at |-> At]
  BY AtRow
<1>2. CASE index < file.record_count
  <2>1. lookup = index /\ replacement = NoId
    BY <1>2 DEF TableInv, RecordFound
  <2>2. Table!Promise(file, index) = Table!RecordOf(file, index, lookup, IdUsed)
    BY <1>1, <1>2, <2>1 DEF Table!Promise, IdUsed
  <2>3. ~file.sections[section].readable => Table!Opaque(file, section, At)
    BY ReadFrom DEF Table!Opaque, Keyed
  <2>4. Table!Opaque(file, section, At) =>
          Table!RecordOf(file, index, lookup, IdUsed) = Table!Record(index, "ENCRYPTED", << >>)
    BY <1>1, RecordOfPlace
  <2> QED
    BY <2>2, <2>3, <2>4
<1>3. CASE ~(index < file.record_count)
  <2> DEFINE p == Table!Place(file.copyStarts, file, index - file.record_count)
  <2>1. /\ file.sections[p.section].readable <=> file.sections[section].readable
        /\ file.sections[section].readable =>
            LET entry == file.sections[p.section].copyTable[p.at]
            IN  /\ replacement = entry.id_of_new_row /\ replacement # NoId
                /\ (CHOOSE i \in 0..file.record_count - 1 :
                        LET q == Table!Place(file.starts, file, i)
                        IN  Table!RowId(file, q.section, q.at) = entry.id_of_copied_row) = lookup
    BY <1>3, CopyDecoded
  <2>2. Table!Promise(file, index) = Table!CopyOf(file, index, index - file.record_count)
    BY <1>3 DEF Table!Promise
  <2> QED
    BY <2>1, <2>2 DEF Table!CopyOf, IdUsed
<1> QED
  BY <1>2, <1>3

\* The id from the list: never that of another record, 0 behind a missing key.
LEMMA ListedId ==
    ASSUME TableInv, Table!IsTable(file), pc = "decode", file.useIdList
    PROVE  /\ UseId = IF file.sections[section].readable THEN IdUsed ELSE 0
           /\ file.sections[section].readable => IdUsed # 0
<1>1. /\ file \in Files /\ <<section, At>> \in Rows(file)
      /\ lookup \in Nat /\ file.starts[section] \in Nat /\ lookup = file.starts[section] + At - 1
      /\ At \in Int
  <2>1. /\ file \in Files /\ section \in Sections(file) /\ <<section, At>> \in Rows(file)
        /\ lookup \in Nat /\ file.starts[section] \in Nat /\ lookup = file.starts[section] + At - 1
        /\ At \in 1..file.sections[section].record_count
    BY AtRow
  <2> QED
    BY <2>1
<1>2. idList[lookup + 1]
        = IF file.sections[section].readable THEN Table!RowId(file, section, At) ELSE 0
  <2>1. idList[file.starts[section] + At]
          = IF file.sections[section].readable THEN Table!RowId(file, section, At) ELSE 0
    BY <1>1, IdOfRow DEF Read, Reading
  <2>2. file.starts[section] + At = lookup + 1
    BY <1>1
  <2> QED
    BY <2>1, <2>2
<1>3. Table!RowId(file, section, At) # 0
  BY <1>1, SamePicture DEF Table!IsTable, Table!IdsTell
<1>4. CASE index < file.record_count
  <2>1. replacement = NoId
    BY <1>4 DEF TableInv, RecordFound
  <2> QED
    BY <1>2, <1>3, <2>1 DEF UseId, IdUsed
<1>5. CASE ~(index < file.record_count)
  <2>1. /\ file.sections[section].readable => replacement # 0 /\ replacement # NoId
        /\ ~file.sections[section].readable => replacement = 0
    BY <1>5, CopyDecoded
  <2> QED
    BY <2>1 DEF UseId, IdUsed, NoId
<1> QED
  BY <1>4, <1>5

\* The inline id: only one field has it, and no copy goes by it.
LEMMA InlineIds ==
    ASSUME TableInv, Table!IsTable(file), pc = "decode", file.sections[section].readable,
           ~file.useIdList
    PROVE  /\ Table!IdColumn(file) \in 1..file.field_count
           /\ file.fields[Table!IdColumn(file)].isId
           /\ file.fields[Table!IdColumn(file)].storage # "CommonData"
           /\ \A x \in 1..file.field_count : file.fields[x].isId => x = Table!IdColumn(file)
           /\ InlineId(Table!IdColumn(file)) = IdUsed
           /\ ~Table!Opaque(file, section, At) => IdUsed # 0
<1> DEFINE IsId(x) == file.fields[x].isId
<1>1. PICK c \in 1..file.field_count :
        /\ IsId(c) /\ file.fields[c].storage # "CommonData"
        /\ \A x \in 1..file.field_count : IsId(x) => x = c
  BY DEF Table!IsTable, Table!IdsTell
<1>2. Table!IdColumn(file) = c
  <2>1. (CHOOSE x \in 1..file.field_count : IsId(x)) = c
    <3> HIDE DEF IsId
    <3> QED
      BY <1>1
  <2> QED
    BY <2>1 DEF Table!IdColumn
<1>3. replacement = NoId
  BY CopyDecoded DEF TableInv, RecordFound
<1>4. IdUsed = Table!RowId(file, section, At)
  BY <1>3 DEF IdUsed
<1>5. Table!RowId(file, section, At) = file.sections[section].rows[At][c]
  BY <1>2 DEF Table!RowId
<1>6. buffer = file.sections[section].rows[At]
  BY DEF TableInv, BufferKnown
<1>7. InlineId(c) = IdUsed
  BY <1>3, <1>4, <1>5, <1>6 DEF InlineId
<1>8. ~Table!Opaque(file, section, At) => IdUsed # 0
  <2>1. <<section, At>> \in Rows(file)
    BY AtRow
  <2> QED
    BY <1>4, <2>1, SamePicture DEF Table!IsTable, Table!IdsTell
<1> QED
  BY <1>1, <1>2, <1>7, <1>8

\* A record is taken for encrypted when it cannot be told from one.
LEMMA EncryptedTold ==
    ASSUME TableInv, Table!IsTable(file), pc = "decode"
    PROVE  /\ ~file.sections[section].readable => Encrypted
           /\ file.sections[section].readable =>
                (Encrypted <=> Table!Opaque(file, section, At))
<1>1. CASE ~file.sections[section].readable
  <2>1. Keyed
    BY <1>1, ReadFrom
  <2>2. AllZero(buffer) \/ (~HasOffsetMap(file) /\ file.useIdList)
    BY <1>1 DEF TableInv, BufferKnown
  <2>3. file.useIdList => UseId = 0
    BY <1>1, ListedId
  <2> QED
    BY <1>1, <2>1, <2>2, <2>3 DEF Encrypted
<1>2. CASE file.sections[section].readable
  <2>1. buffer = file.sections[section].rows[At]
    BY <1>2 DEF TableInv, BufferKnown
  <2>2. DOMAIN buffer = 1..file.field_count
    BY DEF TableInv, TypedInv, CallTyped
  <2>3. AllZero(buffer) <=>
            \A x \in 1..file.field_count : file.sections[section].rows[At][x] = 0
    BY <2>1, <2>2 DEF AllZero
  <2>4. file.useIdList => UseId # 0
    BY <1>2, ListedId
  <2> QED
    BY <1>2, <2>3, <2>4 DEF Encrypted, Table!Opaque, Keyed
<1> QED
  BY <1>1, <1>2

\* The record id is known when a common field is reached, or the table is one
\* the promise excepts.
LEMMA CommonRefused ==
    ASSUME TableInv, Table!IsTable(file), pc = "decode", file.sections[section].readable,
           ~Table!Opaque(file, section, At)
    PROVE  /\ CommonThrows <=> Table!RefusedCommon(file)
           /\ ~CommonThrows => \A x \in 1..file.field_count : IsCommon(x) => RecordIdAt(x) = IdUsed
<1> DEFINE c == Table!IdColumn(file)
           Sparse == Table!HasOffsetMap(file)
<1>1. Sparse <=> HasOffsetMap(file)
  BY SamePicture
<1>2. CASE file.useIdList
  <2>1. UseId = IdUsed /\ IdUsed # 0
    BY <1>2, ListedId
  <2>2. \A x : RecordIdAt(x) = IdUsed
    BY <1>2, <2>1 DEF RecordIdAt
  <2>3. CommonThrows <=> \E x \in 1..file.field_count : IsCommon(x) /\ HasOffsetMap(file)
    BY <2>1, <2>2 DEF CommonThrows
  <2>4. Table!RefusedCommon(file) <=> \E x \in 1..file.field_count : IsCommon(x) /\ Sparse
    BY <1>2 DEF Table!RefusedCommon, IsCommon
  <2> QED
    BY <1>1, <2>2, <2>3, <2>4
<1>3. CASE ~file.useIdList
  <2>1. /\ c \in 1..file.field_count /\ file.fields[c].isId
        /\ file.fields[c].storage # "CommonData"
        /\ \A x \in 1..file.field_count : file.fields[x].isId => x = c
        /\ InlineId(c) = IdUsed /\ IdUsed # 0
    BY <1>3, InlineIds
  <2> HIDE DEF c
  <2>2. ASSUME NEW x \in 1..file.field_count, IsCommon(x)
        PROVE  RecordIdAt(x) = IF x < c THEN 0 ELSE IdUsed
    <3> DEFINE seen == {y \in 1..x-1 : file.fields[y].isId}
    <3>1. file.field_count \in Nat /\ x \in Int /\ c \in Int
      BY <2>1, SchemaFacts DEF TableInv, TypedInv, RowsInv, StateOK
    <3>2. x # c
      BY <2>1, <2>2 DEF IsCommon
    <3>3. seen \subseteq {c}
      <4>1. \A y \in 1..x-1 : y \in 1..file.field_count
        BY <3>1
      <4> QED
        BY <2>1, <4>1
    <3>4. CASE x < c
      <4>1. c \notin 1..x-1
        BY <3>1, <3>4
      <4>2. seen = {}
        BY <3>3, <4>1
      <4> QED
        BY <1>3, <3>4, <4>2 DEF RecordIdAt
    <3>5. CASE ~(x < c)
      <4>1. c \in 1..x-1
        BY <2>1, <3>1, <3>2, <3>5
      <4>2. seen = {c}
        BY <2>1, <3>3, <4>1
      <4>3. (CHOOSE y \in seen : TRUE) = c /\ seen # {}
        <5> HIDE DEF seen
        <5> QED
          BY <4>2
      <4> QED
        BY <1>3, <2>1, <3>5, <4>3 DEF RecordIdAt
    <3> QED
      BY <3>4, <3>5
  <2>3. CommonThrows <=> \E x \in 1..file.field_count : IsCommon(x) /\ (HasOffsetMap(file) \/ x < c)
    BY <2>1, <2>2 DEF CommonThrows
  <2>4. Table!RefusedCommon(file) <=>
            \E x \in 1..file.field_count : IsCommon(x) /\ (Sparse \/ x < c)
    BY <1>3 DEF Table!RefusedCommon, IsCommon, c
  <2> QED
    BY <1>1, <2>2, <2>3, <2>4
<1> QED
  BY <1>2, <1>3

LEMMA CommonValueIs ==
    ASSUME TypedInv, pc # "closed", NEW x \in 1..file.field_count, IsCommon(x)
    PROVE  CommonValueOf(x) = Table!CommonValue(file, x, RecordIdAt(x))
<1> DEFINE id == RecordIdAt(x)
           pairs == file.common[x]
           mine == {k \in 1..Len(pairs) : pairs[k].record_id = id}
           Greatest(k) == \A j \in mine : j <= k
<1>1. pairs \in Seq(CommonEntries)
  BY SchemaFacts DEF TypedInv, RowsInv, StateOK
<1>2. commonData[x] = CommonMap(pairs)
  BY DEF TypedInv, CommonKnown, IsCommon
<1>3. /\ id \in DOMAIN CommonMap(pairs) <=> mine # {}
      /\ id \in DOMAIN CommonMap(pairs) =>
            \E k \in mine : Greatest(k) /\ CommonMap(pairs)[id] = pairs[k].value
  <2> HIDE DEF id, pairs
  <2> QED
    BY <1>1, CommonMapFacts
<1>4. CASE mine = {}
  BY <1>2, <1>3, <1>4 DEF CommonValueOf, Table!CommonValue
<1>5. CASE mine # {}
  <2>1. PICK k \in mine : Greatest(k) /\ CommonMap(pairs)[id] = pairs[k].value
    BY <1>3, <1>5
  <2>2. \A j \in mine : Greatest(j) => j = k
    <3>1. mine \subseteq Int
      OBVIOUS
    <3> HIDE DEF mine
    <3> QED
      BY <2>1, <3>1
  <2>3. (CHOOSE j \in mine : Greatest(j)) = k
    <3> HIDE DEF Greatest, mine
    <3> QED
      BY <2>1, <2>2
  <2>4. Table!CommonValue(file, x, id) = pairs[CHOOSE j \in mine : Greatest(j)].value
    BY <1>5 DEF Table!CommonValue
  <2>5. CommonValueOf(x) = CommonMap(pairs)[id]
    BY <1>2, <1>3, <1>5 DEF CommonValueOf
  <2> QED
    BY <2>1, <2>3, <2>4, <2>5
<1> QED
  BY <1>4, <1>5

\* The place computed for a string is that of the record's own text.
LEMMA StringIs ==
    ASSUME TableInv, Table!IsTable(file), pc = "decode", file.sections[section].readable,
           ~Table!Opaque(file, section, At),
           NEW x \in 1..file.field_count, file.fields[x].type = "string",
           file.fields[x].storage # "CommonData", ~file.fields[x].isId
    PROVE  StringOf(x) = file.sections[section].texts[At]
<1>1. buffer = file.sections[section].rows[At]
  BY DEF TableInv, BufferKnown
<1>2. <<section, At>> \in Rows(file)
  BY AtRow
<1>3. Table!StringsLead(file)
  BY DEF Table!IsTable
<1>4. IF HasOffsetMap(file)
      THEN file.sections[section].rows[At][x] = file.sections[section].texts[At]
      ELSE /\ Table!TextStart(file, section, At, x) = TextPos(file, section, At)
           /\ \A t \in Rows(file) :
                TextPos(file, t[1], t[2]) = TextPos(file, section, At) => t = <<section, At>>
  BY <1>2, <1>3, SamePicture DEF Table!StringsLead
<1>5. CASE HasOffsetMap(file)
  BY <1>1, <1>4, <1>5 DEF StringOf
<1>6. CASE ~HasOffsetMap(file)
  <2>1. RecordStart = RecordPos(file, section, At)
    BY <1>6, ReadFrom
  <2>2. StringPos(buffer[x]) = TextPos(file, section, At)
    BY <1>1, <1>4, <1>6, <2>1, SamePicture DEF StringPos, Table!TextStart
  <2> DEFINE at == TextPos(file, section, At)
             owner == {r \in Rows(file) : TextPos(file, r[1], r[2]) = at}
             first == CHOOSE r \in owner : TRUE
  <2>3. owner = {<<section, At>>}
    BY <1>2, <1>4, <1>6
  <2>4. TextAt(file, at) = file.sections[section].texts[At]
    <3> HIDE DEF at
    <3>1. owner # {} /\ first = <<section, At>>
      <4> HIDE DEF owner
      <4> QED
        BY <2>3
    <3>2. owner # {} => TextAt(file, at) = file.sections[first[1]].texts[first[2]]
      BY DEF TextAt
    <3> HIDE DEF first, owner
    <3> QED
      BY <3>1, <3>2
  <2> QED
    BY <1>6, <2>2, <2>4 DEF StringOf
<1> QED
  BY <1>5, <1>6

LEMMA ValueIs ==
    ASSUME TableInv, Table!IsTable(file), pc = "decode", file.sections[section].readable,
           ~Table!Opaque(file, section, At), ~CommonThrows, NEW x \in 1..file.field_count
    PROVE  Value(x) = Table!FieldOf(file, section, At, IdUsed, x)
<1>1. buffer = file.sections[section].rows[At]
  BY DEF TableInv, BufferKnown
<1>2. CASE file.fields[x].isId
  <2>1. ~file.useIdList
    BY <1>2 DEF Table!IsTable, Table!IdsTell
  <2>2. InlineId(x) = IdUsed
    BY <1>2, <2>1, InlineIds
  <2> QED
    BY <1>2, <2>2 DEF Value, Table!FieldOf
<1>3. CASE ~file.fields[x].isId /\ IsCommon(x)
  <2>1. RecordIdAt(x) = IdUsed
    BY <1>3, CommonRefused
  <2>2. CommonValueOf(x) = Table!CommonValue(file, x, IdUsed)
    BY <1>3, <2>1, CommonValueIs DEF TableInv
  <2> QED
    BY <1>3, <2>2 DEF Value, Table!FieldOf, IsCommon
<1>4. CASE ~file.fields[x].isId /\ ~IsCommon(x) /\ file.fields[x].type = "string"
  <2>1. StringOf(x) = file.sections[section].texts[At]
    BY <1>4, StringIs DEF IsCommon
  <2> QED
    BY <1>4, <2>1 DEF Value, Table!FieldOf, IsCommon
<1>5. CASE ~file.fields[x].isId /\ ~IsCommon(x) /\ file.fields[x].type # "string"
  BY <1>1, <1>5 DEF Value, Table!FieldOf, IsCommon
<1> QED
  BY <1>2, <1>3, <1>4, <1>5

\* A table with a relation column has a relation for some record that can be
\* read, so its map is not empty.
LEMMA RelationWanted ==
    ASSUME TableInv, Table!IsTable(file), pc = "decode", file.sections[section].readable
    PROVE  WantsRelation <=> file.relation
<1>1. SUFFICES ASSUME file.relation PROVE ~HasOffsetMap(file) /\ DOMAIN relationshipMap # {}
  BY DEF WantsRelation
<1>2. /\ file \in Files /\ section \in Sections(file)
      /\ At \in 1..file.sections[section].record_count
  BY AtRow
<1>3. file.sections[section].record_count > 0
  <2>1. file.sections[section].record_count \in Nat
    BY <1>2, SectionFacts
  <2> QED
    BY <1>2, <2>1
<1>4. Table!RelationsThere(file)
  BY DEF Table!IsTable
<1>5. ~HasOffsetMap(file)
  BY <1>1, <1>4, SamePicture DEF Table!RelationsThere
<1>6. PICK t \in Sections(file) : file.sections[t].readable /\ Table!RelationsOf(file, t) # {}
  BY <1>1, <1>2, <1>3, <1>4, SamePicture DEF Table!RelationsThere
<1>7. RelationsKnown
  BY DEF TableInv, TablesKnown, Read, Reading
<1> QED
  BY <1>5, <1>6, <1>7 DEF RelationsKnown

\* A decoded record has the values of the promised one.
LEMMA ValuesPromised ==
    ASSUME TableInv, Table!IsTable(file), pc = "decode", file.sections[section].readable,
           ~Table!Opaque(file, section, At), ~CommonThrows,
           NEW map, WantsRelation => map[lookup] = Table!ForeignId(file, lookup)
    PROVE  RecordValues(map) =
             (IF file.useIdList THEN <<IdUsed>> ELSE << >>)
             \o [x \in 1..file.field_count |-> Table!FieldOf(file, section, At, IdUsed, x)]
             \o (IF file.relation THEN <<Table!ForeignId(file, lookup)>> ELSE << >>)
<1> DEFINE ids == IF file.useIdList THEN <<UseId>> ELSE << >>
           values == [x \in 1..file.field_count |-> Value(x)]
           relations == IF WantsRelation THEN <<map[lookup]>> ELSE << >>
<1>1. RecordValues(map) = ids \o values \o relations
  BY DEF RecordValues
<1>2. ids = IF file.useIdList THEN <<IdUsed>> ELSE << >>
  BY ListedId
<1>3. values = [x \in 1..file.field_count |-> Table!FieldOf(file, section, At, IdUsed, x)]
  BY ValueIs
<1>4. relations = IF file.relation THEN <<Table!ForeignId(file, lookup)>> ELSE << >>
  BY RelationWanted
<1> HIDE DEF ids, values, relations
<1> QED
  BY <1>1, <1>2, <1>3, <1>4

\* The relation a decoded record gets, from the map it leaves behind.
LEMMA RelationAnswered ==
    ASSUME TableInv, TablesKnown', Decode, pc' = "loaded", WantsRelation,
           relationshipMap' = WithDefault(relationshipMap, lookup)
    PROVE  relationshipMap'[lookup] = Table!ForeignId(file, lookup)
<1>1. UNCHANGED file /\ pc' \in Read
  BY DEF Decode, Read
<1>2. \A i \in DOMAIN relationshipMap' : relationshipMap'[i] = Table!ForeignId(file, i)
  BY <1>1 DEF TablesKnown, RelationsKnown
<1>3. lookup \in DOMAIN relationshipMap'
  BY DEF WithDefault
<1> QED
  BY <1>2, <1>3

\* What is decoded is what was promised.
LEMMA DecodeAnswers ==
    ASSUME TableInv, TablesKnown', Table!IsTable(file), Decode
    PROVE  answer' \in {Table!Promise(file, index), Table!Thrown(index, "file source")}
<1>1. /\ pc = "decode" /\ pc' = "loaded"
      /\ \/ Encrypted /\ answer' = Table!Record(index, "ENCRYPTED", << >>)
         \/ ~Encrypted /\ CommonThrows /\ answer' = Table!Thrown(index, "common data")
         \/ answer' = Table!Thrown(index, "file source")
         \/ /\ ~Encrypted /\ ~CommonThrows /\ WantsRelation /\ HasRelationshipData(file)
            /\ answer' = Table!Thrown(index, "relation ids")
         \/ /\ ~Encrypted /\ ~CommonThrows /\ ~(WantsRelation /\ HasRelationshipData(file))
            /\ relationshipMap' = IF WantsRelation THEN WithDefault(relationshipMap, lookup)
                                  ELSE relationshipMap
            /\ answer' = Table!Record(index, EncryptionState, RecordValues(relationshipMap'))
  BY DEF Decode, Returns, Throws, SourceThrows
<1>2. CASE ~file.sections[section].readable
  <2>1. Encrypted
    BY <1>1, <1>2, EncryptedTold
  <2>2. Table!Promise(file, index) = Table!Record(index, "ENCRYPTED", << >>)
    BY <1>1, <1>2, PromiseOf
  <2> QED
    BY <1>1, <2>1, <2>2
<1>3. CASE file.sections[section].readable
  <2>1. Table!Place(file.starts, file, lookup) = [section |-> section, at |-> At]
    BY <1>1, AtRow
  <2>2. Table!Promise(file, index) = Table!RecordOf(file, index, lookup, IdUsed)
    BY <1>1, <1>3, PromiseOf
  <2>3. Table!RecordOf(file, index, lookup, IdUsed) =
          IF Table!Opaque(file, section, At) THEN Table!Record(index, "ENCRYPTED", << >>)
          ELSE IF Table!RefusedCommon(file) THEN Table!Thrown(index, "common data")
          ELSE IF Table!RefusedRelation(file) THEN Table!Thrown(index, "relation ids")
          ELSE Table!Record(index, Table!State(file, section),
                 (IF file.useIdList THEN <<IdUsed>> ELSE << >>)
                 \o [x \in 1..file.field_count |-> Table!FieldOf(file, section, At, IdUsed, x)]
                 \o (IF file.relation THEN <<Table!ForeignId(file, lookup)>> ELSE << >>))
    BY <2>1, RecordOfPlace
  <2>4. Encrypted <=> Table!Opaque(file, section, At)
    BY <1>1, <1>3, EncryptedTold
  <2>5. CASE Table!Opaque(file, section, At)
    BY <1>1, <2>2, <2>3, <2>4, <2>5
  <2>6. CASE ~Table!Opaque(file, section, At)
    <3>1. CommonThrows <=> Table!RefusedCommon(file)
      BY <1>1, <1>3, <2>6, CommonRefused
    <3>2. WantsRelation <=> file.relation
      BY <1>1, <1>3, RelationWanted
    <3>3. (WantsRelation /\ HasRelationshipData(file)) <=> Table!RefusedRelation(file)
      BY <3>2, SamePicture DEF Table!RefusedRelation
    <3>4. EncryptionState = Table!State(file, section)
      BY DEF EncryptionState, Keyed, Table!State
    <3>5. ASSUME ~CommonThrows, ~(WantsRelation /\ HasRelationshipData(file)),
                 relationshipMap' = IF WantsRelation THEN WithDefault(relationshipMap, lookup)
                                    ELSE relationshipMap
          PROVE  Table!Promise(file, index)
                   = Table!Record(index, EncryptionState, RecordValues(relationshipMap'))
      <4>1. WantsRelation => relationshipMap'[lookup] = Table!ForeignId(file, lookup)
        BY <1>1, <3>5, RelationAnswered
      <4>2. RecordValues(relationshipMap') =
              (IF file.useIdList THEN <<IdUsed>> ELSE << >>)
              \o [x \in 1..file.field_count |-> Table!FieldOf(file, section, At, IdUsed, x)]
              \o (IF file.relation THEN <<Table!ForeignId(file, lookup)>> ELSE << >>)
        BY <1>1, <1>3, <2>6, <3>5, <4>1, ValuesPromised
      <4> QED
        BY <2>2, <2>3, <2>6, <3>1, <3>3, <3>4, <3>5, <4>2
    <3> QED
      BY <1>1, <2>2, <2>3, <2>4, <2>6, <3>1, <3>3, <3>5
  <2> QED
    BY <2>5, <2>6
<1> QED
  BY <1>2, <1>3

------------------------------------------------------------------------------
(* The steps of DB2Rows as steps of the table.                             *)

tableView == <<file, ready, pending, answer>>

LEMMA LoadsAsTable ==
    ASSUME MaxLoads = 1, TableInv, FileNext, UNCHANGED rowVars
    PROVE  [Table!Next]_tableView
<1>1. pc \notin Read /\ UNCHANGED <<file, answer>>
  BY NoReload DEF TableInv, TypedInv, rowVars
<1>2. pc' \notin Reading
  BY DEF FileNext, LoadStep, Open, Load, EnterSection, ReadIdList, ReadCopyTable, ReadOffsetMap,
     LoadOffsetMapIds, LoadRelationships, FinishLoad, Continue, AfterKeys, Reading
<1>3. pending = -1 /\ pending' = -1 /\ ready = FALSE
  BY <1>1, <1>2 DEF pending, ready, Read
<1>4. CASE pc' = "loaded"
  <2>1. ready' = TRUE
    BY <1>4 DEF ready
  <2> QED
    BY <1>1, <1>3, <2>1 DEF Table!Next, Table!Load
<1>5. CASE pc' # "loaded"
  <2>1. ready' = FALSE
    BY <1>2, <1>5 DEF ready
  <2> QED
    BY <1>1, <1>3, <2>1 DEF tableView
<1> QED
  BY <1>4, <1>5

LEMMA AskAsTable ==
    ASSUME TableInv, NEW i \in 0..Size - 1, Ask(i)
    PROVE  Table!Next
<1>1. /\ pc = "loaded" /\ pc' = "lookup" /\ index' = i
      /\ answer' = Table!NoAnswer /\ UNCHANGED file
  BY DEF Ask
<1>2. Table!TableSize(file) = Size
  <2>1. Len(copyTable) = file.copyStarts[Len(file.sections) + 1]
    BY <1>1 DEF TableInv, TablesKnown, Read
  <2> QED
    BY <2>1 DEF Table!TableSize, Size
<1>3. ready = TRUE /\ ready' = TRUE /\ pending = -1 /\ pending' = i
  BY <1>1 DEF ready, pending, Reading
<1>4. Table!Ask(i)
  BY <1>1, <1>3 DEF Table!Ask, Table!NoCall
<1> QED
  BY <1>2, <1>4 DEF Table!Next

\* A step in the middle of a call is none of the table's.
LEMMA CallGoesOn ==
    ASSUME pc \in Reading, pc' \in Reading, UNCHANGED <<file, index, answer>>
    PROVE  UNCHANGED tableView
<1>1. ready = TRUE /\ ready' = TRUE /\ pending = index /\ pending' = index
  BY DEF ready, pending
<1> QED
  BY <1>1 DEF tableView

LEMMA IndexIsNumber ==
    ASSUME TableInv
    PROVE  index # -1
<1>1. index \in Nat
  BY DEF TableInv, TypedInv, CallTyped
<1> QED
  BY <1>1

\* The end of a call is the table's answer.
LEMMA CallEnds ==
    ASSUME TableInv, pc \in Reading, pc' = "loaded", UNCHANGED file,
           answer' \in {Table!Promise(file, index), Table!Thrown(index, "file source")}
    PROVE  Table!Next
<1>1. index # -1
  BY IndexIsNumber
<1>2. ready = TRUE /\ ready' = TRUE /\ pending = index /\ pending' = -1
  BY DEF ready, pending, Reading
<1>3. pending # -1
  BY <1>1, <1>2
<1>4. answer' \in {Table!Promise(file, pending), Table!Thrown(pending, "file source")}
  BY <1>2
<1>5. Table!Answer
  BY <1>2, <1>3, <1>4 DEF Table!Answer, Table!NoCall
<1> QED
  BY <1>5 DEF Table!Next

LEMMA ReadsAsTable ==
    ASSUME FilesAreTables, TableInv, ReadStep
    PROVE  [Table!Next]_tableView
<1>1. pc \in Reading /\ UNCHANGED <<file, index>>
  BY DEF ReadStep, Lookup, FindSection, ReadRecord, Decode, Reading
<1>2. Table!IsTable(file)
  BY <1>1, ReadsTable DEF Read
<1>3. CASE Lookup
  <2>1. pc' = "find" /\ UNCHANGED answer
    BY <1>2, <1>3, LookupFound
  <2> QED
    BY <1>1, <2>1, CallGoesOn DEF Reading
<1>4. CASE FindSection
  <2>1. pc' \in {"find", "read"} /\ UNCHANGED answer
    BY <1>4 DEF FindSection
  <2> QED
    BY <1>1, <2>1, CallGoesOn DEF Reading
<1>5. CASE ReadRecord
  <2>1. \/ pc' = "decode" /\ UNCHANGED answer
        \/ pc' = "loaded" /\ answer' = Table!Thrown(index, "file source")
    BY <1>5 DEF ReadRecord, SourceThrows, Throws
  <2> QED
    BY <1>1, <2>1, CallGoesOn, CallEnds DEF Reading
<1>6. CASE Decode
  <2>1. pc' = "loaded"
    BY <1>6 DEF Decode, SourceThrows, Throws, Returns
  <2>2. TablesKnown'
    BY <1>6, TableReadStep DEF ReadStep
  <2> QED
    BY <1>1, <1>2, <1>6, <2>1, <2>2, DecodeAnswers, CallEnds
<1> QED
  BY <1>3, <1>4, <1>5, <1>6 DEF ReadStep

(* A table loaded once is the table its users are promised, for every file *)
(* whose layout is the format's and every bound on faults: each step of    *)
(* open(), load() and operator[] is a step of the table or none.  In       *)
(* particular db[i] returns the record, the copy or the encrypted record   *)
(* the file has at i, or throws what the file source threw, or one of the  *)
(* two refusals of the library (DB2File.hpp:133-619).                      *)
THEOREM RowsImplementTable ==
    ASSUME MaxLoads = 1, FilesAreTables
    PROVE  RowsSpec => ImplementsTable
<1>1. RowsInit => TableInv
  BY TableInit
<1>2. TableInv /\ [RowsNext]_allVars => TableInv'
  BY TableInvNext
<1>3. RowsInit => Table!Init
  <2> SUFFICES ASSUME RowsInit PROVE Table!Init
    OBVIOUS
  <2>1. pc = "closed" /\ answer = Table!NoAnswer
    BY DEF RowsInit, Init
  <2>2. ready = FALSE /\ pending = -1
    BY <2>1 DEF ready, pending, Reading
  <2> QED
    BY <2>1, <2>2 DEF Table!Init, Table!NoCall
<1>4. TableInv /\ [RowsNext]_allVars => [Table!Next]_<<file, ready, pending, answer>>
  <2> SUFFICES ASSUME TableInv, [RowsNext]_allVars
               PROVE  [Table!Next]_tableView
    BY DEF tableView
  <2>1. CASE UNCHANGED allVars
    <3>1. UNCHANGED <<file, pc, index, answer>>
      BY <2>1 DEF allVars, vars, rowVars
    <3> QED
      BY <3>1 DEF tableView, ready, pending
  <2> QED
    BY <2>1, LoadsAsTable, AskAsTable, ReadsAsTable DEF RowsNext
<1> QED
  BY <1>1, <1>2, <1>3, <1>4, PTL DEF RowsSpec, ImplementsTable, Table!Safe

------------------------------------------------------------------------------
(* What the library is found to fall short of in other files, it keeps in  *)
(* files that are tables.                                                  *)

\* The answers of one step, or the answer of the step before it.
AnsweredBy ==
    \/ UNCHANGED answer \/ answer' = Table!NoAnswer
    \/ \E why \in {"file source", "common data", "relation ids"} : answer' = Table!Thrown(index, why)
    \/ answer' = Table!Record(index, "ENCRYPTED", << >>)
    \/ Decode /\ ~Encrypted /\
        answer' = Table!Record(index, EncryptionState, RecordValues(relationshipMap'))

LEMMA AnswerKinds ==
    /\ Table!NoAnswer.kind = "none"
    /\ \A i, why : Table!Thrown(i, why).kind = "throw" /\ Table!Thrown(i, why).why = why
    /\ \A i, state, fields :
            /\ Table!Record(i, state, fields).kind = "record"
            /\ Table!Record(i, state, fields).state = state
            /\ Table!Record(i, state, fields).fields = fields
BY DEF Table!NoAnswer, Table!Thrown, Table!Record

LEMMA AnsweredStep ==
    ASSUME FilesAreTables, TableInv, [RowsNext]_allVars
    PROVE  AnsweredBy
<1>1. CASE FileNext /\ UNCHANGED rowVars
  BY <1>1 DEF rowVars, AnsweredBy
<1>2. ASSUME NEW i \in 0..Size - 1, Ask(i) PROVE AnsweredBy
  BY <1>2 DEF Ask, AnsweredBy
<1>3. CASE Lookup
  <2>1. pc \in Read
    BY <1>3 DEF Lookup, Read, Reading
  <2> QED
    BY <1>3, <2>1, ReadsTable, LookupFound DEF AnsweredBy
<1>4. CASE FindSection
  BY <1>4 DEF FindSection, AnsweredBy
<1>5. CASE ReadRecord
  BY <1>5 DEF ReadRecord, SourceThrows, Throws, AnsweredBy
<1>6. CASE Decode
  <2>1. \/ answer' = Table!Record(index, "ENCRYPTED", << >>)
        \/ \E why \in {"file source", "common data", "relation ids"} : answer' = Table!Thrown(index, why)
        \/ ~Encrypted /\ answer' = Table!Record(index, EncryptionState, RecordValues(relationshipMap'))
    BY <1>6 DEF Decode, Returns, Throws, SourceThrows
  <2> QED
    BY <1>6, <2>1 DEF AnsweredBy
<1>7. CASE UNCHANGED allVars
  BY <1>7 DEF allVars, rowVars, AnsweredBy
<1> QED
  BY <1>1, <1>2, <1>3, <1>4, <1>5, <1>6, <1>7 DEF RowsNext, ReadStep

(* In a table every copy is answered: the run that finds CopiesAnswered    *)
(* broken has a file that is none, whose copies name inline ids (the id    *)
(* list DB2File.hpp:177 and 466 look in is then empty).                    *)
THEOREM CopiesAreAnswered ==
    ASSUME MaxLoads = 1, FilesAreTables
    PROVE  RowsSpec => []CopiesAnswered
<1>1. RowsInit => TableInv
  BY TableInit
<1>2. TableInv /\ [RowsNext]_allVars => TableInv'
  BY TableInvNext
<1>3. RowsInit => CopiesAnswered
  BY AnswerKinds DEF RowsInit, CopiesAnswered
<1>4. TableInv /\ CopiesAnswered /\ [RowsNext]_allVars => CopiesAnswered'
  <2> SUFFICES ASSUME TableInv, CopiesAnswered, [RowsNext]_allVars PROVE CopiesAnswered'
    OBVIOUS
  <2>1. AnsweredBy
    BY AnsweredStep
  <2>2. CASE UNCHANGED answer
    BY <2>2 DEF CopiesAnswered
  <2>3. CASE answer' = Table!NoAnswer
    BY <2>3, AnswerKinds DEF CopiesAnswered
  <2>4. ASSUME NEW why \in {"file source", "common data", "relation ids"},
               answer' = Table!Thrown(index, why)
        PROVE  CopiesAnswered'
    BY <2>4, AnswerKinds DEF CopiesAnswered
  <2>5. ASSUME NEW state, NEW fields, answer' = Table!Record(index, state, fields)
        PROVE  CopiesAnswered'
    BY <2>5, AnswerKinds DEF CopiesAnswered
  <2> QED
    BY <2>1, <2>2, <2>3, <2>4, <2>5 DEF AnsweredBy
<1> QED
  BY <1>1, <1>2, <1>3, <1>4, PTL DEF RowsSpec

LEMMA OptionalValue ==
    ASSUME NEW S, NEW v \in S, NEW wanted
    PROVE  LET list == IF wanted THEN <<v>> ELSE << >>
           IN  list \in Seq(S) /\ Len(list) = IF wanted THEN 1 ELSE 0
<1>1. CASE wanted
  BY <1>1
<1>2. CASE ~wanted
  BY <1>2, EmptySeq
<1> QED
  BY <1>1, <1>2

\* The values of a record decoded from a table, counted.
LEMMA ValuesCounted ==
    ASSUME FilesAreTables, TableInv, Decode, ~Encrypted
    PROVE  Len(RecordValues(relationshipMap')) = Columns
<1>1. pc = "decode" /\ pc \in Read
  BY DEF Decode, Read, Reading
<1>2. Table!IsTable(file) /\ file \in Files
  BY <1>1, ReadsTable
<1>3. file.sections[section].readable
  BY <1>1, <1>2, EncryptedTold
<1>4. WantsRelation <=> file.relation
  BY <1>1, <1>2, <1>3, RelationWanted
<1>5. Len(file.fields) = file.field_count /\ file.field_count \in Nat
  <2>1. ~Rejected(file)
    BY <1>1 DEF TableInv, FileChecked
  <2> QED
    BY <1>2, <2>1, SchemaFacts DEF Rejected
<1> DEFINE ids == IF file.useIdList THEN <<UseId>> ELSE << >>
           values == [x \in 1..file.field_count |-> Value(x)]
           relations == IF WantsRelation THEN <<relationshipMap'[lookup]>> ELSE << >>
           AnyValue == {UseId, relationshipMap'[lookup]} \union {Value(x) : x \in 1..file.field_count}
<1>6. ids \in Seq(AnyValue) /\ Len(ids) = IF file.useIdList THEN 1 ELSE 0
  <2>1. UseId \in AnyValue
    OBVIOUS
  <2> HIDE DEF AnyValue
  <2> QED
    BY <2>1, OptionalValue
<1>7. values \in Seq(AnyValue) /\ Len(values) = file.field_count
  <2> HIDE DEF AnyValue
  <2>1. \A x \in 1..file.field_count : Value(x) \in AnyValue
    BY DEF AnyValue
  <2> QED
    BY <1>5, <2>1, IsASeq, LenProperties
<1>8. relations \in Seq(AnyValue) /\ Len(relations) = IF file.relation THEN 1 ELSE 0
  <2>1. relationshipMap'[lookup] \in AnyValue
    OBVIOUS
  <2> HIDE DEF AnyValue
  <2> QED
    BY <1>4, <2>1, OptionalValue
<1>9. RecordValues(relationshipMap') = (ids \o values) \o relations
  BY DEF RecordValues
<1> HIDE DEF ids, values, relations, AnyValue
<1>10. (ids \o values) \in Seq(AnyValue) /\ Len(ids \o values) = Len(ids) + Len(values)
  BY <1>6, <1>7, ConcatProperties
<1> DEFINE front == ids \o values
<1>11. front \in Seq(AnyValue) /\ Len(front) = Len(ids) + Len(values)
  BY <1>10
<1>12. RecordValues(relationshipMap') = front \o relations
  BY <1>9
<1> HIDE DEF front
<1>13. Len(front \o relations) = Len(front) + Len(relations)
  BY <1>8, <1>11, ConcatProperties
<1> QED
  BY <1>5, <1>6, <1>7, <1>8, <1>11, <1>12, <1>13 DEF Columns

(* In a table every record decoded has a value for each field: the assert  *)
(* of DB2File.hpp:331 holds there.  The run that finds it broken has a     *)
(* file with a relation column and no relations.                           *)
THEOREM RecordsAreComplete ==
    ASSUME MaxLoads = 1, FilesAreTables
    PROVE  RowsSpec => []RecordsComplete
<1>1. RowsInit => TableInv
  BY TableInit
<1>2. TableInv /\ [RowsNext]_allVars => TableInv'
  BY TableInvNext
<1>3. RowsInit => RecordsComplete
  BY AnswerKinds DEF RowsInit, RecordsComplete
<1>4. TableInv /\ TableInv' /\ RecordsComplete /\ [RowsNext]_allVars => RecordsComplete'
  <2> SUFFICES ASSUME TableInv, RecordsComplete, [RowsNext]_allVars PROVE RecordsComplete'
    OBVIOUS
  <2>1. AnsweredBy
    BY AnsweredStep
  <2>2. UNCHANGED Columns
    <3>1. UNCHANGED file
      BY DEF RowsNext, FileNext, LoadStep, Open, Load, EnterSection, ReadIdList, ReadCopyTable,
         ReadOffsetMap, LoadOffsetMapIds, LoadRelationships, FinishLoad, Ask, ReadStep, Lookup,
         FindSection, ReadRecord, Decode, allVars, vars
    <3> QED
      BY <3>1 DEF Columns
  <2>3. CASE UNCHANGED answer
    BY <2>2, <2>3 DEF RecordsComplete
  <2>4. CASE /\ Decode /\ ~Encrypted
             /\ answer' = Table!Record(index, EncryptionState, RecordValues(relationshipMap'))
    BY <2>2, <2>4, ValuesCounted, AnswerKinds DEF RecordsComplete
  <2>5. CASE answer' = Table!NoAnswer
    BY <2>5, AnswerKinds DEF RecordsComplete
  <2>6. ASSUME NEW why, answer' = Table!Thrown(index, why)
        PROVE  RecordsComplete'
    BY <2>6, AnswerKinds DEF RecordsComplete
  <2>7. CASE answer' = Table!Record(index, "ENCRYPTED", << >>)
    BY <2>7, AnswerKinds DEF RecordsComplete
  <2> QED
    BY <2>1, <2>3, <2>4, <2>5, <2>6, <2>7 DEF AnsweredBy
<1> QED
  BY <1>1, <1>2, <1>3, <1>4, PTL DEF RowsSpec
==============================================================================
