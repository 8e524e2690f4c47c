---------------------------- MODULE DBDefsProofs ----------------------------
(***************************************************************************)
(* What read() and makeSchema of DBDefs and schema_gen of SchemaGen do,    *)
(* proved for all texts of definitions.                                    *)
(*                                                                         *)
(* ResolvedInv: every definition accepted names a column of a known type,  *)
(* those of the block being read as well, and a column never changes its   *)
(* type, since it is never read a second time.                             *)
(*                                                                         *)
(* SchemaInv: so a schema made has fields that a Field can hold, and for   *)
(* these the member, the static field and the sizes agree one by one.      *)
(*                                                                         *)
(* TextInv: what is held of the block being read is what its lines say,    *)
(* from the one it began at to the last one read, and the blocks pushed    *)
(* are those that end before it.  DBDText joins what the lines of a block  *)
(* add, so each line read adds one part to a join (JoinedFacts).           *)
(***************************************************************************)
EXTENDS SchemaGen, LeastElement, SequenceTheorems

VersionDefs ==
    [builds : Seq(Int), buildRanges : Seq(Int \X Int), layoutHashes : Seq(STRING),
     definitions : Seq(Definitions)]

\* The definitions name columns of known types.
Resolved(defs) ==
    \A k \in 1..Len(defs) :
        /\ defs[k].name \in DOMAIN columnDefinitions
        /\ columnDefinitions[defs[k].name] \in ValidTypes

TypeOK ==
    /\ text \in Texts
    /\ at \in 0..Len(text.lines)
    /\ pc \in {"first", "columns", "versions", "done", "thrown"}
    /\ definitions \in Seq(Definitions)
    /\ layoutHashes \in Seq(STRING)
    /\ comment \in BOOLEAN
    /\ builds \in Seq(Int)
    /\ buildRanges \in Seq(Int \X Int)
    /\ versionDefinitions \in Seq(VersionDefs)

ResolvedInv ==
    /\ TypeOK
    /\ \A c \in DOMAIN columnDefinitions : columnDefinitions[c] \in ValidTypes
    /\ Resolved(definitions)
    /\ ColumnsResolve

(* The next line is a line, and of the kind it says it is.                 *)
LEMMA LineFacts ==
    ASSUME TypeOK, ~Eof
    PROVE  /\ at + 1 \in 0..Len(text.lines)
           /\ Line \in Lines
           /\ Line.kind = "layout" => Line.hashes \in Seq(STRING)
           /\ Line.kind = "build" => Line.builds \in Seq(Int) /\ Line.ranges \in Seq(Int \X Int)
           /\ Line.kind = "comment" => Line.text \in BOOLEAN
           /\ Line.kind = "definition" => Line \in Definitions
<1>1. text.lines \in Seq(Lines) /\ Len(text.lines) \in Nat
  BY TextsAssumption DEF TypeOK
<1>2. at + 1 \in 1..Len(text.lines)
  BY <1>1 DEF TypeOK, Eof
<1>3. Line \in Lines
  BY <1>1, <1>2, ElementOfSeq DEF Line
<1> QED
  BY <1>1, <1>2, <1>3 DEF Lines, Definitions

LEMMA ResolvedInit == Init => ResolvedInv
<1> SUFFICES ASSUME Init PROVE ResolvedInv
  OBVIOUS
<1>1. text.lines \in Seq(Lines) /\ Len(text.lines) \in Nat
  BY TextsAssumption DEF Init
<1>2. at \in 0..Len(text.lines)
  BY <1>1 DEF Init
<1>3. /\ definitions \in Seq(Definitions) /\ layoutHashes \in Seq(STRING)
      /\ builds \in Seq(Int) /\ buildRanges \in Seq(Int \X Int)
      /\ versionDefinitions \in Seq(VersionDefs)
  BY EmptySeq DEF Init
<1>4. TypeOK
  BY <1>2, <1>3 DEF Init, TypeOK
<1> QED
  BY <1>4 DEF Init, ResolvedInv, Resolved, ColumnsResolve, ValidTypes

(* Steps that leave columns and definitions alone.                         *)
LEMMA NothingRead ==
    ASSUME ResolvedInv, pc' \in {"first", "columns", "versions", "done", "thrown"},
           at' \in 0..Len(text.lines),
           UNCHANGED <<text, columnDefinitions, accumulators, versionDefinitions>>
    PROVE  ResolvedInv'
BY DEF ResolvedInv, TypeOK, Resolved, ColumnsResolve, accumulators

(* A column is read once: the definitions read before keep their columns.  *)
LEMMA ReadColumnKeeps == ResolvedInv /\ ReadColumn => ResolvedInv'
<1> SUFFICES ASSUME ResolvedInv, ReadColumn PROVE ResolvedInv'
  OBVIOUS
<1>1. /\ UNCHANGED <<text, accumulators, versionDefinitions>> /\ at' = at + 1 /\ ~Eof
      /\ pc' \in {"columns", "versions", "thrown"}
  BY DEF ReadColumn, Throw
<1>2. at' \in 0..Len(text.lines)
  BY <1>1, LineFacts DEF ResolvedInv
<1>3. CASE UNCHANGED columnDefinitions
  BY <1>1, <1>2, <1>3, NothingRead
<1>4. CASE ~UNCHANGED columnDefinitions
  <2>1. /\ Line.type \in ValidTypes /\ Line.name \notin DOMAIN columnDefinitions
        /\ columnDefinitions' = [c \in DOMAIN columnDefinitions \union {Line.name} |->
                IF c = Line.name THEN Line.type ELSE columnDefinitions[c]]
    BY <1>4 DEF ReadColumn, ColumnTaken
  <2>2. /\ DOMAIN columnDefinitions \subseteq DOMAIN columnDefinitions'
        /\ \A c \in DOMAIN columnDefinitions : columnDefinitions'[c] = columnDefinitions[c]
        /\ \A c \in DOMAIN columnDefinitions' : columnDefinitions'[c] \in ValidTypes
    BY <2>1 DEF ResolvedInv
  <2>3. TypeOK'
    BY <1>1, <1>2 DEF ResolvedInv, TypeOK, accumulators
  <2>4. Resolved(definitions)'
    BY <1>1, <2>2 DEF ResolvedInv, Resolved, accumulators
  <2>5. ColumnsResolve'
    BY <1>1, <2>2 DEF ResolvedInv, ColumnsResolve
  <2> QED
    BY <2>2, <2>3, <2>4, <2>5 DEF ResolvedInv
<1> QED
  BY <1>3, <1>4

(* Cleared accumulators are of their types.                                *)
LEMMA Cleared ==
    ASSUME ClearAccumulators
    PROVE  /\ definitions' \in Seq(Definitions) /\ layoutHashes' \in Seq(STRING)
           /\ builds' \in Seq(Int) /\ buildRanges' \in Seq(Int \X Int)
           /\ comment' \in BOOLEAN
BY EmptySeq DEF ClearAccumulators

(* A block that is pushed takes its resolved definitions along.            *)
LEMMA TryPushKeeps ==
    ASSUME ResolvedInv, NEW next \in {"versions", "done"}, TryPush(next),
           at' \in 0..Len(text.lines), UNCHANGED <<text, columnDefinitions>>
    PROVE  ResolvedInv'
<1>1. CASE UNCHANGED <<accumulators, versionDefinitions>> /\ pc' = "thrown"
  BY <1>1, NothingRead
<1>2. CASE pc' = next /\ ClearAccumulators /\ UNCHANGED versionDefinitions
  <2>1. TypeOK'
    BY <1>2, Cleared DEF ResolvedInv, TypeOK, ClearAccumulators
  <2>2. Resolved(definitions)'
    BY <1>2 DEF Resolved, ClearAccumulators
  <2>3. ColumnsResolve'
    BY <1>2 DEF ResolvedInv, ColumnsResolve
  <2> QED
    BY <2>1, <2>2, <2>3 DEF ResolvedInv
<1>3. CASE /\ pc' = next /\ ClearAccumulators
           /\ versionDefinitions' =
                Append(versionDefinitions,
                       [builds |-> builds, buildRanges |-> buildRanges,
                        layoutHashes |-> layoutHashes, definitions |-> definitions])
  <2> DEFINE block == [builds |-> builds, buildRanges |-> buildRanges,
                       layoutHashes |-> layoutHashes, definitions |-> definitions]
  <2>1. block \in VersionDefs /\ block.definitions = definitions
    BY DEF ResolvedInv, TypeOK, VersionDefs
  <2> HIDE DEF block
  <2>2. versionDefinitions \in Seq(VersionDefs)
    BY DEF ResolvedInv, TypeOK
  <2>3. versionDefinitions' = Append(versionDefinitions, block)
    BY <1>3 DEF block
  <2>4. TypeOK'
    <3>1. versionDefinitions' \in Seq(VersionDefs)
      BY <2>1, <2>2, <2>3
    <3> QED
      BY <1>3, <3>1, Cleared DEF ResolvedInv, TypeOK, ClearAccumulators
  <2>5. Resolved(definitions)'
    BY <1>3 DEF Resolved, ClearAccumulators
  <2>6. ColumnsResolve'
    <3> SUFFICES ASSUME NEW v \in 1..Len(versionDefinitions'),
                        NEW k \in 1..Len(versionDefinitions'[v].definitions)
                 PROVE  LET name == versionDefinitions'[v].definitions[k].name
                        IN  /\ name \in DOMAIN columnDefinitions
                            /\ columnDefinitions[name] \in ValidTypes
      BY DEF ColumnsResolve
    <3>1. /\ Len(versionDefinitions') = Len(versionDefinitions) + 1
          /\ Len(versionDefinitions) \in Nat
      BY <2>1, <2>2, <2>3
    <3>2. CASE v \in 1..Len(versionDefinitions)
      <4>1. versionDefinitions'[v] = versionDefinitions[v]
        BY <2>1, <2>2, <2>3, <3>2
      <4> QED
        BY <3>2, <4>1 DEF ResolvedInv, ColumnsResolve
    <3>3. CASE v = Len(versionDefinitions) + 1
      <4>1. versionDefinitions'[v] = block
        BY <2>1, <2>2, <2>3, <3>3
      <4> QED
        BY <2>1, <4>1 DEF ResolvedInv, Resolved
    <3> QED
      BY <3>1, <3>2, <3>3
  <2> QED
    BY <2>4, <2>5, <2>6 DEF ResolvedInv
<1> QED
  BY <1>1, <1>2, <1>3 DEF TryPush, Throw

(* A definition is kept only if its column is known.                       *)
LEMMA ReadVersionLineKeeps == ResolvedInv /\ ReadVersionLine => ResolvedInv'
<1> SUFFICES ASSUME ResolvedInv, ReadVersionLine PROVE ResolvedInv'
  OBVIOUS
<1>1. /\ TypeOK /\ ~Eof /\ at' = at + 1 /\ pc = "versions"
      /\ UNCHANGED <<text, columnDefinitions>>
  BY DEF ResolvedInv, ReadVersionLine
<1>2. /\ at' \in 0..Len(text.lines) /\ Line \in Lines
      /\ Line.kind = "layout" => Line.hashes \in Seq(STRING)
      /\ Line.kind = "build" => Line.builds \in Seq(Int) /\ Line.ranges \in Seq(Int \X Int)
      /\ Line.kind = "comment" => Line.text \in BOOLEAN
      /\ Line.kind = "definition" => Line \in Definitions
  BY <1>1, LineFacts
<1>3. CASE Line.kind = "blank" /\ TryPush("versions")
  BY <1>1, <1>2, <1>3, TryPushKeeps
<1>4. CASE /\ Line.kind = "layout" /\ layoutHashes' = layoutHashes \o Line.hashes
           /\ UNCHANGED <<pc, definitions, comment, builds, buildRanges, versionDefinitions>>
  <2>1. layoutHashes' \in Seq(STRING)
    BY <1>1, <1>2, <1>4, ConcatProperties DEF TypeOK
  <2> QED
    BY <1>1, <1>2, <1>4, <2>1 DEF ResolvedInv, TypeOK, Resolved, ColumnsResolve
<1>5. CASE /\ Line.kind = "build" /\ builds' = builds \o Line.builds
           /\ buildRanges' = buildRanges \o Line.ranges
           /\ UNCHANGED <<pc, definitions, layoutHashes, comment, versionDefinitions>>
  <2>1. builds' \in Seq(Int) /\ buildRanges' \in Seq(Int \X Int)
    BY <1>1, <1>2, <1>5, ConcatProperties DEF TypeOK
  <2> QED
    BY <1>1, <1>2, <1>5, <2>1 DEF ResolvedInv, TypeOK, Resolved, ColumnsResolve
<1>6. CASE /\ Line.kind = "comment" /\ comment' = Line.text
           /\ UNCHANGED <<pc, definitions, layoutHashes, builds, buildRanges, versionDefinitions>>
  BY <1>1, <1>2, <1>6 DEF ResolvedInv, TypeOK, Resolved, ColumnsResolve
<1>7. CASE /\ Line.kind = "definition" /\ ColumnKnown(Line.name)
           /\ definitions' = Append(definitions, Line)
           /\ UNCHANGED <<pc, layoutHashes, comment, builds, buildRanges, versionDefinitions>>
  <2>1. definitions \in Seq(Definitions)
    BY <1>1 DEF TypeOK
  <2>2. /\ definitions' \in Seq(Definitions)
        /\ Len(definitions') = Len(definitions) + 1
        /\ \A k \in 1..Len(definitions) : definitions'[k] = definitions[k]
        /\ definitions'[Len(definitions) + 1] = Line
    BY <1>2, <1>7, <2>1
  <2>3. Resolved(definitions)'
    <3> SUFFICES ASSUME NEW k \in 1..Len(definitions')
                 PROVE  /\ definitions'[k].name \in DOMAIN columnDefinitions
                        /\ columnDefinitions[definitions'[k].name] \in ValidTypes
      BY <1>1 DEF Resolved
    <3>1. CASE k \in 1..Len(definitions)
      BY <2>2, <3>1 DEF ResolvedInv, Resolved
    <3>2. CASE k = Len(definitions) + 1
      BY <1>7, <2>2, <3>2 DEF ResolvedInv, ColumnKnown
    <3>3. Len(definitions) \in Nat
      BY <2>1
    <3> QED
      BY <2>2, <3>1, <3>2, <3>3
  <2>4. TypeOK'
    BY <1>1, <1>2, <1>7, <2>2 DEF TypeOK
  <2> QED
    BY <1>1, <1>7, <2>3, <2>4 DEF ResolvedInv, ColumnsResolve
<1>8. CASE pc' = "thrown" /\ UNCHANGED <<accumulators, versionDefinitions>>
  BY <1>1, <1>2, <1>8, NothingRead
<1> QED
  BY <1>3, <1>4, <1>5, <1>6, <1>7, <1>8 DEF ReadVersionLine, Throw

LEMMA ResolvedStep == ResolvedInv /\ [Next]_vars => ResolvedInv'
<1> SUFFICES ASSUME ResolvedInv, [Next]_vars PROVE ResolvedInv'
  OBVIOUS
<1>1. at \in 0..Len(text.lines) /\ pc \in {"first", "columns", "versions", "done", "thrown"}
  BY DEF ResolvedInv, TypeOK
<1>2. CASE ReadFirstLine
  BY <1>1, <1>2, NothingRead DEF ReadFirstLine, Throw
<1>3. CASE ReadColumn
  BY <1>3, ReadColumnKeeps
<1>4. CASE ColumnsEnd
  BY <1>1, <1>4, NothingRead DEF ColumnsEnd
<1>5. CASE ReadVersionLine
  BY <1>5, ReadVersionLineKeeps
<1>6. CASE FinishRead
  BY <1>1, <1>6, TryPushKeeps DEF FinishRead
<1>7. CASE \E build \in Versions : MakeSchema(build)
  BY <1>1, <1>7, NothingRead DEF MakeSchema
<1>8. CASE UNCHANGED vars
  BY <1>1, <1>8, NothingRead DEF vars
<1> QED
  BY <1>2, <1>3, <1>4, <1>5, <1>6, <1>7, <1>8 DEF Next, ReadStep

(* Every definition read names a column of a known type, so that           *)
(* makeSchema makes a schema of every block it can choose.                 *)
THEOREM DefinitionsResolve == Spec => []ColumnsResolve
<1>1. ResolvedInv => ColumnsResolve
  BY DEF ResolvedInv
<1> QED
  BY <1>1, ResolvedInit, ResolvedStep, PTL DEF Spec
-----------------------------------------------------------------------------
(* What makeSchema makes of a definition that read() accepts.              *)
MadeFields ==
    [name : STRING, type : ValidTypes, bytes : 0..255, size : 1..MaxArray,
     isId : BOOLEAN, isRelation : BOOLEAN, isInline : BOOLEAN]

\* A schema is asked for once everything is read, and a block gives it.
SchemaMade ==
    /\ schemas \in Nat
    /\ schemas > 0 => pc = "done"
    /\ schemas > 0 /\ Found => schema \in Seq(MadeFields)

SchemaInv == ResolvedInv /\ SchemaMade

LEMMA FieldMade ==
    ASSUME NEW def \in Definitions, def.name \in DOMAIN columnDefinitions,
           columnDefinitions[def.name] \in ValidTypes
    PROVE  FieldOf(def) \in MadeFields
<1> DEFINE type == columnDefinitions[def.name]
<1>1. /\ def.name \in STRING /\ def.size \in 0..MaxBits /\ def.arrLength \in 0..MaxArray
      /\ def.isID \in BOOLEAN /\ def.isNonInline \in BOOLEAN /\ def.isRelation \in BOOLEAN
  BY DEF Definitions
<1>2. (IF type = "int" THEN def.size \div 8 ELSE 0) \in 0..255
  <2>1. def.size \in 0..2047
    BY <1>1 DEF MaxBits
  <2>2. def.size \div 8 \in 0..255
    <3> DEFINE bits == def.size
    <3>1. bits \in 0..2047
      BY <2>1
    <3> HIDE DEF bits
    <3>2. bits \div 8 \in 0..255
      BY <3>1
    <3> QED
      BY <3>2 DEF bits
  <2> QED
    BY <2>2
<1>3. (IF def.arrLength > 1 THEN def.arrLength ELSE 1) \in 1..MaxArray
  BY <1>1 DEF MaxArray
<1> QED
  BY <1>1, <1>2, <1>3 DEF FieldOf, MadeFields

(* A field of each schema that can be made of the blocks read.             *)
LEMMA BlockMade ==
    ASSUME ResolvedInv, NEW v \in 1..Len(versionDefinitions)
    PROVE  BuildSchema(versionDefinitions[v].definitions) \in Seq(MadeFields)
<1> DEFINE defs == versionDefinitions[v].definitions
<1>1. versionDefinitions \in Seq(VersionDefs)
  BY DEF ResolvedInv, TypeOK
<1>2. versionDefinitions[v] \in VersionDefs
  BY <1>1, ElementOfSeq
<1>3. defs \in Seq(Definitions)
  BY <1>2 DEF VersionDefs
<1>4. \A k \in 1..Len(defs) : /\ defs[k].name \in DOMAIN columnDefinitions
                              /\ columnDefinitions[defs[k].name] \in ValidTypes
  BY DEF ResolvedInv, ColumnsResolve
<1> HIDE DEF defs
<1>5. \A k \in 1..Len(defs) : FieldOf(defs[k]) \in MadeFields
  <2> TAKE k \in 1..Len(defs)
  <2>1. defs[k] \in Definitions
    BY <1>3, ElementOfSeq
  <2> QED
    BY <1>4, <2>1, FieldMade
<1>6. Len(defs) \in Nat
  BY <1>3
<1>7. [k \in 1..Len(defs) |-> FieldOf(defs[k])] \in Seq(MadeFields)
  BY <1>5, <1>6
<1> QED
  BY <1>7 DEF BuildSchema, defs

LEMMA SchemaInit == Init => SchemaInv
BY ResolvedInit DEF Init, SchemaInv, SchemaMade

LEMMA MakeSchemaMakes ==
    ASSUME SchemaInv, NEW build \in Versions, MakeSchema(build)
    PROVE  SchemaMade'
<1> DEFINE matching == {v \in 1..Len(versionDefinitions) : Matched(versionDefinitions[v], build)}
<1>1. /\ pc = "done" /\ pc' = pc /\ schemas' = schemas + 1 /\ schemas \in Nat
      /\ target' = build /\ versionDefinitions' = versionDefinitions
  BY DEF MakeSchema, SchemaInv, SchemaMade
<1>2. Found' => matching # {}
  BY <1>1 DEF Found, Matched, Contains
<1>3. matching # {} =>
        schema' = BuildSchema(versionDefinitions[FirstOf(matching)].definitions)
  BY DEF MakeSchema
<1>4. matching # {} => FirstOf(matching) \in 1..Len(versionDefinitions)
  <2> SUFFICES ASSUME matching # {} PROVE FirstOf(matching) \in 1..Len(versionDefinitions)
    OBVIOUS
  <2>1. matching \subseteq 1..Len(versionDefinitions) /\ matching \subseteq Nat
    OBVIOUS
  <2> HIDE DEF matching
  <2>2. \E v \in matching : \A w \in matching : v <= w
    BY <2>1, LeastNatural
  <2>3. FirstOf(matching) \in matching
    BY <2>2 DEF FirstOf
  <2> QED
    BY <2>1, <2>3
<1>5. matching # {} => schema' \in Seq(MadeFields)
  <2> HIDE DEF matching
  <2> QED
    BY <1>3, <1>4, BlockMade DEF SchemaInv
<1> QED
  BY <1>1, <1>2, <1>5 DEF SchemaMade

LEMMA SchemaStep == SchemaInv /\ [Next]_vars => SchemaInv'
<1> SUFFICES ASSUME SchemaInv, [Next]_vars PROVE SchemaInv'
  OBVIOUS
<1>1. ResolvedInv'
  BY ResolvedStep DEF SchemaInv
<1>2. CASE ReadStep
  <2>1. pc # "done" /\ schemas' = schemas
    BY <1>2 DEF ReadStep, ReadFirstLine, ReadColumn, ColumnsEnd, ReadVersionLine, FinishRead
  <2> QED
    BY <1>1, <2>1 DEF SchemaInv, SchemaMade
<1>3. CASE \E build \in Versions : MakeSchema(build)
  BY <1>1, <1>3, MakeSchemaMakes DEF SchemaInv
<1>4. CASE UNCHANGED vars
  BY <1>1, <1>4 DEF SchemaInv, SchemaMade, Found, Matched, Contains, vars
<1> QED
  BY <1>2, <1>3, <1>4 DEF Next
-----------------------------------------------------------------------------
(* The static schema has the field that was written, as wide as its        *)
(* member.                                                                 *)
LEMMA StaticRight ==
    ASSUME NEW field \in MadeFields, NEW format \in Formats,
           field.type = "int" => field.bytes \in {1, 2, 4, 8}
    PROVE  /\ StaticField(field, format) = Compared(field)
           /\ SizeDest(StaticField(field, format), format) = SizeOf(Member(field, format))
<1> DEFINE m == Member(field, format)
           P == SizeOf(m)
<1>1. /\ field.type \in ValidTypes /\ field.bytes \in Nat /\ field.size \in Nat \ {0}
  BY DEF MadeFields
<1>2. m.extent = Extent(field) /\ Elements(m) = field.size
  BY <1>1 DEF Member, Elements, Extent
<1>3. /\ Annotated(field).isId = field.isId /\ Annotated(field).isRelation = field.isRelation
      /\ Annotated(field).isInline = field.isInline
  BY DEF Annotated
<1>4. CASE field.type = "int" \/ field.type = "float"
  <2> DEFINE bytes == IF field.type = "int" THEN field.bytes ELSE 4
  <2>1. m.bytes = bytes /\ bytes \in Nat
    BY <1>1, <1>4 DEF Member, MemberType
  <2>2. m.of = IF field.type = "int" THEN "uint" ELSE "float"
    BY <1>4 DEF Member, MemberType
  <2> HIDE DEF m
  <2>3. SizeOf(m) = bytes * field.size
    BY <1>2, <2>1 DEF SizeOf
  <2>4. SizeOf(m) \div Elements(m) = bytes
    <3> HIDE DEF bytes
    <3>1. bytes * field.size + 0 = bytes * field.size /\ bytes * field.size \in Nat
      BY <1>1, <2>1
    <3>2. (bytes * field.size + 0) \div field.size = bytes
      BY <1>1, <2>1, QuotientIs
    <3> QED
      BY <1>2, <2>3, <3>1, <3>2
  <2>5. StaticField(field, format) = NewField(field.type, bytes, field.size, Annotated(field))
    BY <1>2, <1>4, <2>2, <2>4 DEF StaticField, ValueOfMember, m
  <2>6. NewField(field.type, bytes, field.size, Annotated(field)) = Compared(field)
    BY <1>3, <1>4 DEF NewField, Compared
  <2>7. SizeDest(Compared(field), format) = field.size * bytes
    BY <1>4 DEF SizeDest, Compared
  <2>8. field.size * bytes = bytes * field.size
    <3> HIDE DEF bytes
    <3> QED
      BY <1>1, <2>1
  <2> QED
    BY <2>3, <2>5, <2>6, <2>7, <2>8 DEF m
<1>5. CASE field.type = "string" \/ field.type = "locstring"
  <2> DEFINE bytes == IF field.type = "string" THEN PointerBytes ELSE LangStringSize[format]
  <2>1. m.bytes = bytes /\ bytes \in Nat
    BY <1>5 DEF Member, MemberType, LangStringMember, LangStringStruct, LangStringSize, StringCount,
                PointerBytes, Formats
  <2> HIDE DEF m
  <2>2. SizeOf(m) = bytes * field.size
    BY <1>2, <2>1 DEF SizeOf
  <2>3. StaticField(field, format) = NewField(field.type, PointerBytes, field.size, Annotated(field))
    BY <1>1, <1>5 DEF StaticField, StringField
  <2>4. NewField(field.type, PointerBytes, field.size, Annotated(field)) = Compared(field)
    BY <1>3, <1>5 DEF NewField, Compared
  <2>5. SizeDest(Compared(field), format) = field.size * bytes
    BY <1>5 DEF SizeDest, Compared
  <2>6. field.size * bytes = bytes * field.size
    <3> HIDE DEF bytes
    <3> QED
      BY <1>1, <2>1
  <2> QED
    BY <2>2, <2>3, <2>4, <2>5, <2>6 DEF m
<1> QED
  BY <1>1, <1>4, <1>5 DEF ValidTypes

(* Nothing adds up to nothing.                                             *)
LEMMA TotalOfNone == Total(<< >>) = 0
<1> DEFINE F(g) == g = [k \in 0..0 |-> IF k = 0 THEN 0 ELSE g[k - 1] + << >>[k]]
           total == CHOOSE g : F(g)
<1>1. F([k \in 0..0 |-> 0])
  OBVIOUS
<1>2. F(total)
  <2> HIDE DEF F
  <2> QED
    BY <1>1
<1>3. total[0] = 0
  <2> HIDE DEF total
  <2> QED
    BY <1>2
<1>4. Len(<< >>) = 0
  OBVIOUS
<1> QED
  BY <1>3, <1>4 DEF Total

LEMMA SchemaGenerated == SchemaInv => GeneratedSchema
<1> SUFFICES ASSUME SchemaInv, schemas > 0, Found, Compiles(schema), NEW format \in Formats
             PROVE  LET arguments == Arguments(schema, format)
                    IN  /\ Len(arguments) = Len(schema)
                        /\ \A k \in 1..Len(schema) :
                              /\ arguments[k].comma <=> k < Len(schema)
                              /\ arguments[k].field = Compared(schema[k])
                        /\ Asserted(schema, format) <=> schema # << >>
  BY DEF GeneratedSchema
<1> DEFINE n == Len(schema)
           arguments == Arguments(schema, format)
           static == [k \in 1..n |-> arguments[k].field]
<1>1. schema \in Seq(MadeFields) /\ n \in Nat
  BY DEF SchemaInv, SchemaMade
<1>2. \A k \in 1..n : /\ schema[k] \in MadeFields
                      /\ schema[k].type = "int" => schema[k].bytes \in {1, 2, 4, 8}
  BY <1>1, ElementOfSeq DEF Compiles
<1>3. arguments = [k \in 1..n |-> [field |-> StaticField(schema[k], format),
                                   comma |-> k - 1 # n - 1]]
  BY DEF Arguments
<1>4. Len(arguments) = n
  <2> HIDE DEF arguments, n
  <2> QED
    BY <1>1, <1>3
<1>5. \A k \in 1..n : /\ arguments[k].comma <=> k < n
                      /\ arguments[k].field = StaticField(schema[k], format)
  <2> HIDE DEF arguments
  <2> SUFFICES ASSUME NEW k \in 1..n
               PROVE  /\ arguments[k].comma <=> k < n
                      /\ arguments[k].field = StaticField(schema[k], format)
    OBVIOUS
  <2>1. k - 1 # n - 1 <=> k < n
    <3> HIDE DEF n
    <3> QED
      BY <1>1
  <2>2. arguments[k] = [field |-> StaticField(schema[k], format), comma |-> k - 1 # n - 1]
    <3> HIDE DEF n
    <3> QED
      BY <1>3
  <2>3. arguments[k].comma = (k - 1 # n - 1) /\ arguments[k].field = StaticField(schema[k], format)
    <3> HIDE DEF n
    <3> QED
      BY <2>2
  <2> QED
    BY <2>1, <2>3
<1>6. \A k \in 1..n : /\ arguments[k].field = Compared(schema[k])
                      /\ SizeDest(static[k], format) = SizeOf(Member(schema[k], format))
  <2> HIDE DEF arguments
  <2> QED
    BY <1>2, <1>5, StaticRight
<1>7. Len(static) = n
  <2> HIDE DEF arguments, n
  <2> QED
    BY <1>1
<1>8. RecordSizeDest(static, format) = Total([k \in 1..n |-> SizeOf(Member(schema[k], format))])
  <2>1. [k \in 1..n |-> SizeDest(static[k], format)]
        = [k \in 1..n |-> SizeOf(Member(schema[k], format))]
    <3> HIDE DEF static, n
    <3> QED
      BY <1>6
  <2> HIDE DEF static, n
  <2> QED
    BY <1>7, <2>1 DEF RecordSizeDest
<1>9. Asserted(schema, format) <=> RecordSizeDest(static, format) = SizeOfData(schema, format)
  BY DEF Asserted
<1>10. CASE schema # << >>
  <2>1. SizeOfData(schema, format) = Total([k \in 1..n |-> SizeOf(Member(schema[k], format))])
    BY <1>10 DEF SizeOfData
  <2> HIDE DEF static, arguments, n
  <2> QED
    BY <1>4, <1>5, <1>6, <1>8, <1>9, <1>10, <2>1 DEF arguments, n
<1>11. CASE schema = << >>
  <2>1. SizeOfData(schema, format) = 1
    BY <1>11 DEF SizeOfData
  <2>2. n = 0
    BY <1>11
  <2>3. [k \in 1..n |-> SizeOf(Member(schema[k], format))] = << >>
    <3> HIDE DEF n
    <3> QED
      BY <2>2
  <2>4. RecordSizeDest(static, format) = 0
    <3> HIDE DEF static, n
    <3> QED
      BY <1>8, <2>3, TotalOfNone
  <2> HIDE DEF static, n
  <2> QED
    BY <1>4, <1>5, <1>6, <1>9, <1>11, <2>1, <2>4 DEF n
<1> QED
  BY <1>10, <1>11

(* Whatever the text and the build, the struct that schema_gen writes for  *)
(* the schema has a static schema with the same fields, that fills it      *)
(* without gap.                                                            *)
THEOREM GeneratedAgrees == Spec => []GeneratedSchema
BY SchemaInit, SchemaStep, SchemaGenerated, PTL DEF Spec
-----------------------------------------------------------------------------
\* g has the joins of the first n of the sequences s, from the first on.
Joins(g, n, s) == g = [i \in 1..n |-> IF i = 1 THEN s[i] ELSE g[i - 1] \o s[i]]

LEMMA JoinsAt ==
    ASSUME NEW n, NEW g, NEW s, Joins(g, n, s), NEW i \in 1..n
    PROVE  g[i] = IF i = 1 THEN s[i] ELSE g[i - 1] \o s[i]
<1> DEFINE V(k) == IF k = 1 THEN s[k] ELSE g[k - 1] \o s[k]
<1>1. g = [k \in 1..n |-> V(k)]
  BY DEF Joins
<1> HIDE DEF V
<1>2. g[i] = V(i)
  BY <1>1, Zenon
<1> QED
  BY <1>2 DEF V

LEMMA JoinsExist ==
    ASSUME NEW n \in Nat, NEW s
    PROVE  \E g : Joins(g, n, s)
<1> DEFINE Has(m) == \E g : Joins(g, m, s)
           B == {m \in 0..n : Has(m)}
<1>1. 0 \in B
  <2> DEFINE none == [i \in 1..0 |-> << >>]
  <2>1. none = [i \in 1..0 |-> IF i = 1 THEN s[i] ELSE none[i - 1] \o s[i]]
    OBVIOUS
  <2> HIDE DEF none
  <2>2. Joins(none, 0, s)
    BY <2>1, Zenon DEF Joins
  <2> QED
    BY <2>2
<1>2. ASSUME NEW k \in 1..n, k - 1 \in B PROVE k \in B
  <2>1. PICK g : Joins(g, k - 1, s)
    BY <1>2
  <2> DEFINE last == IF k = 1 THEN s[k] ELSE g[k - 1] \o s[k]
             h == [i \in 1..k |-> IF i = k THEN last ELSE g[i]]
  <2>2. ASSUME NEW i \in 1..k PROVE h[i] = IF i = 1 THEN s[i] ELSE h[i - 1] \o s[i]
    <3>1. CASE i = k
      <4>1. i # 1 => h[i - 1] = g[k - 1]
        <5> HIDE DEF last
        <5> QED
          BY <3>1
      <4>2. h[i] = last
        BY <3>1
      <4> QED
        BY <3>1, <4>1, <4>2
    <3>2. CASE i # k
      <4>1. i \in 1..k - 1 /\ h[i] = g[i]
        BY <3>2
      <4>2. i # 1 => i - 1 \in 1..k /\ i - 1 # k
        BY <3>2
      <4>3. i # 1 => h[i - 1] = g[i - 1]
        BY <4>2
      <4>4. g[i] = IF i = 1 THEN s[i] ELSE g[i - 1] \o s[i]
        BY <2>1, <4>1, JoinsAt
      <4> HIDE DEF h
      <4> QED
        BY <4>1, <4>3, <4>4
    <3> QED
      BY <3>1, <3>2
  <2>3. h = [i \in 1..k |-> h[i]]
    OBVIOUS
  <2> HIDE DEF h
  <2>4. Joins(h, k, s)
    BY <2>2, <2>3 DEF Joins
  <2> QED
    BY <2>4
<1> HIDE DEF B
<1>3. \A k \in 0..n : k \in B
  BY <1>1, <1>2, Reached
<1> QED
  BY <1>3 DEF B

LEMMA JoinsSame ==
    ASSUME NEW s, NEW t, NEW g, NEW h, NEW n \in Nat, NEW m \in Nat,
           Joins(g, n, s), Joins(h, m, t), n <= m, \A i \in 1..n : s[i] = t[i]
    PROVE  \A i \in 1..n : g[i] = h[i]
<1> DEFINE B == {k \in 0..n : k # 0 => g[k] = h[k]}
<1>1. 0 \in B
  OBVIOUS
<1>2. ASSUME NEW k \in 1..n, k - 1 \in B PROVE k \in B
  <2>1. k \in 1..m /\ s[k] = t[k]
    OBVIOUS
  <2>3. g[k] = IF k = 1 THEN s[k] ELSE g[k - 1] \o s[k]
    BY JoinsAt
  <2>4. h[k] = IF k = 1 THEN t[k] ELSE h[k - 1] \o t[k]
    BY <2>1, JoinsAt
  <2>2. k # 1 => g[k - 1] = h[k - 1]
    BY <1>2
  <2>5. g[k] = h[k]
    BY <2>1, <2>2, <2>3, <2>4
  <2> QED
    BY <2>5
<1> HIDE DEF B
<1>3. \A k \in 0..n : k \in B
  BY <1>1, <1>2, Reached
<1> QED
  BY <1>3 DEF B

LEMMA JoinsMore ==
    ASSUME NEW n \in Nat, n # 0, NEW s, NEW q, NEW g, NEW h,
           Joins(g, n, s), Joins(h, n + 1, q), \A i \in 1..n : s[i] = q[i]
    PROVE  g[n] = h[n]
<1>1. n + 1 \in Nat /\ n <= n + 1 /\ n \in 1..n
  OBVIOUS
<1>2. \A i \in 1..n : g[i] = h[i]
  BY <1>1, JoinsSame
<1> QED
  BY <1>1, <1>2

LEMMA FlattenFacts ==
    ASSUME NEW S, NEW s \in Seq(Seq(S))
    PROVE  /\ Meant!FlattenSeq(s) \in Seq(S)
           /\ \A e \in Seq(S) : Meant!FlattenSeq(Append(s, e)) = Meant!FlattenSeq(s) \o e
<1> DEFINE n == Len(s)
           c(k, q) == CHOOSE g : Joins(g, k, q)
<1>1. n \in Nat /\ \A i \in 1..n : s[i] \in Seq(S)
  BY ElementOfSeq
<1>2. \A k \in Nat : \A q : Joins(c(k, q), k, q)
  BY JoinsExist
<1>3. ASSUME NEW q, Len(q) \in Nat \ {0} PROVE Meant!FlattenSeq(q) = c(Len(q), q)[Len(q)]
  BY <1>3 DEF Meant!FlattenSeq, Joins
<1> HIDE DEF c
<1>4. \A k \in 1..n : c(n, s)[k] \in Seq(S)
  <2> DEFINE B == {k \in 0..n : k # 0 => c(n, s)[k] \in Seq(S)}
  <2>1. 0 \in B
    OBVIOUS
  <2>2. ASSUME NEW k \in 1..n, k - 1 \in B PROVE k \in B
    <3>1. c(n, s)[k] = IF k = 1 THEN s[k] ELSE c(n, s)[k - 1] \o s[k]
      BY <1>1, <1>2, JoinsAt
    <3>2. k # 1 => c(n, s)[k - 1] \in Seq(S)
      BY <2>2
    <3>3. s[k] \in Seq(S)
      BY <1>1
    <3>4. k # 1 => c(n, s)[k - 1] \o s[k] \in Seq(S)
      BY <3>2, <3>3, ConcatProperties
    <3>5. c(n, s)[k] \in Seq(S)
      BY <3>1, <3>3, <3>4
    <3> QED
      BY <3>5
  <2> HIDE DEF B
  <2>3. \A k \in 0..n : k \in B
    BY <1>1, <2>1, <2>2, Reached
  <2> QED
    BY <2>3 DEF B
<1>5. Meant!FlattenSeq(s) = IF n = 0 THEN << >> ELSE c(n, s)[n]
  <2>1. CASE n = 0
    BY <2>1, EmptySeq DEF Meant!FlattenSeq
  <2>2. CASE n # 0
    BY <1>1, <1>3, <2>2
  <2> QED
    BY <2>1, <2>2
<1>6. Meant!FlattenSeq(s) \in Seq(S)
  <2>1. << >> \in Seq(S)
    BY EmptySeq
  <2>2. n # 0 => n \in 1..n
    BY <1>1
  <2> QED
    BY <1>4, <1>5, <2>1, <2>2
<1>7. ASSUME NEW e \in Seq(S)
      PROVE  Meant!FlattenSeq(Append(s, e)) = Meant!FlattenSeq(s) \o e
  <2> DEFINE q == Append(s, e)
  <2>1. Len(q) = n + 1 /\ q[n + 1] = e /\ \A i \in 1..n : s[i] = q[i]
    BY AppendProperties
  <2> HIDE DEF q, n
  <2>2. Joins(c(n + 1, q), n + 1, q) /\ Joins(c(n, s), n, s)
    BY <1>1, <1>2
  <2>3. Meant!FlattenSeq(q) = c(n + 1, q)[n + 1]
    BY <1>1, <1>3, <2>1
  <2>4. c(n + 1, q)[n + 1] = IF n + 1 = 1 THEN e ELSE c(n + 1, q)[n] \o e
    <3>1. n + 1 \in 1..n + 1 /\ (n + 1) - 1 = n
      BY <1>1
    <3>2. c(n + 1, q)[n + 1] = IF n + 1 = 1 THEN q[n + 1] ELSE c(n + 1, q)[(n + 1) - 1] \o q[n + 1]
      BY <2>2, <3>1, JoinsAt
    <3> QED
      BY <2>1, <3>1, <3>2
  <2>5. CASE n = 0
    <3>1. << >> \o e = e
      BY ConcatEmptySeq
    <3> QED
      BY <1>5, <2>3, <2>4, <2>5, <3>1 DEF q
  <2>6. CASE n # 0
    <3>1. n \in 1..n /\ n + 1 # 1 /\ n <= n + 1 /\ n + 1 \in Nat
      BY <1>1, <2>6
    <3>2. c(n, s)[n] = c(n + 1, q)[n]
      BY <2>1, <2>2, <3>1, JoinsMore
    <3> QED
      BY <1>5, <2>3, <2>4, <2>6, <3>1, <3>2 DEF q
  <2> QED
    BY <2>5, <2>6
<1> QED
  BY <1>6, <1>7

(* What the lines from first to last give, and one line more.              *)
LEMMA JoinedFacts ==
    ASSUME NEW S, NEW parts \in Seq(Seq(S)), NEW first \in Nat \ {0}, NEW last \in Nat,
           first <= last + 1, last <= Len(parts)
    PROVE  /\ Meant!Joined(parts, first, last) \in Seq(S)
           /\ first = last + 1 => Meant!Joined(parts, first, last) = << >>
           /\ last + 1 <= Len(parts) =>
                Meant!Joined(parts, first, last + 1) = Meant!Joined(parts, first, last) \o parts[last + 1]
<1> DEFINE q == SubSeq(parts, first, last)
<1>1. Len(parts) \in Nat
  OBVIOUS
<1>2. q \in Seq(Seq(S))
  <2>1. \A i \in first..last : parts[i] \in Seq(S)
    BY <1>1, ElementOfSeq
  <2> QED
    BY <2>1, SubSeqProperties
<1>3. first = last + 1 => Meant!Joined(parts, first, last) = << >>
  <2>1. first = last + 1 => q = << >>
    BY SubSeqEmpty
  <2>2. Meant!FlattenSeq(<< >>) = << >>
    BY DEF Meant!FlattenSeq
  <2> QED
    BY <2>1, <2>2 DEF Meant!Joined
<1>4. ASSUME last + 1 <= Len(parts)
      PROVE  Meant!Joined(parts, first, last + 1) = Meant!Joined(parts, first, last) \o parts[last + 1]
  <2>1. parts[last + 1] \in Seq(S) /\ \A i \in first..last + 1 : parts[i] \in Seq(S)
    BY <1>1, <1>4, ElementOfSeq
  <2>2. SubSeq(parts, first, last + 1) = Append(q, parts[last + 1])
    <3> DEFINE r == SubSeq(parts, first, last + 1)
               a == Append(q, parts[last + 1])
    <3>1. /\ r \in Seq(Seq(S)) /\ Len(r) = last - first + 2
          /\ \A i \in 1..last - first + 2 : r[i] = parts[first + i - 1]
      BY <2>1, SubSeqProperties
    <3>2. /\ Len(q) = last - first + 1
          /\ \A i \in 1..last - first + 1 : q[i] = parts[first + i - 1]
      BY <1>2, <2>1, SubSeqProperties
    <3>3. /\ a \in Seq(Seq(S)) /\ Len(a) = last - first + 2
          /\ \A i \in 1..last - first + 2 : a[i] = parts[first + i - 1]
      <4> HIDE DEF q
      <4>1. /\ a \in Seq(Seq(S)) /\ Len(a) = Len(q) + 1 /\ a[Len(q) + 1] = parts[last + 1]
            /\ \A i \in 1..Len(q) : a[i] = q[i]
        BY <1>2, <2>1, AppendProperties
      <4> HIDE DEF a
      <4>2. ASSUME NEW i \in 1..last - first + 2 PROVE a[i] = parts[first + i - 1]
        <5>1. CASE i = last - first + 2
          BY <3>2, <4>1, <5>1
        <5>2. CASE i \in 1..last - first + 1
          BY <3>2, <4>1, <5>2
        <5> QED
          BY <5>1, <5>2
      <4>3. Len(a) = last - first + 2
        BY <3>2, <4>1
      <4> QED
        BY <4>1, <4>2, <4>3
    <3> HIDE DEF r, a
    <3>4. r = a
      BY <3>1, <3>3, SeqEqual
    <3> QED
      BY <3>4 DEF r, a
  <2> HIDE DEF q
  <2> QED
    BY <1>2, <2>1, <2>2, FlattenFacts DEF Meant!Joined, q
<1>5. Meant!Joined(parts, first, last) \in Seq(S)
  <2> HIDE DEF q
  <2> QED
    BY <1>2, FlattenFacts DEF Meant!Joined, q
<1> QED
  BY <1>3, <1>4, <1>5
-----------------------------------------------------------------------------
\* The lines, and the one that ends the columns.
L == text.lines

Cu == Meant!ColumnsUpTo(L)

\* The first m lines are columns, and all there are.
ColumnsRead(m) ==
    /\ \A k \in 1..m : /\ L[k].kind = "column" /\ L[k].type \in ValidTypes
                       /\ L[k].name \in DOMAIN columnDefinitions
                       /\ columnDefinitions[L[k].name] = L[k].type
    /\ \A c \in DOMAIN columnDefinitions : \E k \in 1..m : L[k].name = c
    /\ \A k \in 1..m : \A j \in 1..k - 1 : L[j].name # L[k].name

\* The lists of the block being read are empty.
NothingHeld ==
    /\ definitions = << >> /\ layoutHashes = << >> /\ comment = FALSE
    /\ builds = << >> /\ buildRanges = << >>

\* A line, or a block, that nothing is wrong with.
LineRight(k) ==
    /\ L[k].kind \notin {"bad", "column"}
    /\ L[k].kind = "definition" => L[k].name \in DOMAIN columnDefinitions

BlockRight(b) ==
    \/ Meant!Versioned(Meant!Of(b, L))
    \/ Meant!Of(b, L).definitions = << >> /\ ~Meant!Commented(L, b)

\* The last line whose block, if it ends there, has been pushed.
Pushed(first) == IF first <= at THEN at - 1 ELSE at

\* The block that is read began at the line `first'.
InBlock(first) ==
    /\ first - 1 \notin Meant!Said(L) /\ first..at \subseteq Meant!Said(L)
    /\ builds = Meant!Joined(Meant!Builds(L), first, at)
    /\ buildRanges = Meant!Joined(Meant!Ranges(L), first, at)
    /\ layoutHashes = Meant!Joined(Meant!Hashes(L), first, at)
    /\ definitions = Meant!Joined(Meant!Defined(L), first, at)
    /\ comment <=> Meant!Commented(L, <<first, at>>)
    /\ versionDefinitions = Meant!Joined(Meant!Ended(L), Cu + 1, Pushed(first))
    /\ \A k \in Meant!Said(L) : k <= at => LineRight(k)
    /\ \A b \in Meant!Blocks(L) : b[2] <= Pushed(first) => BlockRight(b)

(* The columns end at the first blank line, or with the text; the block    *)
(* being read began behind them.                                           *)
TextInv ==
    /\ pc = "first" =>
        at = 0 /\ DOMAIN columnDefinitions = {} /\ NothingHeld /\ versionDefinitions = << >>
    /\ pc = "columns" =>
        text.first /\ at < Cu /\ ColumnsRead(at) /\ NothingHeld /\ versionDefinitions = << >>
    /\ pc = "versions" =>
        /\ text.first /\ ColumnsRead(Cu - 1)
        /\ at >= Cu \/ (at = Cu - 1 /\ at = Len(L))
        /\ \E first \in Cu..at + 1 : InBlock(first)
    /\ pc = "done" => ColumnsRead(Cu - 1)
    /\ schemas > 0 => pc = "done"
    /\ TextRead /\ SchemaOfBuild

LEMMA CuFacts ==
    ASSUME TypeOK
    PROVE  /\ L \in Seq(Lines) /\ Len(L) \in Nat /\ Cu \in 1..Len(L) + 1
           /\ \A k \in 1..Cu - 1 : L[k].kind # "blank"
           /\ Cu <= Len(L) => L[Cu].kind = "blank"
<1> DEFINE blank == {k \in 1..Len(L) : L[k].kind = "blank"}
           least == CHOOSE k \in blank : \A j \in blank : k <= j
<1>1. L \in Seq(Lines) /\ Len(L) \in Nat
  BY TextsAssumption DEF TypeOK, L
<1>2. Cu = IF blank = {} THEN Len(L) + 1 ELSE least
  BY DEF Cu, Meant!ColumnsUpTo
<1>3. CASE blank = {}
  <2>1. Cu = Len(L) + 1
    BY <1>2, <1>3
  <2>2. \A k \in 1..Len(L) : L[k].kind # "blank"
    BY <1>3
  <2> QED
    BY <1>1, <2>1, <2>2
<1>4. CASE blank # {}
  <2>1. blank \subseteq 1..Len(L) /\ blank \subseteq Nat
    BY <1>1
  <2>2. \A k \in 1..Len(L) : k \in blank <=> L[k].kind = "blank"
    OBVIOUS
  <2> HIDE DEF blank
  <2>3. \E k \in blank : \A j \in blank : k <= j
    BY <1>4, <2>1, LeastNatural
  <2>4. least \in blank /\ \A j \in blank : least <= j
    BY <2>3
  <2> HIDE DEF least
  <2>5. Cu = least
    BY <1>2, <1>4
  <2>6. Cu \in 1..Len(L) /\ L[Cu].kind = "blank"
    BY <2>1, <2>2, <2>4, <2>5
  <2>7. ASSUME NEW k \in 1..Cu - 1 PROVE L[k].kind # "blank"
    <3>1. k \in 1..Len(L) /\ ~(Cu <= k)
      BY <1>1, <2>6
    <3> QED
      BY <2>2, <2>4, <2>5, <3>1
  <2> QED
    BY <1>1, <2>6, <2>7
<1> QED
  BY <1>3, <1>4

LEMMA SaidFacts ==
    /\ \A k : k \in Meant!Said(L) <=> k \in Cu + 1..Len(L) /\ L[k].kind # "blank"
    /\ Meant!Said(L) \subseteq Int
BY DEF Meant!Said, Cu

LEMMA BlocksFacts ==
    \A b : b \in Meant!Blocks(L) <=>
        /\ b \in Meant!Said(L) \X Meant!Said(L) /\ b[1] <= b[2] /\ b[1]..b[2] \subseteq Meant!Said(L)
        /\ b[1] - 1 \notin Meant!Said(L) /\ b[2] + 1 \notin Meant!Said(L)
BY DEF Meant!Blocks

(* No two blocks end at the same line.                                     *)
LEMMA BlockIs ==
    ASSUME NEW first \in Int, NEW last \in Int, first..last \subseteq Meant!Said(L), first <= last,
           first - 1 \notin Meant!Said(L),
           NEW b \in Meant!Blocks(L), b[2] = last
    PROVE  b = <<first, last>>
<1> DEFINE said == Meant!Said(L)
<1>1. /\ b \in said \X said /\ b[1] <= b[2] /\ b[1]..b[2] \subseteq said /\ b[1] - 1 \notin said
  BY BlocksFacts
<1>2. b[1] \in Int /\ b = <<b[1], b[2]>>
  BY <1>1, SaidFacts
<1> HIDE DEF said
<1>3. ~(b[1] < first)
  <2>1. b[1] < first => first - 1 \in b[1]..b[2]
    BY <1>1, <1>2
  <2> QED
    BY <1>1, <2>1 DEF said
<1>4. ~(first < b[1])
  <2>1. first < b[1] => b[1] - 1 \in first..last
    BY <1>1, <1>2
  <2> QED
    BY <1>1, <2>1 DEF said
<1> QED
  BY <1>2, <1>3, <1>4

(* What a line gives to its block.                                         *)
LEMMA PartsTyped ==
    ASSUME TypeOK
    PROVE  /\ Meant!Builds(L) \in Seq(Seq(Int)) /\ Len(Meant!Builds(L)) = Len(L)
           /\ Meant!Ranges(L) \in Seq(Seq(Int \X Int)) /\ Len(Meant!Ranges(L)) = Len(L)
           /\ Meant!Hashes(L) \in Seq(Seq(STRING)) /\ Len(Meant!Hashes(L)) = Len(L)
           /\ Meant!Defined(L) \in Seq(Seq(Definitions)) /\ Len(Meant!Defined(L)) = Len(L)
<1> DEFINE n == Len(L)
<1>1. L \in Seq(Lines) /\ n \in Nat
  BY CuFacts
<1>2. \A k \in 1..n : L[k] \in Lines
  BY <1>1, ElementOfSeq
<1>3. ASSUME NEW line \in Lines
      PROVE  /\ line.kind = "build" => line.builds \in Seq(Int) /\ line.ranges \in Seq(Int \X Int)
             /\ line.kind = "layout" => line.hashes \in Seq(STRING)
             /\ line.kind = "definition" => line \in Definitions
  BY DEF Lines, Definitions
<1>4. ASSUME NEW S, NEW f, f = [k \in 1..n |-> f[k]], \A k \in 1..n : f[k] \in Seq(S)
      PROVE  f \in Seq(Seq(S)) /\ Len(f) = n
  <2>1. f \in [1..n -> Seq(S)]
    BY <1>4
  <2> HIDE DEF n
  <2> QED
    BY <1>1, <2>1
<1>5. \A S : << >> \in Seq(S)
  BY EmptySeq
<1>6. Meant!Builds(L) \in Seq(Seq(Int)) /\ Len(Meant!Builds(L)) = n
  <2> DEFINE f == Meant!Builds(L)
  <2>1. f = [k \in 1..n |-> f[k]] /\ \A k \in 1..n : f[k] \in Seq(Int)
    BY <1>2, <1>3, <1>5 DEF Meant!Builds
  <2> HIDE DEF f, n
  <2> QED
    BY <1>4, <2>1 DEF f
<1>7. Meant!Ranges(L) \in Seq(Seq(Int \X Int)) /\ Len(Meant!Ranges(L)) = n
  <2> DEFINE f == Meant!Ranges(L)
  <2>1. f = [k \in 1..n |-> f[k]] /\ \A k \in 1..n : f[k] \in Seq(Int \X Int)
    BY <1>2, <1>3, <1>5 DEF Meant!Ranges
  <2> HIDE DEF f, n
  <2> QED
    BY <1>4, <2>1 DEF f
<1>8. Meant!Hashes(L) \in Seq(Seq(STRING)) /\ Len(Meant!Hashes(L)) = n
  <2> DEFINE f == Meant!Hashes(L)
  <2>1. f = [k \in 1..n |-> f[k]] /\ \A k \in 1..n : f[k] \in Seq(STRING)
    BY <1>2, <1>3, <1>5 DEF Meant!Hashes
  <2> HIDE DEF f, n
  <2> QED
    BY <1>4, <2>1 DEF f
<1>9. Meant!Defined(L) \in Seq(Seq(Definitions)) /\ Len(Meant!Defined(L)) = n
  <2> DEFINE f == Meant!Defined(L)
  <2>1. f = [k \in 1..n |-> f[k]] /\ \A k \in 1..n : f[k] \in Seq(Definitions)
    BY <1>2, <1>3, <1>5 DEF Meant!Defined
  <2> HIDE DEF f, n
  <2> QED
    BY <1>4, <2>1 DEF f
<1> QED
  BY <1>6, <1>7, <1>8, <1>9

(* At a line the block that ends there is told, if it is versioned.        *)
LEMMA EndedFacts ==
    ASSUME TypeOK
    PROVE  /\ Meant!Ended(L) \in Seq(Seq({Meant!Of(b, L) : b \in Meant!Blocks(L)}))
           /\ Len(Meant!Ended(L)) = Len(L)
           /\ \A k \in 1..Len(L) :
                (\A b \in Meant!Blocks(L) : b[2] # k) => Meant!Ended(L)[k] = << >>
           /\ \A k \in 1..Len(L) : \A b \in Meant!Blocks(L) :
                (\A c \in Meant!Blocks(L) : c[2] = k <=> c = b) =>
                    Meant!Ended(L)[k] = IF Meant!Versioned(Meant!Of(b, L)) THEN <<Meant!Of(b, L)>>
                                                                         ELSE << >>
<1> DEFINE n == Len(L)
           blocks == Meant!Blocks(L)
           here(k) == {b \in blocks : b[2] = k /\ Meant!Versioned(Meant!Of(b, L))}
           f == Meant!Ended(L)
           T == {Meant!Of(b, L) : b \in blocks}
<1>1. L \in Seq(Lines) /\ n \in Nat
  BY CuFacts
<1>2. f = [k \in 1..n |-> IF here(k) = {} THEN << >>
                          ELSE <<Meant!Of(CHOOSE b \in here(k) : TRUE, L)>>]
  BY DEF Meant!Ended
<1>3. \A k : here(k) # {} => (CHOOSE b \in here(k) : TRUE) \in here(k)
  <2> HIDE DEF here
  <2> QED
    OBVIOUS
<1>4. f \in Seq(Seq(T)) /\ Len(f) = n
  <2>1. ASSUME NEW k \in 1..n PROVE f[k] \in Seq(T)
    <3>1. CASE here(k) = {}
      <4>1. << >> \in Seq(T)
        BY EmptySeq
      <4> QED
        BY <1>2, <3>1, <4>1
    <3>2. CASE here(k) # {}
      <4> DEFINE c == CHOOSE b \in here(k) : TRUE
      <4>1. c \in blocks
        <5>1. here(k) \subseteq blocks
          OBVIOUS
        <5> HIDE DEF here
        <5> QED
          BY <1>3, <3>2, <5>1
      <4>2. f[k] = <<Meant!Of(c, L)>>
        BY <1>2, <3>2
      <4> HIDE DEF c, f, here, blocks
      <4>3. Meant!Of(c, L) \in T
        BY <4>1
      <4> HIDE DEF T
      <4> QED
        BY <4>2, <4>3
    <3> QED
      BY <3>1, <3>2
  <2>2. f = [k \in 1..n |-> f[k]]
    BY <1>2
  <2> HIDE DEF f, T, n
  <2>3. f \in [1..n -> Seq(T)]
    BY <2>1, <2>2
  <2> QED
    BY <1>1, <2>3
<1>5. ASSUME NEW k \in 1..n, \A b \in blocks : b[2] # k PROVE f[k] = << >>
  <2>1. here(k) = {}
    BY <1>5
  <2> QED
    BY <1>2, <2>1
<1>6. ASSUME NEW k \in 1..n, NEW b \in blocks, \A c \in blocks : c[2] = k <=> c = b
      PROVE  f[k] = IF Meant!Versioned(Meant!Of(b, L)) THEN <<Meant!Of(b, L)>> ELSE << >>
  <2>1. here(k) = IF Meant!Versioned(Meant!Of(b, L)) THEN {b} ELSE {}
    <3> HIDE DEF blocks
    <3> QED
      BY <1>6
  <2>2. f[k] = IF here(k) = {} THEN << >> ELSE <<Meant!Of(CHOOSE c \in here(k) : TRUE, L)>>
    BY <1>2
  <2>3. (CHOOSE c \in {b} : TRUE) = b
    OBVIOUS
  <2> HIDE DEF here, f
  <2> QED
    BY <2>1, <2>2, <2>3
<1> QED
  BY <1>4, <1>5, <1>6
LEMMA JoinedNone ==
    ASSUME NEW parts, NEW first \in Int, NEW last \in Int, last < first
    PROVE  Meant!Joined(parts, first, last) = << >>
<1>1. SubSeq(parts, first, last) = << >>
  BY SubSeqEmpty
<1>2. Meant!FlattenSeq(<< >>) = << >>
  BY DEF Meant!FlattenSeq
<1> QED
  BY <1>1, <1>2 DEF Meant!Joined

(* The last comment of a block is what counts.                             *)
LEMMA CommentedMore ==
    ASSUME NEW first \in Int, NEW m \in Int
    PROVE  /\ m < first => ~Meant!Commented(L, <<first, m>>)
           /\ first <= m + 1 =>
                (Meant!Commented(L, <<first, m + 1>>) <=>
                    IF L[m + 1].kind = "comment" THEN L[m + 1].text
                                                 ELSE Meant!Commented(L, <<first, m>>))
<1> DEFINE C(k, last) == /\ L[k].kind = "comment" /\ L[k].text
                         /\ \A j \in k + 1..last : L[j].kind # "comment"
<1>1. \A last : Meant!Commented(L, <<first, last>>) <=> \E k \in first..last : C(k, last)
  BY DEF Meant!Commented
<1>2. m < first => ~Meant!Commented(L, <<first, m>>)
  BY <1>1
<1>3. ASSUME first <= m + 1, L[m + 1].kind = "comment"
      PROVE  Meant!Commented(L, <<first, m + 1>>) <=> L[m + 1].text
  <2>1. m + 1 \in first..m + 1 /\ m + 1 + 1..m + 1 = {}
    BY <1>3
  <2>2. L[m + 1].text => C(m + 1, m + 1)
    BY <1>3, <2>1
  <2>3. ASSUME NEW k \in first..m + 1, C(k, m + 1) PROVE L[m + 1].text
    <3>1. CASE k = m + 1
      BY <2>3, <3>1
    <3>2. CASE k # m + 1
      <4>1. m + 1 \in k + 1..m + 1
        BY <3>2
      <4> QED
        BY <1>3, <2>3, <4>1
    <3> QED
      BY <3>1, <3>2
  <2> HIDE DEF C
  <2> QED
    BY <1>1, <2>1, <2>2, <2>3
<1>4. ASSUME first <= m + 1, L[m + 1].kind # "comment"
      PROVE  Meant!Commented(L, <<first, m + 1>>) <=> Meant!Commented(L, <<first, m>>)
  <2>1. ASSUME NEW k \in first..m + 1, C(k, m + 1) PROVE k \in first..m /\ C(k, m)
    <3>1. k # m + 1
      BY <1>4, <2>1
    <3>2. k \in first..m /\ k + 1..m \subseteq k + 1..m + 1
      BY <3>1
    <3> QED
      BY <2>1, <3>2
  <2>2. ASSUME NEW k \in first..m, C(k, m) PROVE k \in first..m + 1 /\ C(k, m + 1)
    <3>1. k \in first..m + 1
      OBVIOUS
    <3>2. ASSUME NEW j \in k + 1..m + 1 PROVE L[j].kind # "comment"
      <4>1. j = m + 1 \/ j \in k + 1..m
        OBVIOUS
      <4> QED
        BY <1>4, <2>2, <4>1
    <3> QED
      BY <2>2, <3>1, <3>2
  <2> HIDE DEF C
  <2> QED
    BY <1>1, <2>1, <2>2
<1> QED
  BY <1>2, <1>3, <1>4

(* Where a line of a block stands.                                         *)
LEMMA LineOfBlock ==
    ASSUME TypeOK, NEW first \in Cu..at + 1, InBlock(first), at + 1 \in Meant!Said(L)
    PROVE  /\ at \in Nat /\ first \in Nat \ {0} /\ first <= at + 1 /\ at + 1 <= Len(L)
           /\ at < Len(L) /\ Cu + 1 <= at + 1 /\ Cu \in Nat \ {0}
           /\ first..at + 1 \subseteq Meant!Said(L)
<1>1. Cu \in 1..Len(L) + 1 /\ Len(L) \in Nat /\ at \in 0..Len(L)
  BY CuFacts DEF TypeOK, L
<1>2. at + 1 \in Cu + 1..Len(L)
  BY SaidFacts
<1>3. first..at + 1 \subseteq Meant!Said(L)
  <2>1. ASSUME NEW k \in first..at + 1 PROVE k = at + 1 \/ k \in first..at
    BY <1>1
  <2> QED
    BY <2>1 DEF InBlock
<1> QED
  BY <1>1, <1>2, <1>3

(* One more line of the block, whatever it says.                           *)
LEMMA OneLineMore ==
    ASSUME TypeOK, NEW first \in Cu..at + 1, InBlock(first), at + 1 \in Meant!Said(L)
    PROVE  /\ Meant!Joined(Meant!Builds(L), first, at + 1) = builds \o Meant!Builds(L)[at + 1]
           /\ Meant!Joined(Meant!Ranges(L), first, at + 1) = buildRanges \o Meant!Ranges(L)[at + 1]
           /\ Meant!Joined(Meant!Hashes(L), first, at + 1) = layoutHashes \o Meant!Hashes(L)[at + 1]
           /\ Meant!Joined(Meant!Defined(L), first, at + 1) = definitions \o Meant!Defined(L)[at + 1]
           /\ Meant!Commented(L, <<first, at + 1>>) <=>
                IF L[at + 1].kind = "comment" THEN L[at + 1].text ELSE comment
           /\ versionDefinitions = Meant!Joined(Meant!Ended(L), Cu + 1, at)
           /\ \A b \in Meant!Blocks(L) : b[2] <= at => BlockRight(b)
<1>1. /\ at \in Nat /\ first \in Nat \ {0} /\ first <= at + 1 /\ at + 1 <= Len(L)
      /\ at < Len(L) /\ Cu + 1 <= at + 1 /\ Cu \in Nat \ {0} /\ Len(L) \in Nat
      /\ at <= Len(L)
  BY LineOfBlock, CuFacts
<1>10. ASSUME NEW S, NEW parts, parts \in Seq(Seq(S)), Len(parts) = Len(L)
       PROVE  Meant!Joined(parts, first, at + 1) = Meant!Joined(parts, first, at) \o parts[at + 1]
  <2>1. at <= Len(parts) /\ at + 1 <= Len(parts)
    BY <1>1, <1>10
  <2> QED
    BY <1>1, <1>10, <2>1, JoinedFacts
<1>2. Meant!Joined(Meant!Builds(L), first, at + 1) = builds \o Meant!Builds(L)[at + 1]
  <2>1. builds = Meant!Joined(Meant!Builds(L), first, at)
    BY DEF InBlock
  <2> QED
    BY <1>10, <2>1, PartsTyped
<1>3. Meant!Joined(Meant!Ranges(L), first, at + 1) = buildRanges \o Meant!Ranges(L)[at + 1]
  <2>1. buildRanges = Meant!Joined(Meant!Ranges(L), first, at)
    BY DEF InBlock
  <2> QED
    BY <1>10, <2>1, PartsTyped
<1>4. Meant!Joined(Meant!Hashes(L), first, at + 1) = layoutHashes \o Meant!Hashes(L)[at + 1]
  <2>1. layoutHashes = Meant!Joined(Meant!Hashes(L), first, at)
    BY DEF InBlock
  <2> QED
    BY <1>10, <2>1, PartsTyped
<1>5. Meant!Joined(Meant!Defined(L), first, at + 1) = definitions \o Meant!Defined(L)[at + 1]
  <2>1. definitions = Meant!Joined(Meant!Defined(L), first, at)
    BY DEF InBlock
  <2> QED
    BY <1>10, <2>1, PartsTyped
<1>6. Meant!Commented(L, <<first, at + 1>>) <=>
        IF L[at + 1].kind = "comment" THEN L[at + 1].text ELSE comment
  BY <1>1, CommentedMore DEF InBlock
<1>7. \A b \in Meant!Blocks(L) : b[2] # at
  BY BlocksFacts
<1>8. versionDefinitions = Meant!Joined(Meant!Ended(L), Cu + 1, at)
  <2>1. CASE first <= at
    <3> DEFINE e == Meant!Ended(L)
               before == Meant!Joined(e, Cu + 1, at - 1)
               T == {Meant!Of(b, L) : b \in Meant!Blocks(L)}
    <3>1. at \in Meant!Said(L)
      BY <1>1, <2>1 DEF InBlock
    <3>2. Cu + 1 <= at /\ at - 1 \in Nat /\ at \in 1..Len(L)
      BY <1>1, <3>1, SaidFacts
    <3>3. e[at] = << >>
      BY <1>7, <3>2, EndedFacts
    <3>4. e \in Seq(Seq(T)) /\ Len(e) = Len(L)
      BY EndedFacts
    <3>5. versionDefinitions = before
      BY <2>1 DEF InBlock, Pushed
    <3> HIDE DEF e, T
    <3>6. /\ Cu + 1 \in Nat \ {0} /\ Cu + 1 <= (at - 1) + 1 /\ at - 1 <= Len(e)
          /\ (at - 1) + 1 <= Len(e) /\ (at - 1) + 1 = at
      BY <1>1, <3>2, <3>4
    <3>7. before \in Seq(T) /\ Meant!Joined(e, Cu + 1, (at - 1) + 1) = before \o e[(at - 1) + 1]
      BY <3>2, <3>4, <3>6, JoinedFacts
    <3> HIDE DEF before
    <3>8. before \o << >> = before
      BY <3>7, ConcatEmptySeq
    <3> QED
      BY <3>3, <3>5, <3>6, <3>7, <3>8 DEF e
  <2>2. CASE ~(first <= at)
    BY <2>2 DEF InBlock, Pushed
  <2> QED
    BY <2>1, <2>2
<1>9. ASSUME NEW b \in Meant!Blocks(L), b[2] <= at PROVE BlockRight(b)
  <2>1. b[2] \in Int
    BY SaidFacts, BlocksFacts
  <2>2. b[2] <= Pushed(first)
    <3> DEFINE z == b[2]
    <3>1. z \in Int /\ z # at /\ z <= at
      BY <1>7, <1>9, <2>1
    <3> HIDE DEF z
    <3>2. z <= Pushed(first)
      BY <1>1, <3>1 DEF Pushed
    <3> QED
      BY <3>2 DEF z
  <2> QED
    BY <2>2 DEF InBlock
<1> QED
  BY <1>2, <1>3, <1>4, <1>5, <1>6, <1>8, <1>9
(* The block that has been read, at its end.                               *)
LEMMA BlockEnds ==
    ASSUME TypeOK, NEW first \in Cu..at + 1, InBlock(first), at + 1 \notin Meant!Said(L), Cu - 1 <= at
    PROVE  LET block == [builds |-> builds, buildRanges |-> buildRanges,
                         layoutHashes |-> layoutHashes, definitions |-> definitions]
           IN  /\ ~HasVersions /\ (definitions # << >> \/ comment) => Meant!Malformed(text, ValidTypes)
               /\ HasVersions \/ (definitions = << >> /\ ~comment) =>
                    /\ Meant!Joined(Meant!Ended(L), Cu + 1, at)
                        = IF HasVersions THEN Append(versionDefinitions, block) ELSE versionDefinitions
                    /\ \A b \in Meant!Blocks(L) : b[2] <= at => BlockRight(b)
<1> DEFINE block == [builds |-> builds, buildRanges |-> buildRanges,
                     layoutHashes |-> layoutHashes, definitions |-> definitions]
           B == <<first, at>>
<1>1. /\ Cu \in 1..Len(L) + 1 /\ Len(L) \in Nat /\ at \in 0..Len(L) /\ at \in Nat /\ first \in Nat \ {0}
      /\ Cu \in Nat \ {0}
  BY CuFacts DEF TypeOK, L
<1>2. CASE at < first
  <2>1. /\ builds = << >> /\ buildRanges = << >> /\ layoutHashes = << >> /\ definitions = << >>
    BY <1>1, <1>2, JoinedNone DEF InBlock
  <2>2. ~comment
    <3>1. comment <=> Meant!Commented(L, B)
      BY DEF InBlock
    <3>2. at \in Int /\ first \in Int /\ at < first
      BY <1>1, <1>2
    <3>3. ~Meant!Commented(L, B)
      BY <3>2, CommentedMore
    <3> QED
      BY <3>1, <3>3
  <2>3. ~HasVersions
    BY <2>1 DEF HasVersions
  <2>4. Pushed(first) = at
    BY <1>1, <1>2 DEF Pushed
  <2> QED
    BY <2>1, <2>2, <2>3, <2>4 DEF InBlock
<1>3. CASE ~(at < first)
  <2>1. first <= at /\ first..at \subseteq Meant!Said(L) /\ first - 1 \notin Meant!Said(L)
    BY <1>1, <1>3 DEF InBlock
  <2>2. at \in Meant!Said(L) /\ first \in Meant!Said(L)
    BY <1>1, <2>1
  <2>3. Cu + 1 <= at /\ at - 1 \in Nat /\ at \in 1..Len(L)
    BY <1>1, <2>2, SaidFacts
  <2>4. B \in Meant!Blocks(L) /\ B[2] = at
    <3>1. B \in Meant!Said(L) \X Meant!Said(L) /\ B[1] = first /\ B[2] = at
      BY <2>2
    <3> QED
      BY <2>1, <3>1, BlocksFacts
  <2>5. \A c \in Meant!Blocks(L) : c[2] = at <=> c = B
    BY <1>1, <2>1, <2>4, BlockIs
  <2>6. Meant!Of(B, L) = block /\ (Meant!Commented(L, B) <=> comment)
    BY DEF InBlock, Meant!Of
  <2>7. Meant!Versioned(Meant!Of(B, L)) <=> HasVersions
    <3>1. Meant!Versioned(block) <=> HasVersions
      BY DEF Meant!Versioned, HasVersions
    <3> QED
      BY <2>6, <3>1
  <2>8. Meant!Of(B, L).definitions = definitions
    BY <2>6
  <2> HIDE DEF B, block
  <2>9. ~HasVersions /\ (definitions # << >> \/ comment) => Meant!Malformed(text, ValidTypes)
    BY <2>4, <2>6, <2>7, <2>8 DEF Meant!Malformed, L
  <2>10. ASSUME HasVersions \/ (definitions = << >> /\ ~comment), NEW b \in Meant!Blocks(L), b[2] <= at
         PROVE  BlockRight(b)
    <3>1. CASE b = B
      BY <2>6, <2>7, <2>8, <2>10, <3>1 DEF BlockRight
    <3>2. CASE b # B
      <4> DEFINE z == b[2]
      <4>1. z \in Int /\ z # at /\ z <= at
        BY <2>5, <2>10, <3>2, SaidFacts, BlocksFacts
      <4> HIDE DEF z
      <4>2. z <= Pushed(first)
        BY <1>1, <2>1, <4>1 DEF Pushed
      <4> QED
        BY <4>2 DEF InBlock, z
    <3> QED
      BY <3>1, <3>2
  <2>11. Meant!Joined(Meant!Ended(L), Cu + 1, at)
            = IF HasVersions THEN Append(versionDefinitions, block) ELSE versionDefinitions
    <3> DEFINE e == Meant!Ended(L)
               before == Meant!Joined(e, Cu + 1, at - 1)
               T == {Meant!Of(b, L) : b \in Meant!Blocks(L)}
    <3>1. e[at] = IF HasVersions THEN <<block>> ELSE << >>
      BY <2>3, <2>4, <2>5, <2>6, <2>7, EndedFacts
    <3>2. e \in Seq(Seq(T)) /\ Len(e) = Len(L)
      BY EndedFacts
    <3>3. block \in T
      BY <2>4, <2>6
    <3>4. versionDefinitions = before
      BY <1>1, <2>1 DEF InBlock, Pushed
    <3> HIDE DEF e, T
    <3>5. /\ Cu + 1 \in Nat \ {0} /\ Cu + 1 <= (at - 1) + 1 /\ at - 1 <= Len(e)
          /\ (at - 1) + 1 <= Len(e) /\ (at - 1) + 1 = at
      BY <1>1, <2>3, <3>2
    <3>6. before \in Seq(T) /\ Meant!Joined(e, Cu + 1, (at - 1) + 1) = before \o e[(at - 1) + 1]
      BY <2>3, <3>2, <3>5, JoinedFacts
    <3> HIDE DEF before
    <3>7. before \o << >> = before
      BY <3>6, ConcatEmptySeq
    <3>8. before \o <<block>> = Append(before, block)
      BY <3>3, <3>6, AppendIsConcat
    <3>9. CASE HasVersions
      BY <3>1, <3>4, <3>5, <3>6, <3>8, <3>9 DEF e
    <3>10. CASE ~HasVersions
      BY <3>1, <3>4, <3>5, <3>6, <3>7, <3>10 DEF e
    <3> QED
      BY <3>9, <3>10
  <2> QED
    BY <2>9, <2>10, <2>11 DEF block
<1> QED
  BY <1>2, <1>3
-----------------------------------------------------------------------------
(* A text that is thrown at is malformed.                                  *)
LEMMA ThrownRight ==
    ASSUME text' = text, pc' = "thrown", ~(schemas' > 0), Meant!Malformed(text, ValidTypes)
    PROVE  TextInv'
BY DEF TextInv, TextRead, SchemaOfBuild

LEMMA FirstLineText == ASSUME TypeOK, TextInv, ReadFirstLine PROVE TextInv'
<1>1. /\ pc = "first" /\ ~(schemas' > 0)
      /\ UNCHANGED <<text, at, columnDefinitions, accumulators, versionDefinitions>>
      /\ IF text.first THEN pc' = "columns" ELSE pc' = "thrown"
  BY DEF ReadFirstLine, TextInv, Throw
<1>2. CASE text.first
  <2>1. pc' = "columns" /\ at' = 0 /\ DOMAIN columnDefinitions' = {} /\ versionDefinitions' = << >>
    BY <1>1, <1>2 DEF TextInv
  <2>2. NothingHeld'
    BY <1>1 DEF TextInv, NothingHeld, accumulators
  <2>3. ColumnsRead(0)'
    BY <2>1 DEF ColumnsRead
  <2>4. text'.first /\ (at < Cu)'
    <3>1. Cu' = Cu /\ 0 < Cu
      BY <1>1, CuFacts DEF Cu, L
    <3> QED
      BY <1>1, <1>2, <2>1, <3>1
  <2> QED
    BY <1>1, <1>2, <2>1, <2>2, <2>3, <2>4 DEF TextInv, TextRead, SchemaOfBuild
<1>3. CASE ~text.first
  BY <1>1, <1>3, ThrownRight DEF Meant!Malformed
<1> QED
  BY <1>2, <1>3
(* The versions begin with a block of no lines.                            *)
LEMMA VersionsBegin ==
    ASSUME TypeOK, text' = text, text.first, NothingHeld, versionDefinitions = << >>,
           UNCHANGED <<columnDefinitions, accumulators, versionDefinitions>>,
           pc' = "versions", ~(schemas' > 0), ColumnsRead(Cu - 1),
           NEW m, at' = m, m = Cu \/ (m = Cu - 1 /\ m = Len(L))
    PROVE  TextInv'
<1>1. L' = L /\ Cu' = Cu /\ Cu \in Nat \ {0} /\ Len(L) \in Nat /\ m \in Nat
  BY CuFacts DEF L, Cu
<1>2. m + 1 \in Int /\ m < m + 1 /\ (m + 1) - 1 = m /\ m + 1 \in Cu..m + 1 /\ m + 1..m = {}
  BY <1>1
<1>3. m \notin Meant!Said(L)
  BY <1>1, <1>2, SaidFacts
<1>4. /\ builds' = << >> /\ buildRanges' = << >> /\ layoutHashes' = << >> /\ definitions' = << >>
      /\ comment' = FALSE /\ versionDefinitions' = << >>
  BY DEF NothingHeld, accumulators
<1>5. Pushed(m + 1)' = m
  BY <1>2 DEF Pushed
<1>6. Meant!Joined(Meant!Ended(L), Cu + 1, m) = << >>
  BY <1>1, JoinedNone
<1>7. \A k \in Meant!Said(L) : ~(k <= m)
  BY <1>1, SaidFacts
<1>8. \A b \in Meant!Blocks(L) : ~(b[2] <= m)
  BY <1>7, BlocksFacts
<1>9. ~Meant!Commented(L, <<m + 1, m>>)
  <2> DEFINE first == m + 1
  <2>1. first \in Int /\ m \in Int /\ m < first
    BY <1>1
  <2> HIDE DEF first
  <2>2. ~Meant!Commented(L, <<first, m>>)
    BY <2>1, CommentedMore
  <2> QED
    BY <2>2 DEF first
<1>10. /\ Meant!Joined(Meant!Builds(L), m + 1, m) = << >>
       /\ Meant!Joined(Meant!Ranges(L), m + 1, m) = << >>
       /\ Meant!Joined(Meant!Hashes(L), m + 1, m) = << >>
       /\ Meant!Joined(Meant!Defined(L), m + 1, m) = << >>
  BY <1>1, <1>2, JoinedNone
<1>11. InBlock(m + 1)'
  BY <1>1, <1>2, <1>3, <1>4, <1>5, <1>6, <1>7, <1>8, <1>9, <1>10 DEF InBlock
<1>12. (ColumnsRead(Cu - 1))'
  BY <1>1 DEF ColumnsRead
<1>13. (\E first \in Cu..at + 1 : InBlock(first))'
  BY <1>1, <1>2, <1>11
<1>14. (at >= Cu \/ (at = Cu - 1 /\ at = Len(L)))'
  BY <1>1
<1> QED
  BY <1>12, <1>13, <1>14 DEF TextInv, TextRead, SchemaOfBuild

LEMMA ColumnText == ASSUME TypeOK, TextInv, ReadColumn PROVE TextInv'
<1>1. /\ pc = "columns" /\ ~Eof /\ at' = at + 1 /\ ~(schemas' > 0)
      /\ UNCHANGED <<text, accumulators, versionDefinitions>>
      /\ text.first /\ at < Cu /\ ColumnsRead(at) /\ NothingHeld /\ versionDefinitions = << >>
  BY DEF ReadColumn, TextInv
<1>2. /\ Cu \in 1..Len(L) + 1 /\ Len(L) \in Nat /\ at \in Nat /\ at + 1 \in 1..Len(L) /\ Line = L[at + 1]
      /\ L' = L /\ Cu' = Cu
  <2>1. at \in 0..Len(L) /\ at # Len(L)
    BY <1>1 DEF TypeOK, Eof, L
  <2> QED
    BY <1>1, <2>1, CuFacts DEF Line, L, Cu
<1>3. CASE Line.kind = "blank"
  <2>1. pc' = "versions" /\ columnDefinitions' = columnDefinitions
    BY <1>3 DEF ReadColumn
  <2>2. Cu = at + 1
    <3>1. \A k \in 1..Cu - 1 : L[k].kind # "blank"
      BY CuFacts
    <3>2. at + 1 \notin 1..Cu - 1
      BY <1>2, <1>3, <3>1
    <3> QED
      BY <1>1, <1>2, <3>2
  <2>3. ColumnsRead(Cu - 1) /\ at' = Cu
    BY <1>1, <1>2, <2>2
  <2> QED
    BY <1>1, <2>1, <2>3, VersionsBegin
<1>4. CASE Line.kind # "blank"
  <2>1. at + 1 \in 1..Cu - 1 /\ at + 1 < Cu
    <3>1. at + 1 # Cu
      BY <1>2, <1>4, CuFacts
    <3> QED
      BY <1>1, <1>2, <3>1
  <2>2. CASE Line.kind # "column" \/ Line.type \notin ValidTypes \/ ColumnTaken(Line.name)
    <3>1. pc' = "thrown"
      BY <1>4, <2>2 DEF ReadColumn, Throw
    <3>2. ColumnTaken(Line.name) => \E j \in 1..at : L[j].name = Line.name
      BY <1>1 DEF ColumnTaken, ColumnsRead
    <3>3. 1..at = 1..(at + 1) - 1
      BY <1>2
    <3>4. \/ L[at + 1].kind # "column" \/ L[at + 1].type \notin ValidTypes
          \/ \E j \in 1..(at + 1) - 1 : L[j].name = L[at + 1].name
      BY <1>2, <2>2, <3>2, <3>3
    <3>5. Meant!Malformed(text, ValidTypes)
      BY <2>1, <3>4 DEF Meant!Malformed, L, Cu
    <3> QED
      BY <1>1, <3>1, <3>5, ThrownRight
  <2>3. CASE ~(Line.kind # "column" \/ Line.type \notin ValidTypes \/ ColumnTaken(Line.name))
    <3>1. /\ columnDefinitions' = [c \in DOMAIN columnDefinitions \union {Line.name} |->
                IF c = Line.name THEN Line.type ELSE columnDefinitions[c]]
          /\ pc' = "columns" /\ Line.name \notin DOMAIN columnDefinitions
      BY <1>1, <1>4, <2>3 DEF ReadColumn, ColumnTaken
    <3>2. ASSUME NEW k \in 1..at + 1
          PROVE  /\ L[k].kind = "column" /\ L[k].type \in ValidTypes
                 /\ L[k].name \in DOMAIN columnDefinitions' /\ columnDefinitions'[L[k].name] = L[k].type
      <4>1. CASE k = at + 1
        BY <1>2, <2>3, <3>1, <4>1
      <4>2. CASE k # at + 1
        <5>1. k \in 1..at
          BY <1>2, <4>2
        <5>2. /\ L[k].kind = "column" /\ L[k].type \in ValidTypes
              /\ L[k].name \in DOMAIN columnDefinitions /\ columnDefinitions[L[k].name] = L[k].type
          BY <1>1, <5>1 DEF ColumnsRead
        <5> QED
          BY <3>1, <5>2
      <4> QED
        BY <4>1, <4>2
    <3>3. ASSUME NEW c \in DOMAIN columnDefinitions' PROVE \E k \in 1..at + 1 : L[k].name = c
      <4>1. CASE c = Line.name
        BY <1>2, <4>1
      <4>2. CASE c # Line.name
        <5>1. c \in DOMAIN columnDefinitions
          BY <3>1, <4>2
        <5>2. PICK k \in 1..at : L[k].name = c
          BY <1>1, <5>1 DEF ColumnsRead
        <5>3. k \in 1..at + 1
          BY <1>2
        <5> QED
          BY <5>2, <5>3
      <4> QED
        BY <4>1, <4>2
    <3>4. ASSUME NEW k \in 1..at + 1, NEW j \in 1..k - 1 PROVE L[j].name # L[k].name
      <4>1. CASE k = at + 1
        <5>1. j \in 1..at
          BY <1>2, <4>1
        <5>2. L[j].name \in DOMAIN columnDefinitions
          BY <1>1, <5>1 DEF ColumnsRead
        <5> QED
          BY <1>2, <3>1, <4>1, <5>2
      <4>2. CASE k # at + 1
        <5>1. k \in 1..at
          BY <1>2, <4>2
        <5> QED
          BY <1>1, <5>1 DEF ColumnsRead
      <4> QED
        BY <4>1, <4>2
    <3>5. ColumnsRead(at)'
      BY <1>1, <1>2, <3>2, <3>3, <3>4 DEF ColumnsRead
    <3>6. NothingHeld' /\ versionDefinitions' = << >> /\ text'.first /\ (at < Cu)'
      BY <1>1, <1>2, <2>1 DEF NothingHeld, accumulators
    <3> QED
      BY <1>1, <3>1, <3>5, <3>6 DEF TextInv, TextRead, SchemaOfBuild
  <2> QED
    BY <2>2, <2>3
<1> QED
  BY <1>3, <1>4

LEMMA ColumnsEndText == ASSUME TypeOK, TextInv, ColumnsEnd PROVE TextInv'
<1>1. /\ pc = "columns" /\ Eof /\ at' = at /\ ~(schemas' > 0) /\ pc' = "versions"
      /\ UNCHANGED <<text, columnDefinitions, accumulators, versionDefinitions>>
      /\ text.first /\ at < Cu /\ ColumnsRead(at) /\ NothingHeld /\ versionDefinitions = << >>
  BY DEF ColumnsEnd, TextInv
<1>2. at = Len(L) /\ at = Cu - 1
  BY <1>1, CuFacts DEF Eof, L
<1> QED
  BY <1>1, <1>2, VersionsBegin
LEMMA NotMalformed ==
    ASSUME TypeOK, text.first, ColumnsRead(Cu - 1), \A k \in Meant!Said(L) : LineRight(k),
           \A b \in Meant!Blocks(L) : BlockRight(b)
    PROVE  ~Meant!Malformed(text, ValidTypes)
<1>1. \A k \in 1..Cu - 1 : /\ L[k].kind = "column" /\ L[k].type \in ValidTypes
                           /\ \A j \in 1..k - 1 : L[j].name # L[k].name
  BY DEF ColumnsRead
<1>2. ASSUME NEW k \in Meant!Said(L)
      PROVE  /\ L[k].kind \notin {"bad", "column"}
             /\ ~(L[k].kind = "definition" /\ \A j \in 1..Cu - 1 : L[j].name # L[k].name)
  BY DEF LineRight, ColumnsRead
<1>3. ASSUME NEW b \in Meant!Blocks(L)
      PROVE  ~(/\ ~Meant!Versioned(Meant!Of(b, L))
               /\ Meant!Of(b, L).definitions # << >> \/ Meant!Commented(L, b))
  BY DEF BlockRight
<1> QED
  BY <1>1, <1>2, <1>3 DEF Meant!Malformed, L, Cu

(* A line of a block that is not bad.                                      *)
LEMMA GoodLine ==
    ASSUME TypeOK, TextInv, NEW first \in Cu..at + 1, InBlock(first), at + 1 \in Meant!Said(L),
           LineRight(at + 1), pc = "versions", pc' = pc, at' = at + 1, schemas' = schemas,
           UNCHANGED <<text, columnDefinitions, versionDefinitions>>,
           builds' = builds \o Meant!Builds(L)[at + 1],
           buildRanges' = buildRanges \o Meant!Ranges(L)[at + 1],
           layoutHashes' = layoutHashes \o Meant!Hashes(L)[at + 1],
           definitions' = definitions \o Meant!Defined(L)[at + 1],
           comment' <=> IF L[at + 1].kind = "comment" THEN L[at + 1].text ELSE comment
    PROVE  TextInv'
<1> DEFINE m == at + 1
<1>1. /\ at \in Nat /\ first \in Nat \ {0} /\ first <= m /\ m <= Len(L)
      /\ Cu + 1 <= m /\ Cu \in Nat \ {0} /\ Len(L) \in Nat
      /\ first..m \subseteq Meant!Said(L) /\ m \in Nat
  BY LineOfBlock, CuFacts
<1>2. L' = L /\ Cu' = Cu /\ at' = m
  BY DEF L, Cu
<1>3. first \in Cu..m + 1 /\ first \in Cu..m
  BY <1>1
<1>4. m - 1 = at
  BY <1>1
<1>5. /\ Meant!Joined(Meant!Builds(L), first, m) = builds'
      /\ Meant!Joined(Meant!Ranges(L), first, m) = buildRanges'
      /\ Meant!Joined(Meant!Hashes(L), first, m) = layoutHashes'
      /\ Meant!Joined(Meant!Defined(L), first, m) = definitions'
      /\ Meant!Commented(L, <<first, m>>) <=> comment'
      /\ versionDefinitions' = Meant!Joined(Meant!Ended(L), Cu + 1, at)
      /\ \A b \in Meant!Blocks(L) : b[2] <= at => BlockRight(b)
  BY OneLineMore
<1>6. ASSUME NEW k \in Meant!Said(L), k <= m PROVE LineRight(k)
  <2>1. k \in Int /\ (k = m \/ k <= at)
    BY <1>1, <1>6, SaidFacts
  <2> HIDE DEF m
  <2> QED
    BY <2>1 DEF InBlock, m
<1> HIDE DEF m
<1>7. Pushed(first)' = at
  BY <1>1, <1>2, <1>4 DEF Pushed
<1>8. \A k : LineRight(k)' <=> LineRight(k)
  BY <1>2 DEF LineRight
<1>9. \A b : BlockRight(b)' <=> BlockRight(b)
  BY <1>2 DEF BlockRight
<1>10. (first - 1 \notin Meant!Said(L))' /\ (first..at \subseteq Meant!Said(L))'
  BY <1>1, <1>2 DEF InBlock
<1>11. InBlock(first)'
  BY <1>1, <1>2, <1>5, <1>6, <1>7, <1>8, <1>9, <1>10 DEF InBlock
<1>12. (\E f \in Cu..at + 1 : InBlock(f))'
  BY <1>2, <1>3, <1>11
<1>13. (ColumnsRead(Cu - 1))' /\ text'.first
  BY <1>2 DEF ColumnsRead, TextInv
<1>14. (at >= Cu \/ (at = Cu - 1 /\ at = Len(L)))'
  BY <1>1, <1>2
<1>15. ~(schemas' > 0)
  BY DEF TextInv
<1> QED
  BY <1>12, <1>13, <1>14, <1>15 DEF TextInv, TextRead, SchemaOfBuild

(* The end of a block.                                                     *)
LEMMA PushText ==
    ASSUME TypeOK, TextInv, pc = "versions", NEW next \in {"versions", "done"}, TryPush(next),
           at + 1 \notin Meant!Said(L), UNCHANGED <<text, columnDefinitions, schemas>>,
           IF next = "done" THEN at = Len(L) /\ at' = at ELSE at < Len(L) /\ at' = at + 1
    PROVE  TextInv'
<1> DEFINE block == [builds |-> builds, buildRanges |-> buildRanges,
                     layoutHashes |-> layoutHashes, definitions |-> definitions]
<1>1. PICK first \in Cu..at + 1 : InBlock(first)
  BY DEF TextInv
<1>2. /\ text.first /\ ColumnsRead(Cu - 1)
      /\ at >= Cu \/ (at = Cu - 1 /\ at = Len(L))
      /\ ~(schemas' > 0)
  BY DEF TextInv
<1>3. /\ Cu \in Nat \ {0} /\ Len(L) \in Nat /\ at \in Nat /\ at <= Len(L) /\ Cu - 1 <= at
      /\ L' = L /\ Cu' = Cu
  <2>1. Cu \in 1..Len(L) + 1 /\ Len(L) \in Nat /\ at \in 0..Len(L)
    BY CuFacts DEF TypeOK, L
  <2> QED
    BY <1>2, <2>1 DEF L, Cu
<1>4. CASE ~HasVersions /\ (definitions # << >> \/ comment)
  <2>1. pc' = "thrown"
    BY <1>4 DEF TryPush, Throw
  <2>2. Meant!Malformed(text, ValidTypes)
    BY <1>1, <1>3, <1>4, BlockEnds
  <2> QED
    BY <1>2, <2>1, <2>2, ThrownRight
<1>5. CASE ~(~HasVersions /\ (definitions # << >> \/ comment))
  <2>1. /\ pc' = next /\ ClearAccumulators
        /\ versionDefinitions' = IF HasVersions THEN Append(versionDefinitions, block)
                                                ELSE versionDefinitions
    BY <1>5 DEF TryPush
  <2> HIDE DEF block
  <2>2. /\ versionDefinitions' = Meant!Joined(Meant!Ended(L), Cu + 1, at)
        /\ \A b \in Meant!Blocks(L) : b[2] <= at => BlockRight(b)
    <3>1. HasVersions \/ (definitions = << >> /\ ~comment)
      BY <1>5
    <3> QED
      BY <1>1, <1>3, <2>1, <3>1, BlockEnds DEF block
  <2>3. \A k \in Meant!Said(L) : k <= at => LineRight(k)
    BY <1>1 DEF InBlock
  <2>4. CASE next = "done"
    <3>1. at = Len(L) /\ at' = at /\ pc' = "done"
      BY <2>1, <2>4
    <3>2. ASSUME NEW k \in Meant!Said(L) PROVE k <= at
      BY <1>3, <3>1, SaidFacts
    <3>3. ~Meant!Malformed(text, ValidTypes)
      <4>1. ASSUME NEW b \in Meant!Blocks(L) PROVE b[2] <= at
        BY <3>2, BlocksFacts
      <4> QED
        BY <1>2, <2>2, <2>3, <3>2, <4>1, NotMalformed
    <3>4. versionDefinitions' = Meant!Meaning(text)
      BY <2>2, <3>1 DEF Meant!Meaning, L, Cu
    <3>5. (ColumnsRead(Cu - 1))'
      BY <1>2, <1>3 DEF ColumnsRead
    <3> QED
      BY <1>2, <3>1, <3>3, <3>4, <3>5 DEF TextInv, TextRead, SchemaOfBuild
  <2>5. CASE next = "versions"
    <3>m. PICK m : m = at + 1
      OBVIOUS
    <3>f. PICK f : f = m + 1
      OBVIOUS
    <3>1. at < Len(L) /\ at' = m /\ pc' = "versions" /\ Cu <= at /\ m \in 1..Len(L) /\ m - 1 = at
      BY <1>2, <1>3, <2>1, <2>5, <3>m
    <3>2. f \in Int /\ m \in Int /\ m < f /\ f - 1 = m /\ f \in Cu..m + 1 /\ f..m = {}
      BY <1>3, <3>f, <3>1
    <3>3. \A b \in Meant!Blocks(L) : b[2] # m
      BY <3>m, BlocksFacts
    <3>4. versionDefinitions' = Meant!Joined(Meant!Ended(L), Cu + 1, m)
      <4> DEFINE e == Meant!Ended(L)
                 T == {Meant!Of(b, L) : b \in Meant!Blocks(L)}
      <4>1. e[m] = << >>
        BY <3>1, <3>3, EndedFacts
      <4>2. e \in Seq(Seq(T)) /\ Len(e) = Len(L)
        BY EndedFacts
      <4> HIDE DEF e, T
      <4>3. Cu + 1 \in Nat \ {0} /\ Cu + 1 <= at + 1 /\ at <= Len(e) /\ at + 1 <= Len(e)
        BY <1>3, <3>1, <4>2
      <4>4. /\ Meant!Joined(e, Cu + 1, at) \in Seq(T)
            /\ Meant!Joined(e, Cu + 1, m) = Meant!Joined(e, Cu + 1, at) \o e[m]
        BY <1>3, <3>m, <4>2, <4>3, JoinedFacts
      <4>5. Meant!Joined(e, Cu + 1, m) = Meant!Joined(e, Cu + 1, at)
        BY <4>1, <4>4, ConcatEmptySeq
      <4> QED
        BY <2>2, <4>5 DEF e
    <3>5. ASSUME NEW k \in Meant!Said(L), k <= m PROVE LineRight(k)
      <4>1. k \in Int /\ k # m
        BY <3>m, <3>5, SaidFacts
      <4>2. k <= at
        BY <1>3, <3>m, <3>5, <4>1
      <4> QED
        BY <2>3, <4>2
    <3>6. ASSUME NEW b \in Meant!Blocks(L), b[2] <= m PROVE BlockRight(b)
      <4> DEFINE z == b[2]
      <4>1. z \in Int /\ z # m /\ z <= m
        BY <3>3, <3>6, SaidFacts, BlocksFacts
      <4> HIDE DEF z
      <4>2. z <= at
        BY <1>3, <3>m, <4>1
      <4> QED
        BY <2>2, <4>2 DEF z
    <3>7. ~Meant!Commented(L, <<f, m>>)
      BY <3>2, CommentedMore
    <3>8. /\ Meant!Joined(Meant!Builds(L), f, m) = << >>
          /\ Meant!Joined(Meant!Ranges(L), f, m) = << >>
          /\ Meant!Joined(Meant!Hashes(L), f, m) = << >>
          /\ Meant!Joined(Meant!Defined(L), f, m) = << >>
      BY <3>2, JoinedNone
    <3>9. Pushed(f)' = m
      BY <3>1, <3>2 DEF Pushed
    <3>10. m \notin Meant!Said(L)
      BY <3>m
    <3>11. \A k : LineRight(k)' <=> LineRight(k)
      BY <1>3 DEF LineRight
    <3>12. \A b : BlockRight(b)' <=> BlockRight(b)
      BY <1>3 DEF BlockRight
    <3>13. InBlock(f)'
      BY <1>3, <2>1, <3>1, <3>2, <3>4, <3>5, <3>6, <3>7, <3>8, <3>9, <3>10, <3>11, <3>12
      DEF InBlock, ClearAccumulators
    <3>14. (\E g \in Cu..at + 1 : InBlock(g))'
      BY <1>3, <3>1, <3>2, <3>13
    <3>15. (ColumnsRead(Cu - 1))' /\ text'.first
      BY <1>2, <1>3 DEF ColumnsRead
    <3>16. (at >= Cu \/ (at = Cu - 1 /\ at = Len(L)))'
      BY <1>3, <3>1
    <3> QED
      BY <1>2, <3>1, <3>14, <3>15, <3>16 DEF TextInv, TextRead, SchemaOfBuild
  <2> QED
    BY <2>4, <2>5
<1> QED
  BY <1>4, <1>5
LEMMA VersionLineText == ASSUME TypeOK, TextInv, ReadVersionLine PROVE TextInv'
<1>1. /\ pc = "versions" /\ ~Eof /\ at' = at + 1 /\ ~(schemas > 0) /\ schemas' = schemas
      /\ UNCHANGED <<text, columnDefinitions>>
      /\ text.first /\ ColumnsRead(Cu - 1)
      /\ at >= Cu \/ (at = Cu - 1 /\ at = Len(L))
  BY DEF ReadVersionLine, TextInv
<1>2. PICK first \in Cu..at + 1 : InBlock(first)
  BY <1>1 DEF TextInv
<1>3. /\ Cu \in Nat \ {0} /\ Len(L) \in Nat /\ at \in Nat /\ at < Len(L) /\ Cu <= at
      /\ Line = L[at + 1]
  <2>1. Cu \in 1..Len(L) + 1 /\ Len(L) \in Nat /\ at \in 0..Len(L) /\ at # Len(L)
    BY <1>1, CuFacts DEF TypeOK, Eof, L
  <2> QED
    BY <1>1, <2>1 DEF Line, L
<1>4. Line \in Lines
  BY <1>1, LineFacts
<1>5. at + 1 \in Meant!Said(L) <=> Line.kind # "blank"
  BY <1>3, SaidFacts
<1>6. CASE Line.kind = "blank" /\ TryPush("versions")
  BY <1>1, <1>3, <1>5, <1>6, PushText
<1>7. CASE /\ Line.kind \in {"bad", "column"} \/ (Line.kind = "definition" /\ ~ColumnKnown(Line.name))
           /\ Throw
  <2>1. at + 1 \in Meant!Said(L)
    BY <1>5, <1>7
  <2>2. \/ Line.kind \in {"bad", "column"}
        \/ Line.kind = "definition" /\ \A j \in 1..Cu - 1 : L[j].name # Line.name
    BY <1>1, <1>7 DEF ColumnKnown, ColumnsRead
  <2>3. Meant!Malformed(text, ValidTypes)
    BY <1>3, <1>7, <2>1, <2>2 DEF Meant!Malformed, L, Cu
  <2> QED
    BY <1>1, <1>7, <2>3, ThrownRight DEF Throw
<1>8. /\ Meant!Builds(L)[at + 1] = IF Line.kind = "build" THEN Line.builds ELSE << >>
      /\ Meant!Ranges(L)[at + 1] = IF Line.kind = "build" THEN Line.ranges ELSE << >>
      /\ Meant!Hashes(L)[at + 1] = IF Line.kind = "layout" THEN Line.hashes ELSE << >>
      /\ Meant!Defined(L)[at + 1] = IF Line.kind = "definition" THEN <<Line>> ELSE << >>
  <2>1. at + 1 \in 1..Len(L)
    BY <1>3
  <2> QED
    BY <1>3, <2>1 DEF Meant!Builds, Meant!Ranges, Meant!Hashes, Meant!Defined
<1>9. /\ builds \o << >> = builds /\ buildRanges \o << >> = buildRanges
      /\ layoutHashes \o << >> = layoutHashes /\ definitions \o << >> = definitions
  BY ConcatEmptySeq DEF TypeOK
<1>10. CASE /\ Line.kind = "layout" /\ layoutHashes' = layoutHashes \o Line.hashes
            /\ UNCHANGED <<pc, definitions, comment, builds, buildRanges, versionDefinitions>>
  <2>1. LineRight(at + 1) /\ at + 1 \in Meant!Said(L)
    BY <1>3, <1>5, <1>10 DEF LineRight
  <2> QED
    BY <1>1, <1>2, <1>3, <1>8, <1>9, <1>10, <2>1, GoodLine
<1>11. CASE /\ Line.kind = "build" /\ builds' = builds \o Line.builds
            /\ buildRanges' = buildRanges \o Line.ranges
            /\ UNCHANGED <<pc, definitions, layoutHashes, comment, versionDefinitions>>
  <2>1. LineRight(at + 1) /\ at + 1 \in Meant!Said(L)
    BY <1>3, <1>5, <1>11 DEF LineRight
  <2> QED
    BY <1>1, <1>2, <1>3, <1>8, <1>9, <1>11, <2>1, GoodLine
<1>12. CASE /\ Line.kind = "comment" /\ comment' = Line.text
            /\ UNCHANGED <<pc, definitions, layoutHashes, builds, buildRanges, versionDefinitions>>
  <2>1. LineRight(at + 1) /\ at + 1 \in Meant!Said(L)
    BY <1>3, <1>5, <1>12 DEF LineRight
  <2> QED
    BY <1>1, <1>2, <1>3, <1>8, <1>9, <1>12, <2>1, GoodLine
<1>13. CASE /\ Line.kind = "definition" /\ ColumnKnown(Line.name)
            /\ definitions' = Append(definitions, Line)
            /\ UNCHANGED <<pc, layoutHashes, comment, builds, buildRanges, versionDefinitions>>
  <2>1. LineRight(at + 1) /\ at + 1 \in Meant!Said(L)
    BY <1>3, <1>5, <1>13 DEF LineRight, ColumnKnown
  <2>2. definitions' = definitions \o <<Line>>
    <3>1. definitions \in Seq(Definitions) /\ Line \in Definitions
      BY <1>1, <1>13, LineFacts DEF TypeOK
    <3> QED
      BY <1>13, <3>1, AppendIsConcat
  <2> QED
    BY <1>1, <1>2, <1>3, <1>8, <1>9, <1>13, <2>1, <2>2, GoodLine
<1> QED
  BY <1>6, <1>7, <1>10, <1>11, <1>12, <1>13 DEF ReadVersionLine

LEMMA FinishText == ASSUME TypeOK, TextInv, FinishRead PROVE TextInv'
<1>1. /\ pc = "versions" /\ Eof /\ TryPush("done")
      /\ UNCHANGED <<text, at, columnDefinitions, schemas>>
  BY DEF FinishRead
<1>2. at = Len(L) /\ Len(L) \in Nat
  BY <1>1, CuFacts DEF Eof, L
<1>3. at + 1 \notin Meant!Said(L)
  BY <1>2, SaidFacts
<1> QED
  BY <1>1, <1>2, <1>3, PushText

(* The first block that lists the build is the one that is chosen, and its *)
(* columns are those of the text.                                          *)
LEMMA SchemaIsMeant ==
    ASSUME ResolvedInv, TextInv, pc = "done", NEW build, MakeSchema(build)
    PROVE  schema' = Meant!SchemaFor(text, build)
<1> DEFINE matching == {v \in 1..Len(versionDefinitions) : Matched(versionDefinitions[v], build)}
           columns == 1..Cu - 1
           Column(name) == CHOOSE k \in columns : L[k].name = name
           Lists(b) ==
              \/ build \in Meant!Range(b.builds)
              \/ \E r \in Meant!Range(b.buildRanges) : r[1] <= build /\ build <= r[2]
           I == {v \in 1..Len(versionDefinitions) : Lists(versionDefinitions[v])}
           chosen == IF I # {} THEN CHOOSE v \in I : \A w \in I : v <= w ELSE 0
           fields == versionDefinitions[chosen].definitions
<1>1. versionDefinitions = Meant!Meaning(text) /\ ColumnsRead(Cu - 1)
  BY DEF TextInv, TextRead
<1>2. Meant!SchemaFor(text, build) =
        IF chosen = 0 THEN "nullopt"
        ELSE [k \in DOMAIN fields |->
                LET type == L[Column(fields[k].name)].type
                IN  [name |-> fields[k].name, type |-> type,
                     bytes |-> IF type = "int" THEN fields[k].size \div 8 ELSE 0,
                     size |-> IF fields[k].arrLength = 0 THEN 1 ELSE fields[k].arrLength,
                     isId |-> fields[k].isID, isRelation |-> fields[k].isRelation,
                     isInline |-> ~fields[k].isNonInline]]
  BY <1>1 DEF Meant!SchemaFor, Meant!SelectInSeq, Meant!Min, L, Cu
<1>3. versionDefinitions \in Seq(VersionDefs)
  BY DEF ResolvedInv, TypeOK
<1>4. ASSUME NEW v \in 1..Len(versionDefinitions)
      PROVE  Matched(versionDefinitions[v], build) <=> Lists(versionDefinitions[v])
  <2> DEFINE b == versionDefinitions[v]
  <2>1. b \in VersionDefs
    BY <1>3, ElementOfSeq
  <2> HIDE DEF b
  <2>2. b.builds \in Seq(Int) /\ b.buildRanges \in Seq(Int \X Int)
    BY <2>1 DEF VersionDefs
  <2>3. /\ DOMAIN b.builds = 1..Len(b.builds)
        /\ DOMAIN b.buildRanges = 1..Len(b.buildRanges)
    BY <2>2
  <2>4. (\E k \in 1..Len(b.builds) : b.builds[k] = build) <=> build \in Meant!Range(b.builds)
    BY <2>3 DEF Meant!Range
  <2>5. (\E k \in 1..Len(b.buildRanges) : Contains(b.buildRanges[k], build))
        <=> \E r \in Meant!Range(b.buildRanges) : r[1] <= build /\ build <= r[2]
    <3>1. \A r : Contains(r, build) <=> r[1] <= build /\ build <= r[2]
      BY DEF Contains
    <3> QED
      BY <2>3, <3>1 DEF Meant!Range
  <2>6. Matched(b, build) <=> Lists(b)
    BY <2>4, <2>5 DEF Matched
  <2> QED
    BY <2>6 DEF b
<1>5. matching = I
  <2> HIDE DEF Lists
  <2> QED
    BY <1>4
<1>6. schema' = IF matching = {} THEN Nothing
                ELSE BuildSchema(versionDefinitions[FirstOf(matching)].definitions)
  BY DEF MakeSchema
<1>7. CASE I = {}
  BY <1>2, <1>5, <1>6, <1>7 DEF Nothing
<1>8. CASE I # {}
  <2>1. I \subseteq 1..Len(versionDefinitions) /\ I \subseteq Nat
    OBVIOUS
  <2>2. chosen = FirstOf(I)
    BY <1>8 DEF FirstOf
  <2>3. chosen \in I
    <3> HIDE DEF I
    <3>1. \E v \in I : \A w \in I : v <= w
      BY <1>8, <2>1, LeastNatural
    <3> QED
      BY <1>8, <3>1
  <2> HIDE DEF I, chosen
  <2>4. chosen \in 1..Len(versionDefinitions) /\ chosen # 0
    BY <2>1, <2>3
  <2>5. schema' = BuildSchema(fields)
    BY <1>5, <1>6, <1>8, <2>2
  <2>6. fields \in Seq(Definitions)
    <3>1. versionDefinitions[chosen] \in VersionDefs
      BY <1>3, <2>4, ElementOfSeq
    <3> QED
      BY <3>1 DEF VersionDefs
  <2>7. \A k \in 1..Len(fields) : fields[k].name \in DOMAIN columnDefinitions
    BY <2>4 DEF ResolvedInv, ColumnsResolve
  <2> HIDE DEF fields
  <2>8. ASSUME NEW k \in 1..Len(fields)
        PROVE  FieldOf(fields[k]) =
                 LET type == L[Column(fields[k].name)].type
                 IN  [name |-> fields[k].name, type |-> type,
                      bytes |-> IF type = "int" THEN fields[k].size \div 8 ELSE 0,
                      size |-> IF fields[k].arrLength = 0 THEN 1 ELSE fields[k].arrLength,
                      isId |-> fields[k].isID, isRelation |-> fields[k].isRelation,
                      isInline |-> ~fields[k].isNonInline]
    <3> DEFINE def == fields[k]
               c == Column(def.name)
    <3>1. def \in Definitions
      BY <2>6, ElementOfSeq
    <3>2. def.arrLength \in Nat
      <4>1. def.arrLength \in 0..MaxArray
        BY <3>1 DEF Definitions
      <4>2. \A i \in 0..MaxArray : i \in Nat
        BY DEF MaxArray
      <4> HIDE DEF def
      <4> QED
        BY <4>1, <4>2
    <3>3. c \in columns /\ L[c].name = def.name
      <4>1. \E j \in columns : L[j].name = def.name
        BY <1>1, <2>7 DEF ColumnsRead
      <4> HIDE DEF def
      <4> QED
        BY <4>1
    <3> HIDE DEF c
    <3>4. columnDefinitions[def.name] = L[c].type
      BY <1>1, <3>3 DEF ColumnsRead
    <3>5. (IF def.arrLength > 1 THEN def.arrLength ELSE 1)
            = (IF def.arrLength = 0 THEN 1 ELSE def.arrLength)
      <4> HIDE DEF def
      <4> QED
        BY <3>2
    <3> HIDE DEF def
    <3>6. FieldOf(def) =
            [name |-> def.name, type |-> L[c].type,
             bytes |-> IF L[c].type = "int" THEN def.size \div 8 ELSE 0,
             size |-> IF def.arrLength = 0 THEN 1 ELSE def.arrLength,
             isId |-> def.isID, isRelation |-> def.isRelation, isInline |-> ~def.isNonInline]
      BY <3>4, <3>5 DEF FieldOf
    <3> QED
      BY <3>6 DEF def, c
  <2>9. DOMAIN fields = 1..Len(fields)
    BY <2>6
  <2> QED
    BY <1>2, <2>4, <2>5, <2>8, <2>9 DEF BuildSchema
<1> QED
  BY <1>7, <1>8

LEMMA TextInit == ASSUME Init PROVE TextInv
BY DEF Init, TextInv, NothingHeld, TextRead, SchemaOfBuild

LEMMA TextStep == SchemaInv /\ TextInv /\ [Next]_vars => TextInv'
<1> SUFFICES ASSUME SchemaInv, TextInv, [Next]_vars PROVE TextInv'
  OBVIOUS
<1>1. ResolvedInv /\ TypeOK /\ schemas \in Nat
  BY DEF SchemaInv, ResolvedInv, SchemaMade
<1>2. CASE ReadFirstLine
  BY <1>1, <1>2, FirstLineText
<1>3. CASE ReadColumn
  BY <1>1, <1>3, ColumnText
<1>4. CASE ColumnsEnd
  BY <1>1, <1>4, ColumnsEndText
<1>5. CASE ReadVersionLine
  BY <1>1, <1>5, VersionLineText
<1>6. CASE FinishRead
  BY <1>1, <1>6, FinishText
<1>7. CASE \E build \in Versions : MakeSchema(build)
  <2>1. PICK build \in Versions : MakeSchema(build)
    BY <1>7
  <2>2. /\ pc = "done" /\ pc' = pc /\ target' = build
        /\ UNCHANGED <<text, columnDefinitions, versionDefinitions>>
    BY <2>1 DEF MakeSchema
  <2>3. schema' = Meant!SchemaFor(text, build)
    BY <1>1, <2>1, <2>2, SchemaIsMeant
  <2>4. SchemaOfBuild'
    BY <2>2, <2>3 DEF SchemaOfBuild
  <2>5. TextRead'
    BY <2>2 DEF TextInv, TextRead
  <2>6. (ColumnsRead(Cu - 1))'
    BY <2>2 DEF TextInv, ColumnsRead, Cu, L
  <2> QED
    BY <2>2, <2>4, <2>5, <2>6 DEF TextInv
<1>8. CASE UNCHANGED vars
  BY <1>8 DEF TextInv, TextRead, SchemaOfBuild, NothingHeld, ColumnsRead, InBlock, Pushed,
              LineRight, BlockRight, L, Cu, vars, accumulators
<1> QED
  BY <1>2, <1>3, <1>4, <1>5, <1>6, <1>7, <1>8 DEF Next, ReadStep

(* A text that is read gives its versioned blocks, in order and each with  *)
(* all that its own lines say, and a text is thrown at if and only if it   *)
(* is malformed.                                                           *)
THEOREM ReadsWhatIsMeant == Spec => []TextRead
<1>1. Init => SchemaInv /\ TextInv
  BY SchemaInit, TextInit
<1>2. SchemaInv /\ TextInv /\ [Next]_vars => (SchemaInv /\ TextInv)'
  BY SchemaStep, TextStep
<1>3. SchemaInv /\ TextInv => TextRead
  BY DEF TextInv
<1> QED
  BY <1>1, <1>2, <1>3, PTL DEF Spec

(* The schema of a build is the one of the first block of the text that    *)
(* lists it, with the types of the text's columns.                         *)
THEOREM FirstBlockThatLists == Spec => []SchemaOfBuild
<1>1. Init => SchemaInv /\ TextInv
  BY SchemaInit, TextInit
<1>2. SchemaInv /\ TextInv /\ [Next]_vars => (SchemaInv /\ TextInv)'
  BY SchemaStep, TextStep
<1>3. SchemaInv /\ TextInv => SchemaOfBuild
  BY DEF TextInv
<1> QED
  BY <1>1, <1>2, <1>3, PTL DEF Spec
=============================================================================
