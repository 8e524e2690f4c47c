----------------------------- MODULE SchemaGen -----------------------------
(***************************************************************************)
(* schema_gen (apps/schema_gen/main.cpp): the struct written for a schema  *)
(* that makeSchema of DBDefs has made, with a static schema of its own,    *)
(* and what the compiler makes of both.                                    *)
(*                                                                         *)
(* A field is [type, bytes, size, isId, isRelation, isInline], see DBDefs. *)
(* The text, the names of the members and whether two of them are one are  *)
(* left out, and so is the sign: Annotation's == does not compare it, and  *)
(* every integer is written as an unsigned one.                            *)
(***************************************************************************)
EXTENDS DBDefs

\* db_format: any other text counts as "DB2".
Formats == {"DBC_VANILLA", "DBC_BC_WOTLK", "DBC_CATA_PLUS", "DB2"}

PointerBytes == 8   \* of a string_data_t

\* stringCount of DBCLangString<version>; one in what stands for CATA_PLUS.
StringCount(version) ==
    CASE version = "DBC_VANILLA" -> 8 [] version = "DBC_BC_WOTLK" -> 16 [] OTHER -> 1

\* The struct DBCLangString<version>, packed: its strings, and behind them the
\* 32 bits of flags that only the one for CATA_PLUS does without.
LangStringStruct(version) ==
    StringCount(version) * PointerBytes + (IF version = "DBC_CATA_PLUS" THEN 0 ELSE 4)

\* "[size]" behind the member's name, if it is an array.
Extent(field) == IF field.size > 1 THEN field.size ELSE 0

\* The type written for a localized string: a DBCLangString if there is a
\* version of DBC, else a string_data_t.
LangStringMember(format) ==
    IF format = "DB2" THEN [of |-> "string", bytes |-> PointerBytes]
    ELSE [of |-> "langString", bytes |-> LangStringStruct(format)]

\* write_data_section: the type of a field's member.
MemberType(field, format) ==
    CASE field.type = "int"    -> [of |-> "uint", bytes |-> field.bytes]
      [] field.type = "float"  -> [of |-> "float", bytes |-> 4]
      [] field.type = "string" -> [of |-> "string", bytes |-> PointerBytes]
      [] OTHER                 -> LangStringMember(format)

Member(field, format) ==
    [of |-> MemberType(field, format).of, bytes |-> MemberType(field, format).bytes,
     extent |-> Extent(field)]

Elements(member) == IF member.extent = 0 THEN 1 ELSE member.extent

SizeOf(member) == member.bytes * Elements(member)

\* The sum of a list of sizes.
Total(sizes) ==
    LET upTo[k \in 0..Len(sizes)] == IF k = 0 THEN 0 ELSE upTo[k - 1] + sizes[k]
    IN  upTo[Len(sizes)]

\* sizeof(data), packed; a struct without members has a byte.
SizeOfData(fields, format) ==
    IF fields = << >> THEN 1
    ELSE Total([k \in 1..Len(fields) |-> SizeOf(Member(fields[k], format))])

\* annotate_str: nothing for the default, or what differs from it.
Annotated(field) ==
    [isId |-> field.isId, isRelation |-> field.isRelation, isInline |-> field.isInline]

DefaultAnnotation == [isId |-> FALSE, isRelation |-> FALSE, isInline |-> TRUE]

\* The constructor of Field.
NewField(type, bytes, size, annotation) ==
    [type |-> type, bytes |-> bytes, size |-> size, isId |-> annotation.isId,
     isRelation |-> annotation.isRelation, isInline |-> annotation.isInline]

\* Field::value<decltype(data.member)>(annotation): integer, floatingPoint and
\* their arrays; the bytes of an element are the member's, divided.
ValueOfMember(member, annotation) ==
    NewField(IF member.of = "uint" THEN "int" ELSE "float",
             SizeOf(member) \div Elements(member), Elements(member), annotation)

\* Field::string and Field::langString, with a size if it is not 1 or there is
\* an annotation behind it.
StringField(type, size, annotation) ==
    NewField(type, PointerBytes,
             IF annotation # DefaultAnnotation \/ size > 1 THEN size ELSE 1, annotation)

\* write_schema_section, for one field.
StaticField(field, format) ==
    IF field.type \in {"int", "float"}
    THEN ValueOfMember(Member(field, format), Annotated(field))
    ELSE StringField(field.type, field.size, Annotated(field))

\* The arguments of Schema(), each with whether a comma is written behind it.
Arguments(fields, format) ==
    [k \in 1..Len(fields) |->
        [field |-> StaticField(fields[k], format), comma |-> k - 1 # Len(fields) - 1]]

\* What recordSize takes for a localized string: DBCFormat the packed struct of
\* the version it is asked for, DB2Format a string_data_t.
LangStringSize ==
    [DBC_VANILLA |-> 68, DBC_BC_WOTLK |-> 132, DBC_CATA_PLUS |-> 8, DB2 |-> 8]

\* Mutant: DBCFormat takes a localized string for a string.
StringSizeOnly(field, format) == field.size * field.bytes

\* A field's part of recordSizeDest.
SizeDest(field, format) ==
    field.size * (IF field.type = "locstring" THEN LangStringSize[format] ELSE field.bytes)

\* recordSizeDest of DBCFormat and DB2Format.
RecordSizeDest(fields, format) ==
    Total([k \in 1..Len(fields) |-> SizeDest(fields[k], format)])

\* The static_assert at the end of the struct.
Asserted(fields, format) ==
    LET arguments == Arguments(fields, format)
    IN  RecordSizeDest([k \in 1..Len(fields) |-> arguments[k].field], format)
            = SizeOfData(fields, format)

\* Every integer is as wide as one of the types uint8_t to uint64_t.
Compiles(fields) ==
    \A k \in 1..Len(fields) : fields[k].type = "int" => fields[k].bytes \in {1, 2, 4, 8}
-----------------------------------------------------------------------------
\* A block lists the build.
Found == \E v \in 1..Len(versionDefinitions) : Matched(versionDefinitions[v], target)

\* What Field's == compares.
Compared(field) ==
    [type |-> field.type,
     bytes |-> CASE field.type = "int" -> field.bytes [] field.type = "float" -> 4
                 [] OTHER -> PointerBytes,
     size |-> field.size, isId |-> field.isId, isRelation |-> field.isRelation,
     isInline |-> field.isInline]

(* For every format the struct that schema_gen writes, if its integers are *)
(* C++ types, has a schema with the fields, in their order, that           *)
(* makeSchema has for the build, and the assertion on its size holds,      *)
(* unless the build has no fields (apps/schema_gen/main.cpp:102-275,       *)
(* Schema.hpp:184-228).                                                    *)
GeneratedSchema ==
    schemas > 0 /\ Found /\ Compiles(schema) => \A format \in Formats :
        LET arguments == Arguments(schema, format)
        IN  /\ Len(arguments) = Len(schema)
            /\ \A k \in 1..Len(schema) :
                  /\ arguments[k].comma <=> k < Len(schema)
                  /\ arguments[k].field = Compared(schema[k])
            /\ Asserted(schema, format) <=> schema # << >>
=============================================================================
