------------------------------- MODULE DBDefs -------------------------------
(***************************************************************************)
(* DBDReader::read and makeSchema (WoWDBDefs.cpp): a definition text is    *)
(* read line by line into a DBDefinition, from which the schema of a build *)
(* is made.                                                                *)
(*                                                                         *)
(* A text is a sequence of lines, and a line is what its tokens say: the   *)
(* tokenizing (find_first_of, split_string, trim, from_chars) is left out, *)
(* "bad" stands for every line whose tokens make the reader throw in each  *)
(* part of the text.  Versions are numbers: GameVersion compares its four  *)
(* parts in order.                                                         *)
(***************************************************************************)
EXTENDS Integers, Sequences

CONSTANTS
    Texts,      \* the texts a run reads
    Versions,   \* the builds a schema is asked for
    MaxSchemas  \* bound: calls of makeSchema

ValidTypes == {"int", "float", "string", "locstring"}

\* What a Field's bytes can hold, and what makeSchema asserts of an array.
MaxBits == 8 * 255 + 7
MaxArray == 254

Definitions ==
    [kind : {"definition"}, name : STRING, size : 0..MaxBits, arrLength : 0..MaxArray,
     isID : BOOLEAN, isNonInline : BOOLEAN, isRelation : BOOLEAN]

\* The lines of a text; `text' of a comment says whether it has any.
Lines ==
    [kind : {"blank", "bad"}]
    \union [kind : {"column"}, name : STRING, type : STRING]
    \union [kind : {"layout"}, hashes : Seq(STRING)]
    \union [kind : {"build"}, builds : Seq(Int), ranges : Seq(Int \X Int)]
    \union [kind : {"comment"}, text : BOOLEAN]
    \union Definitions

ASSUME TextsAssumption ==
    \A text \in Texts : text.first \in BOOLEAN /\ text.lines \in Seq(Lines)

ASSUME MaxSchemasAssumption == MaxSchemas \in Nat

VARIABLES
    text,      \* does it start with COLUMNS, and the lines behind that
    at,        \* lines read
    pc,
    columnDefinitions,   \* a map from column names to types
    definitions, layoutHashes, comment, builds, buildRanges,   \* of the block being read
    versionDefinitions,  \* the blocks read
    target, schema,      \* the last schema made, and for which build
    schemas

accumulators == <<definitions, layoutHashes, comment, builds, buildRanges>>

vars == <<text, at, pc, columnDefinitions, accumulators, versionDefinitions,
          target, schema, schemas>>

Nothing == "nullopt"

Init ==
    /\ text \in Texts
    /\ at = 0 /\ pc = "first"
    /\ columnDefinitions = [c \in {} |-> "int"]
    /\ definitions = << >> /\ layoutHashes = << >> /\ comment = FALSE
    /\ builds = << >> /\ buildRanges = << >>
    /\ versionDefinitions = << >>
    /\ target = 0 /\ schema = Nothing /\ schemas = 0

Line == text.lines[at + 1]

\* stream.eof(): the last line has been read.
Eof == at = Len(text.lines)

Throw == pc' = "thrown"

ReadFirstLine ==
    /\ pc = "first"
    /\ IF text.first THEN pc' = "columns" ELSE Throw
    /\ UNCHANGED <<text, at, columnDefinitions, accumulators, versionDefinitions,
                   target, schema, schemas>>

ColumnTaken(name) == name \in DOMAIN columnDefinitions

\* A column line; a blank line ends the columns.
ReadColumn ==
    /\ pc = "columns" /\ ~Eof
    /\ at' = at + 1
    /\ IF Line.kind = "blank"
       THEN pc' = "versions" /\ UNCHANGED columnDefinitions
       ELSE IF Line.kind # "column" \/ Line.type \notin ValidTypes \/ ColumnTaken(Line.name)
       THEN Throw /\ UNCHANGED columnDefinitions
       ELSE /\ columnDefinitions' = [c \in DOMAIN columnDefinitions \union {Line.name} |->
                    IF c = Line.name THEN Line.type ELSE columnDefinitions[c]]
            /\ UNCHANGED pc
    /\ UNCHANGED <<text, accumulators, versionDefinitions, target, schema, schemas>>

\* A text may end with its columns.
ColumnsEnd ==
    /\ pc = "columns" /\ Eof
    /\ pc' = "versions"
    /\ UNCHANGED <<text, at, columnDefinitions, accumulators, versionDefinitions,
                   target, schema, schemas>>
-----------------------------------------------------------------------------
HasVersions == builds # << >> \/ buildRanges # << >> \/ layoutHashes # << >>

\* Mutant: the layout hashes stay for the next block.
HashesKept ==
    /\ definitions' = << >> /\ comment' = FALSE
    /\ builds' = << >> /\ buildRanges' = << >>
    /\ UNCHANGED layoutHashes

ClearAccumulators ==
    /\ definitions' = << >> /\ layoutHashes' = << >> /\ comment' = FALSE
    /\ builds' = << >> /\ buildRanges' = << >>

\* try_push_version_definition, going on at `next'.
TryPush(next) ==
    IF ~HasVersions /\ (definitions # << >> \/ comment)
    THEN Throw /\ UNCHANGED <<accumulators, versionDefinitions>>
    ELSE /\ pc' = next
         /\ versionDefinitions' =
                IF HasVersions
                THEN Append(versionDefinitions,
                            [builds |-> builds, buildRanges |-> buildRanges,
                             layoutHashes |-> layoutHashes, definitions |-> definitions])
                ELSE versionDefinitions
         /\ ClearAccumulators

\* Mutant: the column is not looked up.
AnyColumn(name) == TRUE

ColumnKnown(name) == name \in DOMAIN columnDefinitions

ReadVersionLine ==
    /\ pc = "versions" /\ ~Eof
    /\ at' = at + 1
    /\ \/ Line.kind = "blank" /\ TryPush("versions")
       \/ /\ Line.kind = "layout"
          /\ layoutHashes' = layoutHashes \o Line.hashes
          /\ UNCHANGED <<pc, definitions, comment, builds, buildRanges, versionDefinitions>>
       \/ /\ Line.kind = "build"
          /\ builds' = builds \o Line.builds
          /\ buildRanges' = buildRanges \o Line.ranges
          /\ UNCHANGED <<pc, definitions, layoutHashes, comment, versionDefinitions>>
       \/ /\ Line.kind = "comment"
          /\ comment' = Line.text
          /\ UNCHANGED <<pc, definitions, layoutHashes, builds, buildRanges, versionDefinitions>>
       \/ /\ Line.kind = "definition" /\ ColumnKnown(Line.name)
          /\ definitions' = Append(definitions, Line)
          /\ UNCHANGED <<pc, layoutHashes, comment, builds, buildRanges, versionDefinitions>>
       \/ /\ \/ Line.kind \in {"bad", "column"}   \* "int Name" is no column's name
             \/ Line.kind = "definition" /\ ~ColumnKnown(Line.name)
          /\ Throw
          /\ UNCHANGED <<accumulators, versionDefinitions>>
    /\ UNCHANGED <<text, columnDefinitions, target, schema, schemas>>

\* The last block needs no blank line behind it.
FinishRead ==
    /\ pc = "versions" /\ Eof
    /\ TryPush("done")
    /\ UNCHANGED <<text, at, columnDefinitions, target, schema, schemas>>
-----------------------------------------------------------------------------
\* BuildRange::contains.
Contains(range, build) == range[2] >= build /\ build >= range[1]

Matched(versionDef, build) ==
    \/ \E k \in 1..Len(versionDef.builds) : versionDef.builds[k] = build
    \/ \E k \in 1..Len(versionDef.buildRanges) : Contains(versionDef.buildRanges[k], build)

FieldOf(def) ==
    LET type == columnDefinitions[def.name]
    IN  [name |-> def.name, type |-> type,
         bytes |-> IF type = "int" THEN def.size \div 8 ELSE 0,  \* fixed by the other types
         size |-> IF def.arrLength > 1 THEN def.arrLength ELSE 1,
         isId |-> def.isID, isRelation |-> def.isRelation, isInline |-> ~def.isNonInline]

BuildSchema(defs) == [k \in 1..Len(defs) |-> FieldOf(defs[k])]

\* Mutant: the last block that matches.
LastOf(matching) == CHOOSE v \in matching : \A w \in matching : w <= v

\* The blocks are tried in the order of the text.
FirstOf(matching) == CHOOSE v \in matching : \A w \in matching : v <= w

MakeSchema(build) ==
    /\ pc = "done" /\ schemas < MaxSchemas
    /\ schemas' = schemas + 1
    /\ target' = build
    /\ LET matching == {v \in 1..Len(versionDefinitions) : Matched(versionDefinitions[v], build)}
       IN  schema' = IF matching = {} THEN Nothing
                     ELSE BuildSchema(versionDefinitions[FirstOf(matching)].definitions)
    /\ UNCHANGED <<text, at, pc, columnDefinitions, accumulators, versionDefinitions>>

ReadStep == ReadFirstLine \/ ReadColumn \/ ColumnsEnd \/ ReadVersionLine \/ FinishRead

Next == ReadStep \/ \E build \in Versions : MakeSchema(build)

Spec == Init /\ [][Next]_vars
-----------------------------------------------------------------------------
(* makeSchema looks up each definition's column with at() and throws for a *)
(* type it does not know (WoWDBDefs.cpp:267, 287): neither can happen for  *)
(* what read() accepts, whatever the text and the build.                   *)
ColumnsResolve ==
    \A v \in 1..Len(versionDefinitions) :
        \A k \in 1..Len(versionDefinitions[v].definitions) :
            LET name == versionDefinitions[v].definitions[k].name
            IN  name \in DOMAIN columnDefinitions /\ columnDefinitions[name] \in ValidTypes

Meant == INSTANCE DBDText

(* read() gives the blocks of the text in their order, each with all its   *)
(* lines say and nothing of another block, and throws for the texts that   *)
(* are malformed and for no others (WoWDBDefs.cpp:116-253).                *)
TextRead ==
    /\ pc = "done" => ~Meant!Malformed(text, ValidTypes) /\ versionDefinitions = Meant!Meaning(text)
    /\ pc = "thrown" => Meant!Malformed(text, ValidTypes)

(* makeSchema gives the schema of the first block that lists the build, by *)
(* itself or within a range of builds (WoWDBDefs.cpp:294-308).             *)
SchemaOfBuild == schemas > 0 => schema = Meant!SchemaFor(text, target)
=============================================================================
