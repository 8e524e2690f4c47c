------------------------------ MODULE DBDText ------------------------------
(***************************************************************************)
(* What a definition text says, read as a whole and not line by line: its  *)
(* columns are the lines before the first blank one, its blocks the        *)
(* longest runs of other lines behind that.                                *)
(***************************************************************************)
EXTENDS Integers, Sequences, SequencesExt

\* Index of the line that ends the columns.
ColumnsUpTo(lines) ==
    LET blank == {k \in 1..Len(lines) : lines[k].kind = "blank"}
    IN  IF blank = {} THEN Len(lines) + 1 ELSE CHOOSE k \in blank : \A j \in blank : k <= j

\* The lines behind the columns that are not blank.
Said(lines) == {k \in ColumnsUpTo(lines) + 1..Len(lines) : lines[k].kind # "blank"}

\* The blocks, as pairs of their first and last line.
Blocks(lines) ==
    LET said == Said(lines)
    IN  {b \in said \X said : /\ b[1] <= b[2] /\ b[1]..b[2] \subseteq said
                              /\ b[1] - 1 \notin said /\ b[2] + 1 \notin said}

\* What each line adds to its block.
Builds(lines) ==
    [k \in 1..Len(lines) |-> IF lines[k].kind = "build" THEN lines[k].builds ELSE << >>]

Ranges(lines) ==
    [k \in 1..Len(lines) |-> IF lines[k].kind = "build" THEN lines[k].ranges ELSE << >>]

Hashes(lines) ==
    [k \in 1..Len(lines) |-> IF lines[k].kind = "layout" THEN lines[k].hashes ELSE << >>]

Defined(lines) ==
    [k \in 1..Len(lines) |-> IF lines[k].kind = "definition" THEN <<lines[k]>> ELSE << >>]

\* All of it, from one line to another.
Joined(parts, first, last) == FlattenSeq(SubSeq(parts, first, last))

Of(block, lines) ==
    [builds |-> Joined(Builds(lines), block[1], block[2]),
     buildRanges |-> Joined(Ranges(lines), block[1], block[2]),
     layoutHashes |-> Joined(Hashes(lines), block[1], block[2]),
     definitions |-> Joined(Defined(lines), block[1], block[2])]

Versioned(b) == b.builds # << >> \/ b.buildRanges # << >> \/ b.layoutHashes # << >>

\* Does the last comment of a block say anything?
Commented(lines, block) ==
    \E k \in block[1]..block[2] :
        /\ lines[k].kind = "comment" /\ lines[k].text
        /\ \A j \in k + 1..block[2] : lines[j].kind # "comment"

\* The texts that mean nothing.
Malformed(text, types) ==
    LET lines   == text.lines
        columns == 1..ColumnsUpTo(lines) - 1
    IN  \/ ~text.first
        \/ \E k \in columns :
            \/ lines[k].kind # "column" \/ lines[k].type \notin types
            \/ \E j \in 1..k - 1 : lines[j].name = lines[k].name
        \/ \E k \in Said(lines) :
            \/ lines[k].kind \in {"bad", "column"}
            \/ lines[k].kind = "definition" /\ \A j \in columns : lines[j].name # lines[k].name
        \/ \E b \in Blocks(lines) :
            /\ ~Versioned(Of(b, lines))
            /\ Of(b, lines).definitions # << >> \/ Commented(lines, b)

\* At each line the block that ends there, if it is versioned.
Ended(lines) ==
    LET blocks == Blocks(lines)
    IN  [k \in 1..Len(lines) |->
            LET here == {b \in blocks : b[2] = k /\ Versioned(Of(b, lines))}
            IN  IF here = {} THEN << >> ELSE <<Of(CHOOSE b \in here : TRUE, lines)>>]

\* Its versioned blocks, in order.
Meaning(text) ==
    Joined(Ended(text.lines), ColumnsUpTo(text.lines) + 1, Len(text.lines))

\* The fields of the first block that lists the build.
SchemaFor(text, build) ==
    LET lines  == text.lines
        blocks == Meaning(text)
        column(name) == CHOOSE k \in 1..ColumnsUpTo(lines) - 1 : lines[k].name = name
        lists(b) ==
            \/ build \in Range(b.builds)
            \/ \E r \in Range(b.buildRanges) : r[1] <= build /\ build <= r[2]
        chosen == SelectInSeq(blocks, lists)
        fields == blocks[chosen].definitions
    IN  IF chosen = 0 THEN "nullopt"
        ELSE [k \in DOMAIN fields |->
                LET type == lines[column(fields[k].name)].type
                IN  [name |-> fields[k].name, type |-> type,
                     bytes |-> IF type = "int" THEN fields[k].size \div 8 ELSE 0,
                     size |-> IF fields[k].arrLength = 0 THEN 1 ELSE fields[k].arrLength,
                     isId |-> fields[k].isID, isRelation |-> fields[k].isRelation,
                     isInline |-> ~fields[k].isNonInline]]
============================================================================
