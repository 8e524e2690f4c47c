---------------------------- MODULE ClientWorlds ----------------------------
(***************************************************************************)
(* Small worlds for the client: a base world, of which one part at a time  *)
(* takes all its values.                                                   *)
(***************************************************************************)
EXTENDS Client

CONSTANT MaxLines, MaxArchives   \* bounds of .build.info and of Data

MCFloatOf(n) == n - 3

MCFileSizes == {-1, 0, 1, 2, 5}

\* ------------------------------------------------------------ directories
Cell(text) == [text |-> text, version |-> << >>, locales |-> << >>]

VersionCell(parts) == [Cell("version") EXCEPT !.version = parts]

TagsCell(locales) == [Cell("tags") EXCEPT !.locales = locales]

Row(name, parts, locales) == <<Cell(name), VersionCell(parts), TagsCell(locales)>>

Columns == <<Cell("Product"), Cell("Version"), Cell("Tags")>>

InfoLines ==
    {<< >>, Columns, <<Cell("Tags"), Cell("Product"), Cell("Version")>>,
     <<Cell("Product"), Cell("Version")>>,
     Row("wow", <<1, 12, 1, 5875>>, <<"enUS", "frFR">>),
     Row("wow_classic", <<2, 4, 3, 8606>>, << >>),
     Row("cut", <<1, 12, 1>>, <<"enUS">>),
     Row("odd", <<99, NoDigits, 1, 5875, 0>>, <<"enUS">>),
     Append(Row("long", <<1, 12, 1, 5875>>, <<"enUS">>), Cell("more"))}

NoInfo == [hasInfo |-> FALSE, info |-> << >>, exes |-> << >>, hasData |-> TRUE,
           locales |-> <<"enUS">>, windows |-> TRUE]

WithInfo(lines) == [NoInfo EXCEPT !.hasInfo = TRUE, !.info = lines]

Installed(parts) == WithInfo(<<Columns, Row("wow", parts, <<"enUS">>)>>)

Directories ==
    {WithInfo(lines) : lines \in UNION {[1..n -> InfoLines] : n \in 0..MaxLines}}
    \union {Installed(parts) : parts \in
        {<<0, 5, 3, 3368>>, <<2, 0, 0, 5991>>, <<2, 1, 0, 6692>>, <<3, 3, 5, 9999>>, <<8, 3, 0, 1>>}}
    \union {[Installed(<<1, 12, 1, 5875>>) EXCEPT !.hasData = FALSE]}
    \union {[NoInfo EXCEPT !.exes = exes, !.hasData = there, !.locales = locales, !.windows = windows] :
        exes \in UNION {[1..n -> {<< >>, <<1, 12, 1, 5875>>, <<2, 4, 3, 8606>>}] : n \in 0..2},
        there \in BOOLEAN, locales \in {<< >>, <<"deDE", "enUS">>}, windows \in BOOLEAN}

\* --------------------------------------------------------------- archives
Archive(dir, stem) == [dir |-> dir, stem |-> stem, ext |-> "mpq"]

\* Words, in the order of their letters.
Backup == 5
Common == 10
EnUS == 15
Locale == 40
Speech == 70

ArchivePool ==
    {Archive(<< >>, <<Common>>), Archive(<< >>, <<Common, 2>>),
     Archive(<< >>, <<Expansion>>), Archive(<< >>, <<Patch>>), Archive(<< >>, <<Patch, 2>>),
     Archive(<< >>, <<Patch, 3>>), Archive(<< >>, <<WowUpdate, 1>>),
     [Archive(<< >>, <<Patch>>) EXCEPT !.ext = "txt"],
     Archive(<<EnUS>>, <<Patch, EnUS>>), Archive(<<EnUS>>, <<Speech, EnUS>>),
     Archive(<<EnUS>>, <<Locale, EnUS>>), Archive(<<EnUS>>, <<Backup, EnUS>>)}

ArchiveSets == {files \in SUBSET ArchivePool : Cardinality(files) \in 1..MaxArchives}

\* ------------------------------------------------------------------- base
Integer(name, bytes, size, signed) ==
    [name |-> name, type |-> "INT", bytes |-> bytes, size |-> size, signed |-> signed]

Plain(offset) == [compression |-> "None", field_offset_bits |-> offset]

\* Bits of a record of six bytes and of the eight behind it.
Bits(pattern(_), behind) ==
    [i \in 0..14 * ByteBits - 1 |-> IF i < 6 * ByteBits THEN pattern(i) ELSE behind]

Thirds(i) == IF i % 3 = 0 THEN 1 ELSE 0
Squares(i) == ((i * i) % 7) % 2
Ones(i) == 1

Base ==
    [start |-> "detect", directory |-> Installed(<<1, 12, 1, 5875>>), hasSchema |-> TRUE,
     files |-> {Archive(<< >>, <<Common>>)}, holds |-> {Archive(<< >>, <<Common>>)}, broken |-> {},
     casc |-> "opens", kind |-> "native",
     file |-> [signature |-> "WDBC", size |-> 5, suits |-> TRUE, versions |-> {"VANILLA"},
               rows |-> 1, encrypted |-> FALSE],
     calls |-> 0,
     fields |-> <<[field |-> Integer("id", 2, 1, FALSE), info |-> Plain(0)],
                  [field |-> Integer("pair", 1, 2, FALSE), info |-> Plain(2 * ByteBits)]>>,
     buff |-> Bits(Thirds, 0), dataOffset |-> 0, data |-> << >>, content |-> << >>,
     asks |-> {[call |-> "iterate"]}]

NewFile(w, s) == [w.file EXCEPT !.signature = s]

Casc == [Base EXCEPT !.files = {}, !.holds = {}, !.file = NewFile(Base, "WDC5")]

\* --------------------------------------------- detection and file systems
DetectWorlds == {[Base EXCEPT !.directory = d] : d \in Directories}

VersionWorlds ==
    {[Base EXCEPT !.directory = Installed(parts), !.file.versions = {v}] :
        parts \in {<<0, 5, 3, 3368>>, <<2, 0, 0, 5991>>, <<2, 1, 0, 6692>>, <<3, 3, 5, 9999>>,
                   <<4, 3, 4, 15>>},
        v \in {"VANILLA", "BC_WOTLK", "CATA_PLUS"}}

\* Archives, and those of them that have the file.
Holding == UNION {{files} \X SUBSET files : files \in ArchiveSets}

ArchiveWorlds ==
    {[Base EXCEPT !.files = p[1], !.holds = p[2]] : p \in Holding}
    \union {[Base EXCEPT !.broken = Base.files], [Base EXCEPT !.hasSchema = FALSE]}

CascWorlds ==
    {[Casc EXCEPT !.casc = c, !.directory = d, !.file.signature = s, !.file.encrypted = e,
                  !.file.rows = r] :
        c \in {"opens", "error", "nothing", "absent"},
        d \in {Base.directory, [NoInfo EXCEPT !.exes = <<<<1, 12, 1, 5875>>>>, !.locales = << >>]},
        s \in Signatures, e \in BOOLEAN, r \in 0..1}

\* ---------------------------------------------------------------- sources
SourceWorlds ==
    {[Base EXCEPT !.start = "source", !.kind = k, !.file.size = size, !.file.signature = s,
                  !.file.suits = suits, !.calls = 1] :
        k \in SourceKinds, size \in FileSizes \ {-1}, s \in Signatures, suits \in BOOLEAN}
    \union {[Base EXCEPT !.start = "source", !.file.size = -1]}
    \union {[Base EXCEPT !.start = "source", !.kind = k, !.file.signature = "WDC4", !.calls = 3,
                         !.asks = {}] : k \in SourceKinds}

\* ----------------------------------------------------------------- fields
FieldPool ==
    {Integer("f", bytes, size, FALSE) : bytes \in {1, 2, 3, 4, 8}, size \in 1..2}
    \union {[Integer("f", 4, size, FALSE) EXCEPT !.type = "FLOAT"] : size \in 1..2}
    \union {[Integer("f", 8, 1, FALSE) EXCEPT !.type = "STRING"]}

Pallets == << <<5, 200, 7, 1, 9, 2, 4, 8>>, <<0, 1, 255, 3, 4, 5, 6, 77>> >>

Bitpacked(compression, offset, width) ==
    [compression |-> compression, bit_offset |-> offset, bit_width |-> width]

Pallet(compression, offset, width, p, n) ==
    [compression |-> compression, bit_offset |-> offset, bit_width |-> width,
     pallet |-> Pallets[p], array_size |-> n]

\* The ways a field can be stored within the six bytes.
InfosFor(field) ==
    LET most == TypeBytes(field) * ByteBits
    IN  {info \in
            {Plain(byte * ByteBits) : byte \in 0..2}
            \union (IF field.size > 1 THEN {}
                    ELSE {Bitpacked(c, offset, width) :
                            c \in {"Bitpacked", "BitpackedSigned"},
                            offset \in 0..2 * ByteBits, width \in {1, 2, 3, 5, most}}
                         \union {Pallet("BitpackedIndexed", offset, width, p, 1) :
                            offset \in 0..2 * ByteBits - 1, width \in 1..3, p \in 1..2})
            \union {Pallet("BitpackedIndexedArray", offset, width, p, field.size) :
                            offset \in 0..2 * ByteBits - 1, width \in 1..2, p \in 1..2}
         : IF info.compression = "None"
           THEN info.field_offset_bits + most * field.size <= 6 * ByteBits
           ELSE info.bit_width <= most /\ Shiftable(info.bit_offset, info.bit_width)
                /\ info.bit_offset + info.bit_width <= 4 * ByteBits}

Stored == UNION {{field} \X InfosFor(field) : field \in FieldPool}

DecodeWorlds ==
    {[Base EXCEPT !.start = "decode",
                  !.fields = <<[field |-> p[1], info |-> p[2]], Base.fields[2]>>,
                  !.buff = buff, !.dataOffset = 2] :
        p \in Stored,
        buff \in {Bits(Thirds, 0), Bits(Thirds, 1), Bits(Squares, 0), Bits(Squares, 1), Bits(Ones, 0)}}

\* ---------------------------------------------------------------- records
Float(name, size) ==
    [name |-> name, type |-> "FLOAT", bytes |-> 4, size |-> size, signed |-> FALSE]

Text(name) == [name |-> name, type |-> "STRING", bytes |-> 8, size |-> 1, signed |-> FALSE]

ToInt(kind, bytes, signed, count) ==
    [kind |-> kind, bytes |-> bytes, signed |-> signed, count |-> count]

ToFloat(count) == ToInt("float", 4, TRUE, count)

ToText(count) == ToInt("string", 8, FALSE, count)

Dests ==
    {ToInt(kind, bytes, signed, count) :
        kind \in {"int", "enum"}, bytes \in IntegerSizes, signed \in BOOLEAN, count \in {0, 3}}
    \union {ToFloat(count) : count \in {0, 3}} \union {ToText(count) : count \in {0, 3}}

Get(asked) == [call |-> "get", requests |-> asked]

\* A record made by hand, as the tests make it, of a list of values per field,
\* of which the record has the first `n'.
Made(fields, content, n, asks) ==
    [Base EXCEPT !.start = "access", !.fields = fields, !.content = content, !.asks = asks,
                 !.data = SubSeq(FlattenSeq(content), 1, n)]

Numbers(bytes) == {0, 1, (Span(bytes) \div 2) - 1, Span(bytes) \div 2, Span(bytes) - 1}

ValueOfKind(field, n) == [kind |-> ValueKind(field), bytes |-> field.bytes, n |-> n]

Singles ==
    {Integer("f", bytes, size, signed) : bytes \in IntegerSizes, size \in 1..2, signed \in BOOLEAN}
    \union {Float("f", 1), Float("f", 2), Text("f")}

Contents(field) ==
    {[z \in 1..field.size |-> ValueOfKind(field, n + z - 1)] :
        n \in IF field.type = "INT"
              THEN {n \in Numbers(field.bytes) : n + field.size <= Span(field.bytes)}
              ELSE {-3, 0, 1, 2, 9, 200}}

Held == UNION {{field} \X Contents(field) : field \in Singles}

SingleWorlds ==
    {Made(<<[field |-> p[1]]>>, <<p[2]>>, p[1].size,
          {Get(<<[name |-> "f", dest |-> dest]>>) : dest \in Dests}) : p \in Held}

\* Three fields, of which two may share their name.
Threes ==
    {<<[field |-> Integer("a", 2, 2, FALSE)], [field |-> Text("b")],
       [field |-> Integer(third, 1, 1, FALSE)]>> : third \in {"a", "c"}}

ThreeContent ==
    << [z \in 1..2 |-> ValueOfKind(Integer("a", 2, 2, FALSE), 10 + z)],
       <<ValueOfKind(Text("b"), 7)>>, <<ValueOfKind(Integer("c", 1, 1, FALSE), 2)>> >>

ThreeDests == {ToInt("int", 2, FALSE, 0), ToInt("int", 4, TRUE, 3), ToText(0)}

ThreeAsks ==
    {[call |-> "iterate"]}
    \union {[call |-> "name", name |-> name] : name \in {"a", "b", "c", "x"}}
    \union {Get(asked) : asked \in
                UNION {[1..n -> [name : {"a", "b", "c", "x"}, dest : ThreeDests]] : n \in 0..2}}

RecordWorlds == SingleWorlds \union {Made(fields, ThreeContent, n, ThreeAsks) : fields \in Threes, n \in 0..4}

MCFamilies ==
    {DetectWorlds, VersionWorlds, ArchiveWorlds, CascWorlds, SourceWorlds, DecodeWorlds, RecordWorlds}
=============================================================================
