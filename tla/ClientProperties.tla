-------------------------- MODULE ClientProperties --------------------------
(***************************************************************************)
(* What a program that uses the library may rely on.                       *)
(***************************************************************************)
EXTENDS Client

Elements(k) == IF k = 0 THEN 0 ELSE Offsets[k] + schema[k].size

(* The record grows to what the schema says, and iterators stay inside it. *)
ClientTypeOK ==
    /\ stage \in {"detect", "archives", "mpq", "casc", "source", "signature", "rewind", "dispatch",
                  "header", "rows", "decode", "access",
                  "exit0", "exit1", "undefined", "unread", "stopped"}
    /\ detecting \in {"info", "hints", "done", "thrown"} /\ line \in 0..Len(directory.info)
    /\ signature \in Signatures \union {"none"} /\ reader \in ToSet(Readers) \union {"WDBC", "none"}
    /\ calls \in 0..world.calls /\ decoded \in 0..Len(schema)
    /\ world.start # "access" => Len(data) = Elements(decoded)
    /\ access \in {"idle", "getting", "got", "thrown", "named", "iterating", "undefined"}
    /\ Len(result) = Len(requests) /\ found \subseteq DOMAIN requests
    /\ \A name \in DOMAIN iterators : iterators[name].index \in 0..Len(schema) + 1
-----------------------------------------------------------------------------
\* The clients of a directory: by all the lines of its .build.info ...
WithColumns == {k \in 1..Len(directory.info) : directory.info[k] # << >>}

InfoRows == Picked(directory.info, WithColumns, Len(directory.info))

ColumnAt(name) ==
    {k \in 1..Len(InfoRows[1]) : InfoRows[1][k].text = name}

InfoReadable ==
    /\ directory.hasInfo /\ InfoRows # << >>
    /\ \A k \in 1..Len(InfoRows) : Len(InfoRows[k]) = Len(InfoRows[1])
    /\ \A name \in {"Version", "Product", "Tags"} : ColumnAt(name) # {}

InfoClients ==
    LET cell(row, name) == row[Min(ColumnAt(name))]
        client(row) == [name |-> cell(row, "Product").text,
                        version |-> Version(cell(row, "Version").version),
                        locales |-> cell(row, "Tags").locales]
    IN  IF ~InfoReadable THEN << >>
        ELSE LET whole == {k \in 2..Len(InfoRows) : Len(cell(InfoRows[k], "Version").version) > 3}
                 kept == Picked(InfoRows, whole, Len(InfoRows))
             IN  [k \in 1..Len(kept) |-> client(kept[k])]

\* ... and if there are none, by an executable.
HintClients ==
    LET whole == {k \in 1..Len(directory.exes) : Len(directory.exes[k]) > 3}
    IN  IF ~directory.windows \/ whole = {} THEN << >>
        ELSE <<[name |-> "", version |-> Version(directory.exes[Min(whole)]),
                locales |-> SubSeq(directory.locales, 1, Min({1, Len(directory.locales)}))]>>

ClientsOf == IF InfoClients # << >> THEN InfoClients ELSE HintClients

(* detect() gives a client for every row of a .build.info that has a whole *)
(* version, in their order, unless one line has another number of columns  *)
(* or a column is missing; then, and if no row has one, a client for the   *)
(* first executable that has a version (Detection.cpp:19-46, 93-255).      *)
DetectedRight == detecting = "done" => clients = ClientsOf
-----------------------------------------------------------------------------
\* Two archives that the comparison puts in front of each other: below the
\* root, of one class, behind the directory's name, neither longer.
Entangled(a, b) ==
    /\ a # b /\ a.dir = b.dir /\ a.dir # << >> /\ Class(a) = Class(b)
    /\ ~StartsWith(a.stem, b.stem) /\ ~StartsWith(b.stem, a.stem)

Clear(files) == \A a, b \in files : ~Entangled(a, b)

(* The file comes from the archive that overrides all others that have it: *)
(* of a directory below the root, then an expansion, then the latest patch *)
(* and the longest name; update archives are never asked.  Where two       *)
(* archives of a directory below the root are compared by its name, which  *)
(* is first is left open (MPQFilesystem.cpp:47-129).                       *)
OpenedOverrides ==
    opened # {} /\ Clear(Discovered(world.files)) =>
        \A first \in opened, other \in Discovered(world.files) \intersect world.holds :
            first = other \/ Overrides(first, other)
-----------------------------------------------------------------------------
\* The table is where the program looks for it, and its reader can read it.
Located ==
    IF world.start = "source" THEN file.size > 0 /\ file.signature # "other"
    ELSE /\ ClientsOf # << >> /\ directory.hasData /\ world.hasSchema
         /\ LET archives == Discovered(world.files)
                client   == ClientsOf[1]
            IN  \/ /\ archives # {} /\ archives \intersect world.broken = {}
                   /\ archives \intersect world.holds # {}
                   /\ file.signature = "WDBC"
                   /\ DemoVersion(client.version) \in file.versions
                \/ /\ archives = {} /\ client.locales # << >> /\ world.casc = "opens"
                   /\ file.signature \in ToSet(Readers)

Readable == Located /\ file.suits /\ file.size >= 2

EncryptedRow == file.encrypted /\ file.rows > 0 /\ file.signature # "WDBC"

\* What field k holds: as the record was made, or as its bytes say.
Content(k) == IF world.start = "access" THEN world.content[k] ELSE DecodedField(k)

\* A CASC source whose file ends in the header.
CutOff == source = "casc" /\ file.size < 2

\* A value that is cast though it does not fit.
FloatMisfit ==
    \E k \in 1..Len(schema), i \in 1..Len(requests) :
        /\ schema[k].type = "FLOAT" /\ requests[i].name = schema[k].name
        /\ requests[i].dest.kind \in {"int", "enum"}
        /\ \E z \in 1..schema[k].size : ~Fits(Content(k)[z].n, requests[i].dest)

\* What the caller's own schema and requests bring about.
AskedAmiss == access = "thrown" \/ FloatMisfit \/ \E k \in 1..Len(schema) : ~Handled(schema[k])

(* Whatever library fails, no other table is ever taken for one that is    *)
(* there and suits its schema, read by the reader of its own format; and   *)
(* as long as none fails, such a table is opened, and the program ends     *)
(* well unless its first record is encrypted or it asks for what the       *)
(* record does not have (main.cpp:98-152, DB2File.hpp:957-999).            *)
OpensTable ==
    world.start \in {"detect", "source"} =>
        /\ stage \in {"rows", "decode", "access", "exit0"} => Readable /\ reader = file.signature
        /\ /\ stage \in {"exit1", "undefined", "unread", "stopped"}
           /\ failures = 0 /\ calls = 0 /\ Readable
           => EncryptedRow \/ AskedAmiss

-----------------------------------------------------------------------------
\* The n bits of the record's buffer from `start' are the number v.
HasBits(v, start, n) ==
    v \in 0..TwoTo(n) - 1 /\ \A i \in 0..n - 1 : (v \div TwoTo(i)) % 2 = world.buff[start + i]

\* A number of n bits in two's complement, in a type of so many bytes.
TwosComplement(u, n, bytes) == IF u < TwoTo(n - 1) THEN u ELSE u - TwoTo(n) + Span(bytes)

Stands(v, field, info, z) ==
    LET bits  == TypeBytes(field) * ByteBits
        start == world.dataOffset * ByteBits + info.bit_offset
        packed == 0..TwoTo(info.bit_width) - 1
    IN  CASE info.compression = "None" ->
                IF field.type = "FLOAT"
                THEN \E u \in 0..TwoTo(bits) - 1 : HasBits(u, info.field_offset_bits + z * bits, bits) /\ v = FloatOf(u)
                ELSE HasBits(v, info.field_offset_bits + z * bits, bits)
          [] info.compression = "Bitpacked" -> HasBits(v, start, info.bit_width)
          [] info.compression = "BitpackedSigned" ->
                \E u \in packed : HasBits(u, start, info.bit_width)
                                  /\ v = TwosComplement(u, info.bit_width, TypeBytes(field))
          [] OTHER ->
                \E u \in packed : HasBits(u, start, info.bit_width)
                                  /\ v = info.pallet[u * info.array_size + z + 1] % Span(TypeBytes(field))

(* Each integer of a record is what the bits of its field say: the bytes,  *)
(* a few bits that begin anywhere, a number of so many bits with a sign,   *)
(* or an entry of the pallet for each element; whatever lies behind the    *)
(* record, which the eight-byte reads touch.  So is each float that is     *)
(* stored as its bytes (DB2File.hpp:338-412).                              *)
Decoded ==
    world.start # "access" => \A k \in 1..decoded :
        LET field == schema[k]
            info  == world.fields[k].info
        IN  field.type # "FLOAT" \/ info.compression = "None" =>
                \A z \in 1..field.size : Stands(data[Offsets[k] + z].n, field, info, z - 1)
-----------------------------------------------------------------------------
(* Whatever the order of reading, moving on and copying, an iterator gives *)
(* the name and all the values of the field it is at, the copy of `it++'   *)
(* those of the field before; a name gives the first field that has it     *)
(* (Schema.hpp:276-403).                                                   *)
GivesItsField ==
    FieldGiven /\ (given.index # 0 => given.value = Content(given.index))

(* The program reads what it must not only if an installation lacks a      *)
(* locale, the file or a known signature, if a library failed or gave less *)
(* of the bytes that decide, as it does of a CASC file that is shorter     *)
(* than its header, if a record made by hand lacks values or a float does  *)
(* not fit its integer, or if the first record is encrypted, which the     *)
(* README tells the caller to ask: a decoded record never leads the        *)
(* accessor outside its data (main.cpp:140-142, 155, 169, 180, 195,        *)
(* DB2File.hpp:957-982, Schema.hpp:338-356, CASCFilesystem.cpp:7-21).      *)
UndefinedOnly ==
    stage = "undefined" =>
        \/ failures > 0 \/ CutOff
        \/ world.start = "detect" /\ ~Located
        \/ access = "undefined" /\ world.start \in {"detect", "source"} /\ EncryptedRow
        \/ access = "undefined" /\ FloatMisfit
        \/ access = "undefined" /\ world.start = "access" /\ Len(data) < Elements(Len(schema))

(* get<>() gives each request the values of a field of its name, an array  *)
(* as many as both have and zeros behind them.  Each is the number asked   *)
(* for, with one exception that is a defect of the code: a signed integer  *)
(* asked for as a float of its size comes without its sign                 *)
(* (Schema.hpp:405-520, 446).                                              *)
GetReturnsFields ==
    access = "got" => \A i \in 1..Len(requests) :
        \E k \in 1..Len(schema) :
            LET dest  == requests[i].dest
                count == IF dest.count = 0 THEN 1 ELSE dest.count
            IN  /\ schema[k].name = requests[i].name
                /\ Len(result[i]) = count
                /\ \A z \in 1..count :
                      IF z <= schema[k].size
                      THEN ReadOrUnsigned(result[i][z], Content(k)[z], schema[k], dest)
                      ELSE result[i][z] = 0
=============================================================================
