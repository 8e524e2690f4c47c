------------------------------- MODULE Client -------------------------------
(***************************************************************************)
(* A program that uses the library: apps/demo/main.cpp from the detection  *)
(* of clients to the printed record, and the shorter ways of the README    *)
(* that begin with a file source or with a record.                         *)
(*                                                                         *)
(* It composes detection, the archives, the four sources, makeDB2File, the *)
(* decoding of fields and the accessor of a record.  What the world holds  *)
(* is fixed; only libraries fail on the way.  Positions count in units of  *)
(* a signature.                                                            *)
(***************************************************************************)
EXTENDS BuildInfo, Archives, Sources, Accessor

CONSTANT Families   \* sets of worlds, of which each varies one part

Readers == <<"WDC5", "WDC4", "WDC3", "WDB2">>

Signatures == ToSet(Readers) \union {"WDBC", "other"}

IsList(s) == Len(s) \in Nat /\ s = [i \in 1..Len(s) |-> s[i]]

ValueKind(field) ==
    IF field.type = "INT" THEN "int" ELSE IF field.type = "FLOAT" THEN "float" ELSE "string"

IsValue(v, field) ==
    /\ v.kind = ValueKind(field) /\ v.bytes = field.bytes
    /\ v.kind = "int" => v.bytes \in Nat \ {0} /\ v.n \in 0..Span(v.bytes) - 1

\* A record made by hand has the values of its fields one behind another, as
\* far as it goes.
AsMade(w) ==
    LET first[k \in 0..Len(w.fields)] ==
            IF k = 0 THEN 0 ELSE first[k - 1] + w.fields[k].field.size
    IN  /\ IsList(w.data)
        /\ \A k \in 1..Len(w.fields) :
              LET field == w.fields[k].field
              IN  /\ w.content[k] = [z \in 1..field.size |-> w.content[k][z]]
                  /\ \A z \in 1..field.size :
                        /\ IsValue(w.content[k][z], field)
                        /\ first[k - 1] + z <= Len(w.data) =>
                              w.data[first[k - 1] + z] = w.content[k][z]

\* The bits of a field are where its storage says, in whole bytes or within
\* eight, and each index has an entry in its pallet, of as many as the array has.
IsStored(w, k) ==
    LET field == w.fields[k].field
        info  == w.fields[k].info
        bits  == TypeBytes(field) * ByteBits
        HasBitsAt(start, n) == \A p \in start..start + n - 1 : w.buff[p] \in {0, 1}
    IN  IF info.compression = "None"
        THEN /\ info.field_offset_bits \in Nat /\ info.field_offset_bits % ByteBits = 0
             /\ HasBitsAt(info.field_offset_bits, bits * field.size)
        ELSE /\ info.compression \in {"Bitpacked", "BitpackedSigned", "BitpackedIndexed",
                                      "BitpackedIndexedArray"}
             /\ info.bit_offset \in Nat /\ Shiftable(info.bit_offset, info.bit_width)
             /\ info.bit_width <= bits /\ w.dataOffset \in Nat
             /\ HasBitsAt(w.dataOffset * ByteBits + info.bit_offset, info.bit_width)
             /\ info.compression = "BitpackedIndexed" => info.array_size = 1 /\ field.size = 1
             /\ info.compression \in {"BitpackedIndexed", "BitpackedIndexedArray"} =>
                   /\ info.array_size \in Nat
                   /\ \A u \in 0..TwoTo(info.bit_width) - 1, z \in 1..field.size :
                         info.pallet[u * info.array_size + z] \in Nat

\* A program starts at the detection, with a source, or with a record, made
\* or to be decoded.  The fields of a record and what is asked for at once are
\* lists, names of files are words.
ASSUME WorldsAssumption ==
    /\ {"mpq", "casc"} \subseteq SourceKinds
    /\ \A worlds \in Families : \A w \in worlds :
           /\ w.start \in {"detect", "source", "decode", "access"}
           /\ IsDirectory(w.directory)
           /\ IsFiniteSet(w.files)
           /\ w.files \subseteq [dir : Seq(Nat), stem : Seq(Nat), ext : STRING]
           /\ w.casc \in {"opens", "nothing", "absent", "error"}
           /\ w.file.signature \in Signatures /\ w.file.rows \in Nat
           /\ w.file.size \in FileSizes /\ w.kind \in SourceKinds /\ w.calls \in Nat
           /\ Len(w.fields) \in Nat
           /\ \A k \in 1..Len(w.fields) : w.fields[k].field.size \in Nat \ {0}
           /\ IF w.start = "access" THEN AsMade(w)
              ELSE w.data = << >> /\ \A k \in 1..Len(w.fields) : IsStored(w, k)
           /\ \A ask \in w.asks : ask.call = "get" =>
                 /\ IsList(ask.requests)
                 /\ \A i \in 1..Len(ask.requests) : ask.requests[i].dest \in Dest

VARIABLES
    world,       \* the installation, the file in it and its first record
    stage,
    order,       \* _archives of the MPQFilesystem
    opened,      \* the archive the file is from
    signature, reader, version,   \* Signature read, DB2File<F> or DBCFile, DBCVersion
    calls,       \* of the source, since the table is open
    decoded      \* fields of the record

clientVars == <<world, stage, order, opened, signature, reader, version, calls, decoded>>

vars == <<infoVars, sourceVars, accessVars, clientVars>>

file == world.file

Init ==
    /\ \E worlds \in Families : world \in worlds
    /\ stage = world.start
    /\ directory = world.directory /\ DetectInit
    /\ NoSource
    /\ schema = [k \in 1..Len(world.fields) |-> world.fields[k].field]
    /\ data = world.data /\ AccessInit
    /\ order = << >> /\ opened = {} /\ signature = "none" /\ reader = "none" /\ version = "none"
    /\ calls = 0 /\ decoded = 0

Go(next) == stage' = next

\* The source's call returned, threw up to main()'s handler, or met an assertion.
Called(next) ==
    Go(CASE status' = "ok" -> next [] status' = "thrown" -> "exit1" [] status' = "stopped" -> "stopped")
-----------------------------------------------------------------------------
Detect ==
    /\ stage = "detect" /\ DetectStep
    /\ UNCHANGED <<sourceVars, accessVars, clientVars>>

\* The first client is used, and the schema of its version; reading the
\* definition may throw, and have no schema.
ChooseClient ==
    /\ stage = "detect" /\ detecting \in {"done", "thrown"}
    /\ Go(IF detecting = "thrown" \/ clients = << >> \/ ~world.hasSchema
          THEN "exit1" ELSE "archives")
    /\ UNCHANGED <<infoVars, sourceVars, accessVars, world, order, opened, signature, reader,
                   version, calls, decoded>>

\* A Data directory that is not there throws.
DiscoverArchives ==
    /\ stage = "archives"
    /\ IF ~directory.hasData
       THEN Go("exit1") /\ UNCHANGED order
       ELSE /\ order' \in Orders(Discovered(world.files))
            /\ Go(IF order' = << >> THEN "casc" ELSE "mpq")
    /\ UNCHANGED <<infoVars, sourceVars, accessVars, world, opened, signature, reader, version,
                   calls, decoded>>

\* getDBCVersion, which the demo does not ask.
Earlier(v, w) ==
    LET parts(x) == <<x.expansion, x.major, x.minor, x.build>>
    IN  \E k \in 1..4 : parts(v)[k] < parts(w)[k] /\ \A j \in 1..k - 1 : parts(v)[j] = parts(w)[j]

Cutoff(expansion, major, minor, build) ==
    [expansion |-> expansion, major |-> major, minor |-> minor, build |-> build]

GetDBCVersion(v) ==
    CASE Earlier(v, Cutoff(2, 1, 0, 6692)) -> "VANILLA"
      [] ~Earlier(v, Cutoff(4, 0, 0, 0))   -> "CATA_PLUS"
      [] OTHER                             -> "BC_WOTLK"

DemoVersion(v) ==
    CASE v.expansion = 1        -> "VANILLA"
      [] v.expansion \in {2, 3} -> "BC_WOTLK"
      [] OTHER                  -> "CATA_PLUS"

\* MPQFSHandler: each archive must open.  No check that the file was found.
OpenMPQ ==
    /\ stage = "mpq"
    /\ opened' = FirstWith(order, world.holds)
    /\ version' = DemoVersion(clients[1].version)
    /\ reader' = "WDBC"
    /\ IF ToSet(order) \intersect world.broken # {} THEN Go("exit1") /\ UNCHANGED sourceVars
       ELSE IF opened' = {} THEN Go("undefined") /\ UNCHANGED sourceVars
       ELSE Go("header") /\ OpenSource("mpq", file.size)
    /\ UNCHANGED <<infoVars, accessVars, world, order, signature, calls, decoded>>

\* CASCFSHandler: the first locale, of a client that may have none; open()
\* gives nothing if the library fails without an error.
OpenCASC ==
    /\ stage = "casc"
    /\ IF clients[1].locales = << >> THEN Go("undefined") /\ UNCHANGED sourceVars
       ELSE IF world.casc \in {"absent", "error"} THEN Go("exit1") /\ UNCHANGED sourceVars
       ELSE IF world.casc = "nothing" THEN Go("undefined") /\ UNCHANGED sourceVars
       ELSE Go("signature") /\ OpenSource("casc", file.size)
    /\ UNCHANGED <<infoVars, accessVars, world, order, opened, signature, reader, version,
                   calls, decoded>>

\* README's "Example Usage": a source of any kind for makeDB2File or a DBCFile.
OpenFile ==
    /\ stage = "source"
    /\ OpenSource(world.kind, file.size)
    /\ reader' = IF file.signature = "WDBC" THEN "WDBC" ELSE "none"
    /\ version' \in file.versions
    /\ Go(IF reader' = "WDBC" THEN "header" ELSE "signature")
    /\ UNCHANGED <<infoVars, accessVars, world, order, opened, signature, calls, decoded>>
-----------------------------------------------------------------------------
\* makeDB2FileFormat; a read that gives nothing leaves `sig' as it was made.
ReadSignature ==
    /\ stage = "signature" /\ Read(1)
    /\ signature' \in IF got'.bytes < 1 THEN Signatures ELSE {file.signature}
    /\ Called("rewind")
    /\ UNCHANGED <<infoVars, accessVars, world, order, opened, reader, version, calls, decoded>>

\* Mutant: the reader goes on behind the signature.
NoRewind == UNCHANGED sourceVars

BackToStart == SetPos(0)

Rewind ==
    /\ stage = "rewind" /\ BackToStart
    /\ Called("dispatch")
    /\ UNCHANGED <<infoVars, accessVars, world, order, opened, signature, reader, version,
                   calls, decoded>>

\* The formats are tried in their order; there is no reader for another
\* signature, and the demo asks it for its size.
Dispatch ==
    /\ stage = "dispatch"
    /\ IF signature \in ToSet(Readers)
       THEN reader' = signature /\ Go("header")
       ELSE UNCHANGED reader /\ Go(IF world.start = "source" THEN "unread" ELSE "undefined")
    /\ UNCHANGED <<infoVars, sourceVars, accessVars, world, order, opened, signature, version,
                   calls, decoded>>

\* open(): the header, its signature and whether the schema suits it.  A
\* header that was not read, or not to its end, may say anything.
ReadHeader ==
    /\ stage = "header" /\ Read(2)
    /\ LET read  == IF got'.from = 0 THEN file.signature ELSE "other"
           suits == read = reader /\ file.suits /\ (reader = "WDBC" => version \in file.versions)
       IN  \/ got'.bytes = 2 /\ Called(IF suits THEN "rows" ELSE "exit1")
           \/ got'.bytes < 2 /\ Called("exit1")
           \/ got'.bytes < 2 /\ Called("undefined")
    /\ UNCHANGED <<infoVars, accessVars, world, order, opened, signature, reader, version,
                   calls, decoded>>

\* load() and operator[] move and read as the file's tables say, see DB2File,
\* DB2Rows and FlatFile; here to any place of the file.
CallSource ==
    /\ stage = "rows" /\ calls < world.calls
    /\ calls' = calls + 1
    /\ \/ \E p \in 0..file.size : SetPos(p)
       \/ \E n \in 1..2 : Read(n)
    /\ Called("rows")
    /\ UNCHANGED <<infoVars, accessVars, world, order, opened, signature, reader, version, decoded>>

\* The first row, if there is one.  An ENCRYPTED record has no data.
FirstRow ==
    /\ stage = "rows"
    /\ Go(IF file.rows = 0 THEN "exit0"
          ELSE IF file.encrypted /\ reader # "WDBC" THEN "access" ELSE "decode")
    /\ UNCHANGED <<infoVars, sourceVars, accessVars, world, order, opened, signature, reader,
                   version, calls, decoded>>
-----------------------------------------------------------------------------
\* Mutant: an array gives its first element.
FirstElement(k) ==
    LET field == world.fields[k].field
    IN  <<[kind |-> ValueKind(field), bytes |-> field.bytes,
           n |-> FieldValue(field, world.fields[k].info, world.buff, world.dataOffset, 0)]>>

\* The values of field k, appended to the record one behind another.
DecodedField(k) ==
    LET field == world.fields[k].field
    IN  [z \in 1..field.size |->
            [kind |-> ValueKind(field), bytes |-> field.bytes,
             n |-> FieldValue(field, world.fields[k].info, world.buff, world.dataOffset, z - 1)]]

DecodeField ==
    /\ stage = "decode" /\ decoded < Len(schema)
    /\ IF Handled(schema[decoded + 1])
       THEN /\ data' = data \o DecodedField(decoded + 1)
            /\ decoded' = decoded + 1
            /\ UNCHANGED stage
       ELSE Go("exit1") /\ UNCHANGED <<data, decoded>>
    /\ UNCHANGED <<infoVars, sourceVars, schema, access, getVars, iterVars, world, order, opened,
                   signature, reader, version, calls>>

RecordRead ==
    /\ stage = "decode" /\ decoded = Len(schema)
    /\ Go("access")
    /\ UNCHANGED <<infoVars, sourceVars, accessVars, world, order, opened, signature, reader,
                   version, calls, decoded>>

\* What the program asks of the record; the demo goes through its fields.
Ask ==
    /\ stage = "access"
    /\ \E ask \in world.asks :
          \/ ask.call = "get" /\ GetStart(ask.requests)
          \/ ask.call = "name" /\ ByName(ask.name)
          \/ ask.call = "iterate" /\ Begin
    /\ UNCHANGED <<infoVars, sourceVars, clientVars>>

Access ==
    /\ stage = "access" /\ AccessStep
    /\ UNCHANGED <<infoVars, sourceVars, clientVars>>

AccessEnds ==
    /\ stage = "access"
    /\ \/ access \in {"got", "named"} /\ Go("exit0")
       \/ access = "iterating" /\ iterators["it"].index > Len(schema) /\ Go("exit0")
       \/ access = "thrown" /\ Go("exit1")
       \/ access = "undefined" /\ Go("undefined")
    /\ UNCHANGED <<infoVars, sourceVars, accessVars, world, order, opened, signature, reader,
                   version, calls, decoded>>

Next ==
    \/ Detect \/ ChooseClient \/ DiscoverArchives
    \/ OpenMPQ \/ OpenCASC \/ OpenFile
    \/ ReadSignature \/ Rewind \/ Dispatch \/ ReadHeader \/ CallSource
    \/ FirstRow \/ DecodeField \/ RecordRead
    \/ Ask \/ Access \/ AccessEnds

Spec == Init /\ [][Next]_vars
=============================================================================
