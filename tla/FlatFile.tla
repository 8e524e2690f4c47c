------------------------------ MODULE FlatFile ------------------------------
(***************************************************************************)
(* The readers of flat tables: DBCFile (DBCFile.hpp) and DB2File for WDB2  *)
(* (DB2File.hpp): open() and operator[].                                   *)
(*                                                                         *)
(* A file is its header and its length.  What its bytes say is left open:  *)
(* a number is the place it is read from, a string the place it starts at, *)
(* and RefAt gives the string reference at a place.                        *)
(***************************************************************************)
EXTENDS Integers, Sequences

CONSTANTS
    Tables,     \* the files a run reads, each with how it is opened
    RefAt(_),   \* the string_ref_t in the four bytes at a position
    Wrap,       \* uint32_t counts modulo this
    MaxCalls,   \* bound: calls of operator[]
    MaxIndex    \* bound: the index of a call

Formats == {"WDBC", "WDB2"}
DBCVersions == {"VANILLA", "BC_WOTLK", "CATA_PLUS"}
Types == {"INT", "FLOAT", "STRING", "LANG_STRING"}

Field == [type : Types, bytes : 0..255, size : 1..255]

TableShape ==
    [format : Formats, version : DBCVersions, legacy : BOOLEAN, locale : 0..15,
     schema : Seq(Field),
     header : [signature : Formats \union {"other"}, recordCount : Nat, fieldCount : Nat,
               recordSize : Nat, minId : Nat, maxId : Nat],
     length : Nat]

ASSUME TablesAssumption == Tables \subseteq TableShape

ASSUME BoundsAssumption ==
    /\ Wrap \in Nat \ {0} /\ MaxCalls \in Nat /\ MaxIndex \in Nat
    /\ \A p \in 0..Wrap : RefAt(p) \in Nat

VARIABLES
    table,
    pc,
    dataOffset,     \* bytes between the header and the records
    pos,            \* position of the file source
    buffer,         \* where the record buffer was read from
    index, field, z, bufferOffset, viewOffset, record,   \* of the call of operator[]
    calls

call == <<index, field, z, bufferOffset, viewOffset, record>>
vars == <<table, pc, dataOffset, pos, buffer, call, calls>>

schema == table.schema
header == table.header
-----------------------------------------------------------------------------
StringRef == 4      \* sizeof(string_ref_t), and of the flags
StringData == 8     \* sizeof(string_data_t), a unique_ptr

\* Strings of a DBCLangString, each for a locale.
LangStrings ==
    CASE table.version = "VANILLA" -> 8
      [] table.version = "BC_WOTLK" -> 16
      [] OTHER -> 1

\* One string for each locale and flags behind them.
Localized(f) ==
    f.type = "LANG_STRING" /\ table.format = "WDBC" /\ table.version # "CATA_PLUS"

\* Size of an element whose strings take `str' bytes.
ElementSize(f, str) ==
    CASE Localized(f) -> LangStrings * str + 4
      [] ~Localized(f) /\ f.type \in {"STRING", "LANG_STRING"} -> str
      [] OTHER -> f.bytes

\* The sum of recordSize<StrT> behind each field.
SizesUpTo(str) ==
    LET sum[k \in 0..Len(schema)] ==
            IF k = 0 THEN 0 ELSE sum[k - 1] + ElementSize(schema[k], str) * schema[k].size
    IN  sum

RecordSize(str) == SizesUpTo(str)[Len(schema)]

\* Localized strings are not counted by the size of their field.
ElementCountSrc ==
    LET sum[k \in 0..Len(schema)] ==
            IF k = 0 THEN 0
            ELSE sum[k - 1] + IF Localized(schema[k]) THEN LangStrings + 1 ELSE schema[k].size
    IN  sum[Len(schema)]
-----------------------------------------------------------------------------
Init ==
    /\ table \in Tables
    /\ pc = "new"
    /\ dataOffset = 0 /\ pos = 0 /\ buffer = 0
    /\ index = 0 /\ field = 1 /\ z = 0 /\ bufferOffset = 0 /\ viewOffset = 0
    /\ record = << >> /\ calls = 0

HeaderSize == IF table.format = "WDBC" THEN 20 ELSE 48

CanRead(bytes) == pos + bytes <= table.length

\* Mutant: the size of a record is not compared.
CountsRejected ==
    header.signature # table.format \/ header.fieldCount # ElementCountSrc

Rejected ==
    \/ header.signature # table.format
    \/ header.fieldCount # ElementCountSrc
    \/ header.recordSize # RecordSize(StringRef)

\* The id and string length tables of WDB2, an entry of each for every id.
IdTables ==
    IF table.format = "WDB2" /\ header.maxId # 0
    THEN 6 * ((header.maxId - header.minId + 1) % Wrap) ELSE 0

\* The constructor refuses a locale that the version has not.
Open ==
    /\ pc = "new"
    /\ IF \/ table.format = "WDBC" /\ ~table.legacy /\ table.version = "VANILLA" /\ table.locale >= 8
          \/ ~CanRead(HeaderSize) \/ Rejected
       THEN pc' = "refused" /\ UNCHANGED <<dataOffset, pos>>
       ELSE pc' = "ready" /\ dataOffset' = IdTables /\ pos' = HeaderSize
    /\ UNCHANGED <<table, buffer, call, calls>>

size == header.recordCount

\* The products are uint32_t.
RecordPos(i) == HeaderSize + dataOffset + ((header.recordSize * i) % Wrap)

\* Mutant: the tables in front of the records are forgotten.
StringsWithoutIds == HeaderSize + ((header.recordSize * size) % Wrap)

StringBlock == HeaderSize + dataOffset + ((header.recordSize * size) % Wrap)

Idle == pc \in {"ready", "returned", "thrown"}

\* operator[]: the source is set to the record, whether there is one or not.
Ask(i) ==
    /\ Idle /\ calls < MaxCalls
    /\ calls' = calls + 1
    /\ index' = i
    /\ pos' = RecordPos(i)
    /\ pc' = "asked"
    /\ UNCHANGED <<table, dataOffset, buffer, field, z, bufferOffset, viewOffset, record>>

Throw == pc' = "thrown" /\ UNCHANGED <<field, z, bufferOffset, viewOffset, record>>

ReadRecord ==
    /\ pc = "asked"
    /\ IF CanRead(header.recordSize)
       THEN /\ buffer' = pos /\ pos' = pos + header.recordSize
            /\ pc' = "decoding"
            /\ field' = 1 /\ z' = 0 /\ bufferOffset' = 0 /\ viewOffset' = 0 /\ record' = << >>
       ELSE Throw /\ UNCHANGED <<pos, buffer>>
    /\ UNCHANGED <<table, dataOffset, index, calls>>
-----------------------------------------------------------------------------
Decoding == pc = "decoding" /\ field <= Len(schema)

This == schema[field]

Number(at, bytes, view) == [kind |-> "number", at |-> at, bytes |-> bytes, view |-> view]
String(at, view) == [kind |-> "string", at |-> at, view |-> view]

\* The elements read, on to the next one of the field or to the next field.
Insert(elements, bytes, view) ==
    /\ record' = record \o elements
    /\ bufferOffset' = bufferOffset + bytes
    /\ viewOffset' = viewOffset + view
    /\ IF z + 1 < This.size THEN z' = z + 1 /\ UNCHANGED field
       ELSE z' = 0 /\ field' = field + 1
    /\ UNCHANGED pc

\* schemaFieldHandler has no integer of another size.
InsertNumber ==
    /\ Decoding /\ This.type \in {"INT", "FLOAT"}
    /\ IF This.type = "FLOAT" \/ This.bytes \in {1, 2, 4, 8}
       THEN Insert(<<Number(buffer + bufferOffset, This.bytes, viewOffset)>>, This.bytes, This.bytes)
       ELSE Throw
    /\ UNCHANGED pos

\* Where the string is whose reference is `k' references into the element.
StringAt(k) == StringBlock + RefAt(buffer + bufferOffset + StringRef * k)

\* Mutant: a reference to the end of the file counts as one behind it.
BeforeTheEnd(k) == StringAt(k) < table.length

\* readCurrentString throws behind the end of the file, and only there.
Readable(k) == StringAt(k) <= table.length

\* Reads one string; `bytes' is the size of its element.
InsertStringOf(k, bytes) ==
    /\ pos' = StringAt(k)    \* and on by the bytes read: the next read sets it anew
    /\ IF Readable(k) THEN Insert(<<String(StringAt(k), viewOffset)>>, bytes, StringData)
       ELSE Throw

InsertString ==
    /\ Decoding /\ This.type \in {"STRING", "LANG_STRING"} /\ ~Localized(This)
    /\ InsertStringOf(0, StringRef)

\* Mutant: the flags behind the strings are not skipped.
RefsOnly == LangStrings * StringRef

LangStringSize == LangStrings * StringRef + 4

\* A runtime record has the string of one locale.
InsertLangString ==
    /\ Decoding /\ Localized(This) /\ ~table.legacy
    /\ InsertStringOf(table.locale, LangStringSize)

\* A fixed record has them all, and the flags.
InsertLegacyLangString ==
    /\ Decoding /\ Localized(This) /\ table.legacy
    /\ IF \A k \in 0..LangStrings - 1 : Readable(k)
       THEN /\ Insert([k \in 1..LangStrings |-> String(StringAt(k - 1), viewOffset + StringData * (k - 1))]
                      \o <<Number(buffer + bufferOffset + StringRef * LangStrings, 4,
                                  viewOffset + StringData * LangStrings)>>,
                      LangStringSize, LangStrings * StringData + 4)
            /\ pos' = StringAt(LangStrings - 1)
       ELSE /\ Throw
            /\ \E k \in 0..LangStrings - 1 :
                ~Readable(k) /\ (\A j \in 0..k - 1 : Readable(j)) /\ pos' = StringAt(k)

Insertion ==
    /\ InsertNumber \/ InsertString \/ InsertLangString \/ InsertLegacyLangString
    /\ UNCHANGED <<table, dataOffset, buffer, index, calls>>

Return ==
    /\ pc = "decoding" /\ field > Len(schema)
    /\ pc' = "returned"
    /\ UNCHANGED <<table, dataOffset, pos, buffer, call, calls>>

CallStep == ReadRecord \/ Insertion \/ Return

Next == Open \/ CallStep \/ \E i \in 0..MaxIndex : Ask(i)

Spec == Init /\ [][Next]_vars
-----------------------------------------------------------------------------
Holds == INSTANCE FlatRows

\* Less than 2^32 bytes of records, and of ids.
NoWrap ==
    /\ header.recordSize * size < Wrap
    /\ table.format = "WDB2" /\ header.maxId # 0 => header.maxId - header.minId + 1 \in 0..Wrap - 1

(* A record has, in the order of the schema, the numbers and the strings   *)
(* the file holds for its row, whatever was read before: the number of     *)
(* locales, flags, the id tables of WDB2 and the place of the string block *)
(* all shift what is read (DBCFile.hpp:292-409, DB2File.hpp:886-943).      *)
RowDecoded ==
    pc = "returned" /\ index < size /\ NoWrap =>
        [k \in DOMAIN record |-> <<record[k].kind, record[k].at>>] = Holds!RowParts(table, index)

(* A row is refused if the file is cut short in it, if one of its strings  *)
(* lies behind the end, or if its schema has an integer of an odd size,    *)
(* and for no other reason; a row after a refused one is not affected      *)
(* (DBCFile.hpp:292-409, DB2File.hpp:886-943).                             *)
RefusedRows ==
    pc \in {"returned", "thrown"} /\ index < size /\ NoWrap =>
        (pc = "returned" <=> Holds!RowReadable(table, index))

(* open() compares the header with sizes computed from the schema;         *)
(* operator[] walks the schema again, by the types its handler makes of    *)
(* the fields (DBCFile.hpp:310-406).  The walk never leaves the record     *)
(* buffer, and it ends with the whole buffer read and the whole            *)
(* destination of a fixed record written, each value behind the one before.*)
WalkFitsRecord ==
    /\ Decoding => bufferOffset + ElementSize(This, StringRef) <= header.recordSize
    /\ pc = "returned" =>
        /\ bufferOffset = header.recordSize
        /\ table.legacy => viewOffset = RecordSize(StringData)
    /\ \A k \in 1..Len(record) - 1 :
        record[k + 1].view = record[k].view
            + (IF record[k].kind = "string" THEN StringData ELSE record[k].bytes)
=============================================================================
