# WDBReader in TLA+

WDBReader is a C++20 library that reads the client databases of World of
Warcraft: DBC files, WDB2 files and the WDC3, WDC4 and WDC5 formats ("DB2"), from
a directory, an MPQ archive or CASC storage, with schemas given in code or read
from WoWDBDefs texts. This directory holds specifications of its readers, the
TLC configurations that check them on small files, and theorems that hold for
every file.

The library is sequential: it starts no thread, has no lock and persists
nothing. What makes it hard is elsewhere. A reader is a cursor that several
reads move, each from wherever the one before left it; a table is put together
from sections, of which some cannot be decrypted; one buffer, one cursor and one
map are shared by all calls of a `const` operator; every read may throw and
leave what was done so far; and nearly every file is whole, so the tests never
see the rest.

## 1. Inventory

| component | state | operations | correct when |
|---|---|---|---|
| **DB2File** `DB2File.hpp:622-834` (WDC3/4/5) | `_structure` (header, section headers, id list, copy table, offset map and its ids, relationship map, common data), `_file_source`, `_loader` | `open`, `load`, `size`, `operator[]` | each table holds what the file has for it, also when sections are empty or unreadable; the id list has an id for each record |
| **DB2LoaderStandard, DB2LoaderSparse** `DB2File.hpp:133-619` | `_section_offsets`, `_buffer`, and the structure they share with DB2File | `loadSection`, `operator[]`, `getSectionIndex` | row i is the i-th record of all sections, copies follow them; ids, common data, strings and relations are those of the row; an unreadable record is said to be so |
| **WDB2 reader** `DB2File.hpp:836-955` | header, `_data_offset`, `_record_buffer` | `open`, `operator[]` | as DBCFile, with the id tables in front of the records |
| **makeDB2File** `DB2File.hpp:957-1000` | none | picks the format by its signature | exactly one reader gets the source, rewound |
| **field decoding** `DB2File.hpp:338-412` | none | `getRecordFieldValue`, `getBitpackedValue` | a value is what its bits say, whatever lies around them |
| **DBCFile** `DBCFile.hpp` | header, `_record_buffer`, version, locale | `open`, `operator[]` | sizes, counts and the walk over a record agree; a localized string is the one of its locale |
| **readCurrentString** `Formats.hpp:43-83` | buffer and two flags of the loop | one call | the bytes up to the first NUL or the end of the file |
| **DataSource::iterator** `Database.hpp:16-106` | `_index`, `_loaded_index`, `_val` | `begin`, `end`, `*`, `++` | every row once, in order |
| **Schema, records, accessors** `Schema.hpp` | fields, names, offsets; an iterator's index and loaded value | `operator[]`, `get<>`, iteration, `insertValue` | a value is the one of its name and is converted as asked for, or refused |
| **File sources** `Filesystem.hpp`, `NativeFilesystem.hpp` | position, bytes | `read`, `setPos`, `getPos`, `size` | a read that returns has its bytes from where the reader thinks it is, and all of them unless the source is CASC |
| **MPQ and CASC file systems** `Filesystem/*.cpp` | handles of stormlib and casclib, the order of archives | `open`, discovery of archives | a file comes from the archive that overrides the others |
| **DBDReader, makeSchema** `WoWDBDefs.cpp` | the lists of the block being read | `read`, `makeSchema` | a block has what its lines say; a build gets the first block that lists it |
| **Detection** `Detection.cpp` | lines and rows read so far | finds clients in a directory | each whole row of `.build.info` is a client; the next strategy answers for a broken file |
| **Utility** `Utility.hpp` | none | `split_string`, `GameVersion`, `DynArray`, `ScopeGuard` | versions compare by their four parts |
| **demo** `apps/demo` | the choices made so far | from a directory to a printed record | it opens the table that is there, with the reader of its format |
| **schema_gen** `apps/schema_gen` | none | writes a struct for a schema | the struct, its static schema and its assertion have one layout |

How they meet: `makeDB2File` reads the signature of a source and gives the
source to a DB2File, which opens and loads it and builds a loader over its
structure. A caller goes over the DataSource with its iterator, which calls
`operator[]`; that moves the source, fills the buffer, and calls
`readCurrentString` for each string, which moves the source again. The schema
that all of them walk may come from `makeSchema`, and the caller takes the record
apart with a `record_accessor` of that schema. The demo puts all of it together:
detection finds a client, its version chooses schema and DBC format, the archives
below it or the CASC storage give the source.

The hazards of this code, each at its line and with the properties that guard
it, are in `PROJECT.json`.

## 2. Modules

| module | models | lines |
|---|---|---|
| `DB2Format` | what a WDC file holds and what a read of it at a position returns | `DB2Format.hpp`, and the outside: file layout, the storage under a source |
| `DB2File` | `open()` and `load()`; both `loadSection()` | `DB2File.hpp:622-826`, 133-161 |
| `DB2Table` | the promise of a loaded table: the record at each index, and what a file must be to have one (`IsTable`) | abstract |
| `DB2Rows` (extends `DB2File`) | `operator[]` of both loaders | `DB2File.hpp:163-426, 444-619` |
| `MCFiles`, `MCLoad`, `MCRows`, `MCTables` | files for the runs, and the runs | |
| `CString`, `MCString` | `readCurrentString` | `Formats.hpp:43-83` |
| `FlatFile` | `open()` and `operator[]` of DBCFile and the WDB2 reader | `DBCFile.hpp`, `DB2File.hpp:836-955` |
| `FlatRows` | the rows of a flat file by its layout | abstract |
| `FlatTables`, `MCFlat` | files for the runs, and the run | |
| `Scan` (extends `FlatFile`) | a loop with `DataSource::iterator` over a flat table | `Database.hpp:16-106` |
| `RowScan`, `MCScan` | what iterating promises, and the run | abstract |
| `DBDefs` | `DBDReader::read` and `makeSchema` | `WoWDBDefs.cpp` |
| `SchemaGen` (extends `DBDefs`) | the struct written for a schema and what the compiler makes of it | `schema_gen/main.cpp`, `Schema.hpp` |
| `DBDText`, `MCDBDefs` | what a definition text means, and the run of both | abstract |
| `FieldBits` | a field's value in the bits of a record | `DB2File.hpp:338-412` |
| `Conversions` (extends `FieldBits`) | a value in the type a caller asks for | `Schema.hpp:419-470` |
| `Accessor` (extends `Conversions`) | iteration, names and `get<>` of a record | `Schema.hpp:190-520` |
| `Sources` | the memory, native, MPQ and CASC sources | `Filesystem.hpp`, `NativeFilesystem.hpp`, `Filesystem/*.cpp` |
| `FileSource` | what readers rely on in a source | abstract |
| `BuildInfo` | detection | `Detection.cpp`, `Utility.hpp` |
| `Archives` | discovery and order of the archives | `MPQFilesystem.cpp` |
| `Client` (extends `BuildInfo`, `Archives`, `Sources`, `Accessor`) | a program from detection to the values it gets, `makeDB2File` in it | `demo/main.cpp`, `DB2File.hpp:957-999` |
| `ClientProperties` (extends `Client`) | what a program that uses the library may rely on | properties |
| `ClientWorlds`, `MCClient`, `MCLimits`, `MCCasc`, `MCVersion` | installations, files and records for the runs, and the runs | |
| `LeastElement` | a set of numbers that is not empty has a least one; what holds at the start and at each step is reached; sums along a list | lemmas |
| `DB2FileProofs`, `DB2RowsProofs`, `CStringProofs`, `DBDefsProofs`, `ScanProofs`, `FlatProofs`, `ClientProofs` | theorems | |

### DB2File

`load()` is a loop over sections with five reads in it. Each read is an action
(`ReadIdList`, `ReadCopyTable`, `ReadOffsetMap`, `LoadOffsetMapIds`,
`LoadRelationships`) that first grows its vector, as the `resize` in the code
does, and then either fills the new entries or leaves them zero and ends in
`aborted`: the state an exception leaves is a state of the model. A file is a
record of entries rather than bytes, but positions are kept in bytes: `Taken`
gives the entries of a table only to a read that starts at the table's first
byte, and `Junk` to any other, so that a wrong entry size or a wrong order of
reads shows in what later reads return. The header flag that swaps the last two
tables decides the order in `IdsTurn`, `RelationsTurn` and `AfterKeys`. The
relationship header is not initialized in the code (`DB2File.hpp:812`); when the
read of an encrypted section writes nothing, the count in it is any number up to
`MaxStale`.

The file sources are outside: a read of an unreadable record may fill the buffer
with zeros, leave it as it was, or, in a table with an id list, scramble it
(`Got`), which is what the comments at `DB2File.hpp:213-214` expect of CASC. A
CASC source counts the bytes of an encrypted section and may not have moved over
them (`CASCFilesystem.cpp:15-18`). `MovesOver` says which; the theorems hold for
both, and the runs take the harder one, where the storage stays in front of such
bytes: a `setPos` at each section and each record is what makes it safe.

### DB2Rows and DB2Table

A call of `operator[]` is `Ask`, `Lookup` (a copy becomes the record it copies),
`FindSection` (one step for each section header), `ReadRecord` (the buffer, and
so everything an earlier call may have left in it) and `Decode`. Between steps a
read may throw. `DB2Table` says the same without cursor, buffer or walk: the
record at an index is read off the file by its place. `ImplementsTable` is its
safety part, with the answers of `DB2Rows` for its own and `ready` for the places
of `pc` behind `load()`; that a call also returns is `CallsReturn`.

The picture of a file (`DB2Format`) says how a file is laid out and nothing of what
is in it. `IsTable` in `DB2Table` says that, in six parts: `PlacesApart` (no two
records share a place, and only what has a key can be unreadable), `OffsetsLead`
(the offset map leads to the records), `IdsTell` (a record has one id, which is not
0), `CopiesStand` (a copy is of a record of its section, and no other has its id),
`StringsLead` (a reference leads to its own string) and `RelationsThere` (where the
schema has a relation there are relation entries). A file that open() and load()
accept and that is no `IsTable` may give records the format does not mean; two
such files are the subject of `inline_copies` and `no_relations`.

`DB2Table` also states the limits of the library as its users meet them: tables
whose relations are keyed by ids, and common data in front of an inline id or in
a sparse table, throw for every row.

### FlatFile, FlatRows

One module for both flat formats, since WDB2 differs in its header, its id tables
and its lack of localized strings. A number is represented by the place it is
read from, a string by the place it starts at; `RefAt` gives the reference stored
at a place. `Insert` is one turn of the inner loop, with the offsets into the
record buffer and into the destination; a localized string is one turn, for a
runtime record (one locale) or a fixed one (all of them and the flags). `uint32_t`
products wrap at `Wrap`. `FlatRows` has the same rows from the layout alone: the m-th
part of a row is found by the sums of the bytes and of the parts in front of its
field, without reading what lies before it.
A string is refused where `readCurrentString` throws, which is what `CString`
shows of it: behind the end of the file and nowhere else.

### Scan, RowScan

`Scan` is a `for` loop over a table, with the calls of `operator[]` it makes
running in `FlatFile`. The caller may look at a row again, and leave the loop at
the first exception or go on behind it. `RowScan` promises rows in order, each
once, as they are in the file, none missed but those that throw, and an end.

### CString

The chunk loop over a native file source. The count of bytes left is a `size_t`:
`Left` wraps modulo `Modulus` when the position is behind the end.

### DBDefs, DBDText

`read()` a line at a time and `makeSchema()`. A line is what its tokens say; one
kind, `"bad"`, stands for all the lines whose tokens make the reader throw.
`DBDText` reads a text as a whole: columns up to the first blank line, blocks as
the longest runs of other lines behind that, and a block as the join of what its
lines add to each list.

A definition's size is at most `MaxBits` and its array at most `MaxArray`: the bytes
of an element are kept in a `uint8_t` (`Schema.hpp:135`), and `makeSchema` asserts the
length of an array (`WoWDBDefs.cpp:271`). The reader checks neither.

### SchemaGen

Operators, over a schema that `makeSchema` of `DBDefs` has made: the member that
`write_data_section` writes for a field, the field of the static schema, the
places of the commas, and the `static_assert` on the size. The members' names are
left out. A localized string is a packed struct of eight or sixteen string members
and flags (`DBCFile.hpp:109-125`); its size is summed from those members
(`LangStringStruct`), and apart from that `recordSize` has constants of its own
(`LangStringSize`), so that the two can disagree. `GeneratedSchema` speaks of schemas whose integers are C++ types
(`Compiles`).

### Client

One variable, `stage`, says where the program is, and each step of the demo is an
action: `Detect` (a line of `.build.info`, the end of it, the hints),
`ChooseClient`, `DiscoverArchives`, `OpenMPQ` or `OpenCASC`, `ReadSignature`,
`Rewind` and `Dispatch` of `makeDB2File`, `ReadHeader`, `CallSource` for the
reads of a table, `FirstRow`, `DecodeField` for each field, and the calls of
`Accessor`. `OpenFile` enters with a source of any kind, and a run may start at
the record as well, since the examples of the repository do both. A program ends
in `exit0`, in `exit1` (the handler of `main`), in `stopped` (an assertion of a
source), in `unread` (a null pointer that the caller may test) or in
`undefined` (an empty result nobody tests, or data read that is not there). Every
action has its state in the module it comes from; `Client` only connects them.

What the world holds is a record that never changes: a directory, its archives
and those that have the file, the file's signature, size and versions, the first
record's bits and fields, and what will be asked of it.

### FieldBits, Conversions, Accessor

A buffer is its bits, lowest first, and `getBitpackedValue` is its two shifts of a
64-bit word; `Shiftable` is the condition under which they are defined. A byte has
`ByteBits` bits, so that a run can enumerate whole types while the theorems hold
for eight. `Conversions` has the casts, the sign and `bounds_check` with the
type each comparison is made in. `Accessor` has the two ways of a caller: `get<>`,
a field of the schema in each step, which fills the requests, and iterators with
the copy that `it++` returns, each with the value it has loaded and the index it
is of.

### Sources, FileSource

Behind each source is a second position, the stream's or the library's
(`handle`), which `pos`, what `getPos` tells, follows or not. stormlib and casclib
fail at any call, at most `MaxFailures` times; casclib may also give fewer
bytes than were asked for, or none of bytes that are encrypted, and not tell whether
it has moved over them. `FileSource` is the
promise: behind a `setPos` and reads that gave all they were asked for, the next
read has the bytes that follow, inside the file. A memory, native or MPQ read gives
all bytes or throws. A CASC read asks only whether casclib has failed and never how
much it gave (`CASCFilesystem.cpp:9-20`): it may give the first bytes, as many as the
file has left, or none, and return, with the position moved by all of them
(`ReadLess`). The place is then unknown until the next `setPos`. Whoever reads a
signature or a header from a CASC file too short for it is in `UndefinedOnly`
(`CutOff`).

### BuildInfo, Archives

A line is its columns, cut already; a version is the number of each part, and a
part the type cannot hold stays 0. An archive's name is a sequence of words, since
the comparison only asks which name starts with which and which is greater.
`Orders` are the results a sort may have: any order at all where the comparison is
no strict weak order.

## 3. Runs

| run | checks | bounds | distinct states |
|---|---|---|---|
| `tables` | `RowsTypeOK`, `IdListMatchesHeader`, `TablesLoaded`, `SectionInRange`, `ImplementsTable`, `CallsReturn` | 9 schemas, standard, sparse and refused tables, 1-2 sections of 0-2 records, 0-1 copies, every key state; calls without limit; one read that throws, before, between or during calls | 359 816 |
| `flat` | `WalkFitsRecord`, `RowDecoded`, `RefusedRows` | 9 ways to open, 7 schemas, 0, 2 or 4 rows, 5 lengths; 3 calls | 34 434 |
| `scan` | `ReadOnce`, `ImplementsScan`, `ScanEnds` | the tables of `flat` that are accepted | 4 293 |
| `strings` | `StringRead`, `ThrowsBehindEnd`, `Returns` | files of 0-7 bytes, chunks of 3, starts up to 8 | 88 468 |
| `definitions` | `ColumnsResolve`, `TextRead`, `SchemaOfBuild`, `GeneratedSchema` | texts of up to 5 lines of 7 kinds behind 2 lists of columns, and odd ones | 457 335 |
| `client` | `ClientTypeOK`, `DetectedRight`, `OpenedOverrides`, `OpensTable`, `Decoded`, `GivesItsField`, `UndefinedOnly`, `GetReturnsFields`, `GetMatches`, `ImplementsFileSource` | seven families of worlds, see below | 292 952 |
| `limits` | `RefusedIsTooLarge` is violated | one field of every type, asked for in every type | |
| `reload` | `IdListMatchesHeader` is violated | `load()` twice | |
| `inline_copies` | `CopiesAnswered` is violated | one section | |
| `no_relations` | `RecordsComplete` is violated | one section | |
| `short_read` | `AllOrNothing` is violated | CASC files of every size below, no library fails | |
| `release_format` | `FormatOfVersion` is violated | the five versions that a test names | |

Why the bounds are enough. Two sections have everything that concerns sections:
a first and a later one, an empty one in front of or behind another, a readable
one next to one without its key. Two records are a first and a last; a copy of the
last record has a row that is not at the start. A table keeps no other memory
between calls than buffer and relation map, and the runs let calls follow each
other without limit (`tables`), so every pair of calls happens. A
chunk of 3 in 7 bytes has a string that ends in its first, its last and no byte of
a chunk, a file that ends with a chunk and one that does not. Five lines hold two
blocks and the blank lines around them. The lengths of the flat files cut
them in a record, between records, in the strings and behind everything, and two
schemas make four rows exceed `Wrap`. A DB2 file has at most `MaxBytes` bytes of records
(`BytesAssumption`), so that the `uint32_t` products of `DB2File.hpp:195` and 267 do not
wrap, and stormlib is asked for positions up to `MaxLong` only, since
`MPQFilesystem.cpp:21` hands them over as a `LONG`: tables and archives beyond either
bound are not modelled. In a DB2 schema a string field is stored as it is and never as
common data, whose strings are left out.

The worlds of `client` vary one part of a base world at a time, in a family each,
because the parts meet only in what one hands to the next: a product of them would
repeat the same cases. `.build.info` has up to 3 lines of 9 kinds (`MaxLines`; a
header, a row, and a third that has too many columns or none), with and without
executables and `Data`; up to 3 archives of a pool of 12 (`MaxArchives`; a
comparison needs three to lack transitivity); versions on both sides of each
limit; every way to fail to open; sources of 0, 1, 2 and 5 units and one that is not
there, with one failure of a library (`MaxFailures`) at any call and two calls
behind the open; fields of every integer size and compression at offsets within
and across bytes of 2 bits (`ByteBits`), over five buffers and both kinds of bytes
behind the record; a value of each type at 0, 1 and both sides of its sign, in every type asked
for, alone and as an array shorter and longer than the field; three fields, two of
one name, with up to two requests, in records that lack their last values.

`CHECK_DEADLOCK FALSE` is in every configuration because a caller makes a bounded
number of calls and then stops, or because the function modelled ends.

### What the properties say

* `TablesLoaded`: after `load()`, each table of each readable section is what the
  file has, section behind section; an unreadable section has left zeros.
* `SectionInRange`: the section an index is resolved to exists, and the record is
  one of its own: the results index two vectors without a check.
* `ImplementsTable`: each answer is the promised record, or an exception of the
  source. The runs of it are of `MCTables`, which has TLC evaluate that their files
  are tables (`TablesAssumption`), the assumption the proof is made under.
* `CallsReturn`: every call of `operator[]` ends, in particular the walk over
  sections without records.
* `WalkFitsRecord`: three pieces of code compute the layout of a record
  (`elementCountSrc`, `recordSize`, the walk); the walk stays in the buffer, ends
  at its end, and fills a fixed record without gap.
* `RowDecoded`, `RefusedRows`: rows of a flat table, whatever was read before
  them; a row throws for what is wrong with it and not for what was wrong with the
  one before. Both are stated for indices below `size()` and tables with less than
  `Wrap` bytes of records and `Wrap` ids (`NoWrap`); `operator[]` checks neither.
* `ReadOnce`, `ImplementsScan`, `ScanEnds`: the iterator. `begin()` reads row
  0 for a value that is never used, so a loop over n rows makes n + 1 calls, and a
  table whose first row throws cannot be iterated at all.
* `StringRead`, `ThrowsBehindEnd`, `Returns`: the string, the error and the end.
* `TextRead`, `SchemaOfBuild`, `ColumnsResolve`: the blocks of a text, the first
  block that lists a build, and that `makeSchema` has a type for every definition.
* `GeneratedSchema`: for each schema a text gives, if its integers are C++ types, the
  members written, the static schema and the size asserted agree, so that a record read with the static schema
  fills the struct without gap.
* `DetectedRight`: the clients of a directory, by the whole file at once: one row of
  another length takes all clients away and hands over to the executables.
* `OpenedOverrides`: the archive a file is taken from overrides all others that
  have it.
* `OpensTable`: nothing but the table that is there is ever opened, by the reader
  of its own format; and while no library fails a program that has such a table ends
  well, unless its record is encrypted or what it asks of the record cannot be given
  (`AskedAmiss`).
* `Decoded`: each value is what the bits at its place say, though the code reads
  eight bytes around them.
* `GivesItsField`: an iterator and its copy never show the value of another field.
* `GetReturnsFields`, `GetMatches`: what `get<>` returns, and that it returns for
  names asked for once and found, and only for those. A value is the number asked for,
  or its bits between integers of one size (`ReadAs`); the one exception is the sign
  that is lost (`SignLost`), a defect told of below.
* `UndefinedOnly`: the list of situations in which a program does what C++ leaves
  undefined; in all others it does not.
* `ImplementsFileSource`: each source is a `FileSource`. It catches a native or MPQ
  read that gives less without a word, and a CASC read whose bytes are taken for those
  of another place.
* `AllOrNothing`, `FormatOfVersion`: what a comment and a test say, and the code does not
  keep (`short_read`, `release_format`).

### Fairness

One thread runs each call to its end, so the steps inside a call are weakly fair:
`ReadStep` in DB2, `Next` of `CString`, and `Progress` of `Scan`,
which is the loop itself and the call it waits for; looking at a row again is not
part of it. Calls of `open`, `load` and `operator[]` that a caller may or may not
make are not fair. `FlatFile` and `DBDefs` state no liveness, and `Client` none
either: its caller may look at a field for as long as it likes.

### Where code and documents part

* `reload`: `load()` appends to its tables and never empties them, so calling it
  again, after an exception or not, breaks the assertion at `DB2File.hpp:773`.
* `inline_copies`: copies are looked up in an id list that a table with inline ids
  does not have, so every copy that `size()` counts throws, and the loop of
  the repository's `README.md:63` ends there. The code for it
  (`DB2File.hpp:245-257`) is never reached.
* `no_relations`: a table with a relation column and no relation entry gives
  records without the column, against the assertion at `DB2File.hpp:331`.
* `limits`: `bounds_check` (`Schema.hpp:438`) compares a value with
  the destination's limits in a type that C++ chooses. The negative minimum of an
  `int16_t` becomes a large number when the value is a `uint32_t` or a `uint64_t`,
  and the minimum of a float is the smallest number above 0. So `get<int16_t>` of
  a `uint32_t` field that holds 1, or `get<float>` of a `uint64_t` field that holds 0,
  throws "Numeric limits exceeded".
* `short_read`: `CASCFileSource::read` says that a read which gets there gave all bytes
  or none (`CASCFilesystem.cpp:15`) and has the check of it commented out (line 20). A
  read of more than the file has left returns with fewer, and the position moves by all.
* `release_format`: a test names the version 2.0.0.5991 and its format, VANILLA
  (`DatabaseDBCTest.cpp:192-194`), which `getDBCVersion` has; the demo opens its tables as
  BC_WOTLK (`main.cpp:186`). The theorem `FormatTaken` has all the versions for which the
  two differ: those before 1.0 and from 2.0 up to 2.1.0.6692.
* In `client`: a signed integer asked for as a float of its own size loses its sign,
  because `val_read` looks at the sign only between types of two sizes
  (`Schema.hpp:446`): -1 of a signed `uint32_t` field becomes 4294967295. `GetReturnsFields`
  excepts exactly that (`SignLost`), the worlds of the run have such requests, and the
  theorem `NegativeIsLost` shows the loss for every negative number.

The passing runs keep away from the first three: `MaxLoads = 1`, `InlineCopies =
FALSE`, `Related = TRUE`. `GetReturnsFields` speaks of what `get<>` returns, so
that a refusal that is not needed does not concern it.

Seen on the way, modelled as the code has it, and named where a property makes an
exception for it:

* The comparison of the archives takes a whole path for a stem
  (`MPQFilesystem.cpp:116`). Two archives of one directory below the root, of which
  neither name starts with the other, are then each compared with that directory's
  name and may both come first; `OpenedOverrides` leaves their order open
  (`Entangled`).
* A float is cast to an integer at least as wide without a check
  (`FloatMisfit`).
* Floats in bit-packed and pallet storage are converted as numbers, not as their
  bytes (`DB2File.hpp:373-395`); `Decoded` says nothing of them.
* A version's part that its type cannot hold is 0 without a word
  (`Utility.hpp:94`).
* `schema_gen` writes every integer unsigned, since `Annotation` does not compare
  the sign; an integer of three bytes as a type C++ does not have, so that the struct
  does not compile; and for a schema without fields an assertion
  that fails, because an empty struct has a byte.
* A size in a definition text that is above `MaxBits` would lose its upper bits in
  `Field::bytes` without a word.
* casclib is asked for `frFr` (`CASCFilesystem.hpp:74`) and detection says `frFR`.

## 4. Proofs

All for every value of the constants: any set of files, texts or tables, any
size of a chunk, any bound.

| theorem | says | argument |
|---|---|---|
| `TypeCorrect` | `Spec => []TypeOK` in `DB2File` | the invariant is inductive with the facts about a well-formed file that `IsFile` gives |
| `LoadedOnceMatchesHeader` | with `MaxLoads = 1`, `[]IdListMatchesHeader` | `CountedIds`: at each place of the loop the id list has the records of the sections passed, `starts[sec]` of them |
| `LoadedOnceTables` | with `MaxLoads = 1`, `[]TablesLoaded` | `LoadInv`: where the source stands before each read (`CursorKnown`), how far each table has grown (`TablesCounted`), that what was read of each section is in its place (`IdsPlaced` and the like), and that each relation read is the first of its record (`RelationsFirst`) |
| `SectionsInRange` | with `MaxLoads = 1`, `RowsSpec => []SectionInRange` | `RowsInv`: the running ends are the file's, the id list is full or absent, and the walk has taken off what it passed (`rest + starts[section] = lookup`) |
| `RowsTypeCorrect` | with `MaxLoads = 1`, `RowsSpec => []RowsTypeOK` | `TypedInv`: `RowsInv`, that the common data is the file's (`CommonKnown`), and of which types index, lookup, buffer and answer are at each place of a call (`CallTyped`, `IndexAsked`) |
| `RowsImplementTable` | with `MaxLoads = 1` and `FilesAreTables`, `RowsSpec => ImplementsTable` | `TableInv`, see below |
| `CopiesAreAnswered`, `RecordsAreComplete` | under the same, `[]CopiesAnswered` and `[]RecordsComplete` | from `TableInv`: in a table the row of a copy is found, and a record with a relation finds the map not empty |
| `StringsRead`, `BehindEndThrows` | `CString` is right for every file, start and chunk size | `LoopInv`: without a NUL so far the buffer holds the bytes from start to position; behind the end nothing has been read |
| `DefinitionsResolve` | `Spec => []ColumnsResolve` in `DBDefs` | `ResolvedInv`: the block being read resolves too, and a column never changes its type |
| `ReadsWhatIsMeant`, `FirstBlockThatLists` | `Spec => []TextRead` and `Spec => []SchemaOfBuild`, for any texts and builds | `TextInv`, see below |
| `GeneratedAgrees` | `Spec => []GeneratedSchema`: any schema a text gives, any number of fields | `SchemaInv`: a schema made has only fields that a `Field` can hold; one such field and its static one are equal and of the size of the member that is written, a localized string's summed from its packed parts (`StaticRight`), and equal lists have equal sums |
| `WalkAlwaysFits` | `Spec => []WalkFitsRecord` in `FlatFile` | `WalkInv`: at each turn of the walk both offsets are the sizes of the fields passed and of the elements passed in this one, so they end at the sizes of the whole |
| `RowsDecodedRight`, `RowsRefusedRight` | `Spec => []RowDecoded` and `Spec => []RefusedRows` in `FlatFile` | `RowInv` on top of `WalkInv`, see below |
| `SourcesImplementContract` | `SourceSpec => ImplementsFileSource` | `SourceInv` (theorem `SourceInvariant`): a source whose reads since its last `setPos` gave all they were asked for stands where its stream or library does; a CASC read that came short is `ReadLess` or `Lost` and ends that |
| `ProgramsImplementContract` | `Spec => ImplementsFileSource` in `Client` | `OpensOnce`: a program opens its source once and calls it only while it is open, so its steps are `SourceNext` |
| `GetMatchesAlways` | `Spec => []GetMatches` in `Client` | `GetInv`: the requests found are those whose names the fields passed have, each found once |
| `FieldGivenAlways` | `Spec => []FieldGiven` in `Client`, the part of `GivesItsField` that is about the accessor | `IteratorInv`: what an iterator or its copy has loaded is the value of the index it was loaded from, and the data it was taken from is not added to once the record has been asked for |
| `BitpackedBitsOfPlace` | the two shifts cut out the value's bits and zeros above them | case by case for each bit of the word, for a byte of any number of bits |
| `SignExtended` | xor and minus give the two's complement | by the half the number is in |
| `DetectedRightAlways` | `Spec => []DetectedRight`: a client for each whole row of any `.build.info`, or one for an executable | `DetectInv`: header and rows are the lines with columns among those read, `Picked` of them; at the end `Column` is the least place of a name |
| `OpenedOverridesAlways` | `Spec => []OpenedOverrides`, for any set of archives | where no two are entangled the comparison is `Overrides`, a strict total order of class, number and name (lexicographic, each part one); a sort by it has each archive once, as many places as archives, so the first that has the file overrides the others |
| `FormatTaken` | in `Client`, always: the demo's version is `getDBCVersion`'s, unless the client is before 1.0 or from 2.0 up to 2.1.0.6692, and differs for exactly those | `VersionInv`: the version is the demo's choice for the first client; `FormatsDiffer` compares the two chains of limits |
| `DecodedAlways` | `Spec => []Decoded` in `Client` | see below |
| `GivesItsFieldAlways` | `Spec => []GivesItsField` | `FieldGiven`, and `GivesInv` over `DataInv`: at the offset of each field the data has what its bits say, or what the record was made of |
| `ReadIsAsked` | a value that is not refused is read as the number the field holds, or its bits between integers of one size, for every value, field and type asked for but the one of `SignLost`, where it is the number of the bits | the limits of a type are those of its bytes, and the range of a narrower one is at most half of a wider one's (`SpanGrows`), so that what passes `bounds_check` is not changed by the cast |
| `NegativeIsLost` | a negative number of a signed integer asked for as a float of its size is never refused and never given as itself | no sign is taken and nothing compared, so the cast is of the bits |
| `GetReturnsFieldsAlways` | `Spec => []GetReturnsFields` | `ResultInv`: each request found is answered (`Answered`) by a field of its name, with `GetInv` for which those are |
| `OpensTableAlways` | `Spec => []OpensTable`, for any installation and any failures | `WayInv`, see below |
| `UndefinedOnlyAlways` | `Spec => []UndefinedOnly` | `EndsInv`: at each end one of the named causes is there, see below |
| `ClientTypesAlways` | `Spec => []ClientTypeOK` | the types of a record's and a program's own variables are inductive with `WayInv` and `DataInv` |
| `RowsReadOnce` | the loop over a table of any size | `LoopInv`: at each place of the loop, calls made against the iterator's index; the call in progress is for that index; the rows given lie in front of it |
| `ScanKeepsPromise` | `ScanSpec /\ []NoWrap => ImplementsScan` | `ScanInv`: on top of `LoopInv`, `WalkInv` and `RowInv`, the rows between the last one given and the iterator cannot be read (`FrontInv`) |

`RowsImplementTable` is the one that says most: whatever calls came before, the
record that the code puts together from cursor, buffer, walk and maps is the one
`DB2Table` reads off the file. Its invariant `TableInv` has, besides `TypedInv`
and, while `load()` runs, `LoadInv`:

* `FileChecked`: the checks of `open()` and `load()` have let this file through, the
  sections behind `sec` aside, so that a loaded file is an accepted one and
  `FilesAreTables` speaks of it;
* `TablesKnown`: every table has, section behind section, what the file has for it,
  and the relation map the relation of each record, or 0 for one that has none.
  `LoadInv` gives it at the last step of `load()`, and no call changes it: the 0 that
  `operator[]` inserts is the one it would have answered with;
* `RecordFound`: behind `Lookup`, `lookup` is the row asked for, or the copied
  row with `replacement` the id of the copy; the copy of an unreadable section, whose
  entries are zeros, stands for a record that no key reaches either, under id 0;
* `BufferKnown`: behind `ReadRecord`, the buffer is the row, or, where the section
  cannot be read, zeros, because it is cleared before each read; only a standard
  table with an id list may have anything there, and tells by the id.

With these a step of the code is a step of the table or none: `FinishLoad` is
`Load`, `Ask` is `Ask`, what returns or throws is `Answer`, the rest stutter. The
lemmas go by what a row may be: unreadable, refused for common data or relation
ids, or read; then field by field, with the id, the common value (the last of its
id), the string and the relation. `LeastElement` gives the section of an index:
`starts` climbs, so it has exactly one step over it (`StepOf`, `OneStep`).

`DecodedAlways` goes from bits to numbers. `DataInv` says that the data has, at the
offset of each field decoded so far, the values `FieldValue` reads in the bits of the
record; the offsets are sums of the sizes, so no field touches what another wrote.
`FieldValue` is then shown to be what the bits stand for (`Stands`), by the
way the field is stored. A number is the sum of its bits' weights; `NumberHasBits`
gives each bit back, by the quotient of the sum by a power of two, which is the sum of
the higher ones (`QuotientIs`, `BitAbove`). The bits of the shifted word are those of the place
(`BitpackedBitsOfPlace`), the sign is `SignExtended`, and an index has its entry in the
pallet. Powers of two double (`TwoTo`) since the provers know nothing of `^`.

`OpensTableAlways` follows a program from an installation to its table. `WayInv` says
for each stage what the ones before have made sure of: at `archives` there is a
client with a schema, at `mpq` the order is a sort of all archives there are, so that
the first that has the file exists as soon as any has it (`OrderFacts`); behind a
source, whose file it reads and by which way the program has come (`HeaderRight`);
before the signature and before the header, that the source stands at the start as long as
no library has failed; and that the signature is then the file's. A header that was
read elsewhere says "other" and is refused, so the first half needs no assumption about
failures. `EndsInv` is the reverse: at each end there is a cause. Without a failure a read gives
nothing only behind the end of the file (`ReadEnds`), so every exit before the rows
is of a table that is not readable; and an accessor reads outside its data
only in a record without data, that of an encrypted row, or in one made by hand that
ends early (`OutsideIsAmiss`), since `DataInv` gives a decoded record all its elements.

`RowsDecodedRight` and `RowsRefusedRight` compare a walk with a layout that has no walk.
`RowInv` says that the parts in the record are the first ones of the row, as many as
the fields and elements passed have (`PartsRead`), each the one `FlatRows` has at its
number, and that nothing in them is a reason to refuse the row. A number in a row then
belongs to one field, one element and one part of it (`PartHere`, from sums that grow
and a quotient that is exact), and the walk's offset is that element's place
(`WalkInv`); `RecordPlaces` shows that below `NoWrap` the products of the code are
those of the layout. If the walk stops, the part it stops at is in the layout too, so
the row is not readable (`RefusedPart`).

`ReadsWhatIsMeant` compares a reader that goes line by line with a text taken as a
whole. `TextInv` says that the block being read began at some line `first`, that each
list is the join of what the lines from `first` to `at` add, and that the blocks pushed
are those that end before it. A line more is one part more in a join (`JoinedFacts`,
from `FlattenFacts`, by a least element in place of induction); a blank line or the end makes the
lines since `first` one of `Blocks`, pushed if it is versioned and thrown at if it says
something else. A text is thrown at where the first of its faults is seen, and at the
end there is no place left for one. `FirstBlockThatLists` adds that the columns in the
map are the ones of the text (`ColumnsRead`), each name once, so that the lookup and
the text agree on a type.

Each invariant is stronger than the property because the property speaks of one
place only (a loaded table, a returned string) and says nothing of the way there.

The assumptions are those of the modules: files agree with their headers
(`IsFile`: record counts add up, each table has as many entries as its section's
header says, a relation block is as long as its entries, and a record has one
relation), where a theorem says so a table is loaded once (`MaxLoads = 1`; the run
`reload` shows what a second `load()` does) and the files that are accepted are tables
(`FilesAreTables`), a file is shorter than `size_t` can count (`SizeAssumption`), texts
and tables are of their types (`IsDirectory` for what detection reads), an unknown
place is no number (`SourceAssumption`). `WorldsAssumption` says what a record is:
schemas, records and requests are lists; a file has a signature, a size or none and
a number of rows, and a storage opens, opens nothing, is absent or fails; a record made by hand holds values of its
fields' types one behind another, and may end early (`AsMade`); the fields of a file
lie in whole bytes or within eight, no wider than their types, with an entry of the pallet for
each index (`IsStored`). The last is what a DB2 file promises and nothing in the
library checks: a shift of 64 bits or an index behind the pallet is undefined
behaviour there. They are
evaluated by TLC on the runs' constants.

The sums in the proofs of `FlatProofs` go over a schema of any length. The provers cannot
use the library's induction, whose statements take an operator; `LeastElement`
takes its place. `SumsExist` has the function of the partial sums of any list, and
`SumsGrow` that they grow, each from the least place where it would fail.

`ScanKeepsPromise` puts the two together: the loop takes only steps that `FlatFile`
allows any caller (`ScanTakesSteps`), so what is proved of `operator[]` holds in it
(`Answered`). A row is then given where `RowScan` gives it, by `RowsDecodedRight`, and
one that throws is not readable, by `RowsRefusedRight`, so that the loop may end at it
or go on behind it. `NoWrap` is about the table, which no step changes.

Only model-checked is all liveness: `CallsReturn`, `Returns`, `ScanEnds`. The
prover has no rules for fairness here. The runs that expect a violation are
counterexamples and stay with TLC as well.

## 5. What is not modelled

* In the rows of `DB2Rows` a field is one value, whose bits are left out; `Client`
  decodes a first record's fields with all their elements from its bits. The two are
  not composed, since a table's bits and its sections do not meet in any code.
* Fractions, rounding and the bits of floats: a float is a whole number.
* Opening another file over a loaded DB2File (`DB2File.hpp:631`), which leaves its
  loader with the old source.
* `CString` and `FlatFile` run over a native source. `MemoryFileSource` stops a
  debug build at the position at the end of the file (`Filesystem.hpp:67`), where an
  empty string may start; whether a table has one there is up to its file. `Sources`
  has the stop.
* The order of archives that the comparison leaves open.
* How a line of a definition text or of `.build.info` is cut into tokens, how
  locales are found in a text, and the calls of Windows for the version of a file.
* Detectors with strategies of their own (`Detector::add`).
* The comparison of two schemas, and `FixedRecord::insertValue`, whose offsets
  `FlatFile` has.
* What demo and schema_gen print, the names of the generated members, their command
  lines, and what they do without a file, a version or a schema.
* `split_string`, `trim`, `ScopeGuard` and `DynArray`: values without a history.
* Tables of constants: the locales of `DBCLocaleConvert` and `CASCLocaleConvert`.
* Two threads reading one table: nothing in the repository promises it.

## 6. Plan

Done so far, in this order: DB2File, DB2Rows against DB2Table, CString, DBDefs,
FlatFile, Scan; FieldBits, Conversions and Accessor, Sources against FileSource,
BuildInfo, Archives and Client over all of them, SchemaGen; the walk over a flat
record, the sources' contract and `get<>` proved; then the types and the promise of
`operator[]` of DB2Rows, every property of `Client` and every property of `FlatFile`
proved, and with them that a loop keeps the promise of `RowScan`; then what `DBDefs`
reads and what `SchemaGen` writes, so that every safety property of a passing run has a
theorem; then reads of CASC that come short. Next:

1. `DB2File` opened again over a loaded table, and what a failed `open()` leaves.
2. A memory source under `CString`, with the position at the end.
