----------------------------- MODULE BuildInfo -----------------------------
(***************************************************************************)
(* Detector::all().detect() (Detection.cpp): the clients installed in a    *)
(* directory, from the rows of its .build.info, or from the version of its *)
(* executable.                                                             *)
(*                                                                         *)
(* A line is its columns; a column is a text, the parts of it between dots *)
(* and the locales in it.  A part is the number its leading digits are, or *)
(* NoDigits.  There is no .build.info if the stream cannot open it; it     *)
(* asks for reading and writing.                                           *)
(***************************************************************************)
EXTENDS Integers, Sequences, SequencesExt

CONSTANT ShortSpan, LongSpan   \* uint16_t and uint32_t count to one less

ASSUME SpanAssumption == ShortSpan \in Nat \ {0} /\ LongSpan \in Nat \ {0}

VARIABLES
    directory,   \* [hasInfo, info, exes, hasData, locales, windows]
    line,        \* lines of .build.info read
    header, rows,
    clients,     \* result_t
    detecting    \* "info", "hints", "done" or "thrown"

infoVars == <<directory, line, header, rows, clients, detecting>>

NoDigits == -1

Cells == [text : STRING, version : Seq(Int), locales : Seq(STRING)]

IsDirectory(d) ==
    /\ {d.hasInfo, d.hasData, d.windows} \subseteq BOOLEAN
    /\ d.info \in Seq(Seq(Cells)) /\ d.exes \in Seq(Seq(Int)) /\ d.locales \in Seq(STRING)

\* Of the first n elements of s those at the places `at', in their order.
Picked(s, at, n) ==
    LET picked[k \in 0..n] ==
            IF k = 0 THEN << >>
            ELSE IF k \in at THEN Append(picked[k - 1], s[k]) ELSE picked[k - 1]
    IN  picked[n]

DetectInit ==
    /\ line = 0 /\ header = << >> /\ rows = << >> /\ clients = << >>
    /\ detecting = "info"
-----------------------------------------------------------------------------
\* from_chars leaves what it cannot read or hold, and each part starts as 0.
Part(digits, span) == IF digits \in 0..span - 1 THEN digits ELSE 0

\* GameVersion(string): three dots at least, and what follows the third is the
\* build, up to its next dot.
Version(parts) ==
    [expansion |-> Part(parts[1], ShortSpan), major |-> Part(parts[2], ShortSpan),
     minor |-> Part(parts[3], ShortSpan), build |-> Part(parts[4], LongSpan)]

HasVersion(parts) == Len(parts) >= 4

Client(name, parts, locales) ==
    [name |-> name, version |-> Version(parts), locales |-> locales]
-----------------------------------------------------------------------------
SameColumns(row) == Len(row) = Len(header)

\* InfoFileReader::read, a line of it; split_string gives nothing for an
\* empty line.  The exception of a row of another length is caught by
\* buildFile, which then has no result.
ReadInfoLine ==
    /\ detecting = "info" /\ directory.hasInfo /\ line < Len(directory.info)
    /\ line' = line + 1
    /\ LET row == directory.info[line + 1]
       IN  \/ /\ row = << >>
              /\ UNCHANGED <<header, rows, detecting>>
           \/ /\ row # << >> /\ header = << >>
              /\ header' = row
              /\ UNCHANGED <<rows, detecting>>
           \/ /\ row # << >> /\ header # << >>
              /\ IF SameColumns(row)
                 THEN rows' = Append(rows, row) /\ UNCHANGED detecting
                 ELSE detecting' = "hints" /\ UNCHANGED rows
              /\ UNCHANGED header
    /\ UNCHANGED <<directory, clients>>

\* find_index: the first column of the name.
Has(column) == \E k \in 1..Len(header) : header[k].text = column

\* Mutant: the columns have an order.
UsualColumn(name) ==
    CASE name = "Product" -> 1 [] name = "Version" -> 2 [] name = "Tags" -> 3

Column(name) == CHOOSE k \in 1..Len(header) :
    header[k].text = name /\ \A j \in 1..k - 1 : header[j].text # name

WithVersion == {k \in 1..Len(rows) : HasVersion(rows[k][Column("Version")].version)}

RowClient(row) ==
    Client(row[Column("Product")].text, row[Column("Version")].version, row[Column("Tags")].locales)

\* buildFile, behind the last line, and then the next strategy if there is
\* no client.
BuildFileEnds ==
    /\ detecting = "info" /\ (~directory.hasInfo \/ line = Len(directory.info))
    /\ LET named == {"Version", "Product", "Tags"}
           found == IF \A column \in named : Has(column)
                    THEN Picked(rows, WithVersion, Len(rows))
                    ELSE << >>
       IN  /\ clients' = [k \in 1..Len(found) |-> RowClient(found[k])]
           /\ detecting' = IF found = << >> THEN "hints" ELSE "done"
    /\ UNCHANGED <<directory, line, header, rows>>

\* Wow.exe, then Wow-64.exe: those that exist, by the parts of their version.
Versioned(exes) == {k \in DOMAIN exes : HasVersion(exes[k])}

\* filesystemHints: one client without a name, from the first executable with
\* a version; the first of the directories in Data named like a locale.  It
\* finds nothing but on Windows.  A Data directory that is not there throws,
\* and detect() does not catch it.
FilesystemHints ==
    /\ detecting = "hints"
    /\ LET exes == Versioned(directory.exes)
       IN  IF ~directory.windows \/ exes = {}
           THEN detecting' = "done" /\ UNCHANGED clients
           ELSE IF ~directory.hasData
           THEN detecting' = "thrown" /\ UNCHANGED clients
           ELSE /\ detecting' = "done"
                /\ clients' = <<Client("",
                        directory.exes[CHOOSE k \in exes : \A j \in exes : k <= j],
                        IF directory.locales = << >> THEN << >>
                        ELSE <<Head(directory.locales)>>)>>
    /\ UNCHANGED <<directory, line, header, rows>>

DetectStep == ReadInfoLine \/ BuildFileEnds \/ FilesystemHints
=============================================================================
