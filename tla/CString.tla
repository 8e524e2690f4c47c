------------------------------ MODULE CString ------------------------------
(***************************************************************************)
(* readCurrentString (Formats.hpp): reads the string at the position of a  *)
(* file source, a chunk at a time, up to a NUL or the end of the file.     *)
(*                                                                         *)
(* The source is NativeFileSource: a position that may lie behind the end, *)
(* and a read that throws when fewer bytes are left than it was asked for. *)
(* The bytes left are a size_t: behind the end the difference wraps.       *)
(***************************************************************************)
EXTENDS Integers, Sequences

CONSTANTS
    Contents,   \* the files a run reads, sequences of bytes
    MaxStart,   \* bound: the position the source is set to
    Chunk,      \* size of the intermediate buffer
    Modulus     \* size_t counts modulo this

Byte == 0..255

ASSUME ContentsAssumption == Contents \subseteq Seq(Byte)

ASSUME SizeAssumption ==
    /\ MaxStart \in Nat /\ Chunk \in Nat \ {0} /\ Modulus \in Nat
    /\ \A content \in Contents : Len(content) < Modulus
    /\ MaxStart + Chunk <= Modulus

VARIABLES
    bytes,        \* the file
    start,        \* where the string starts
    pos,          \* position of the source
    buffer,       \* what has been appended so far, the result once pc is "done"
    endOfString, endOfFile,
    pc

vars == <<bytes, start, pos, buffer, endOfString, endOfFile, pc>>

Nul == 0

Init ==
    /\ bytes \in Contents
    /\ start \in 0..MaxStart
    /\ pos = start
    /\ buffer = << >>
    /\ endOfString = FALSE /\ endOfFile = FALSE
    /\ pc = "loop"

\* size() - getPos(), as a size_t.
Left == IF pos <= Len(bytes) THEN Len(bytes) - pos ELSE Len(bytes) - pos + Modulus

\* Mutant: a whole chunk whatever is left.
WholeChunk == Chunk

ToRead == IF Left < Chunk THEN Left ELSE Chunk

\* Mutant: end_of_file is never set.
NeverShort == FALSE

\* Fewer bytes than a chunk are left.
Short == Left < Chunk

\* FileSource::read throws when the file has not that many bytes.
CanRead == pos + ToRead <= Len(bytes)

\* Offsets of the NULs in the chunk at pos.
Nuls == {k \in 1..ToRead : bytes[pos + k] = Nul}

\* Mutant: the NUL is looked for before it is counted.
TakenWithoutNul ==
    IF Nuls = {} THEN ToRead
    ELSE (CHOOSE k \in Nuls : \A j \in Nuls : k <= j) - 1

\* How many bytes of the chunk the string takes, its NUL with it.
Taken ==
    IF Nuls = {} THEN ToRead
    ELSE CHOOSE k \in Nuls : \A j \in Nuls : k <= j

ReadChunk ==
    /\ pc = "loop" /\ ~endOfString /\ ~endOfFile
    /\ IF CanRead
       THEN /\ buffer' = buffer \o [k \in 1..Taken |-> bytes[pos + k]]
            /\ endOfString' = (Nuls # {})
            /\ endOfFile' = Short
            /\ pos' = pos + ToRead
            /\ UNCHANGED pc
       ELSE /\ pc' = "thrown"
            /\ UNCHANGED <<buffer, endOfString, endOfFile, pos>>
    /\ UNCHANGED <<bytes, start>>

\* Behind the loop: a string the file ends in gets a NUL.
Finish ==
    /\ pc = "loop" /\ (endOfString \/ endOfFile)
    /\ buffer' = IF endOfString THEN buffer ELSE Append(buffer, Nul)
    /\ pc' = "done"
    /\ UNCHANGED <<bytes, start, pos, endOfString, endOfFile>>

Next == ReadChunk \/ Finish

\* The function runs to its end.
Spec == Init /\ [][Next]_vars /\ WF_vars(Next)
----------------------------------------------------------------------------
\* Places of the NULs at or behind the start.
NulsFrom(content, from) == {k \in from + 1..Len(content) : content[k] = Nul}

\* The string at `from' ends with the byte `end'.
EndsAt(content, from, end) ==
    /\ end \in NulsFrom(content, from)
    /\ \A k \in NulsFrom(content, from) : end <= k

(* The string returned is the one in the file: the bytes from the start to *)
(* the first NUL, or all there are and a NUL.  A NUL in the last byte of a *)
(* chunk, a file that ends with a chunk (Formats.hpp:55-60) and a start at *)
(* the end of the file are the cases that matter.                          *)
StringRead ==
    pc = "done" =>
        \/ \E end \in NulsFrom(bytes, start) :
            /\ EndsAt(bytes, start, end)
            /\ buffer = SubSeq(bytes, start + 1, end)
        \/ /\ NulsFrom(bytes, start) = {}
           /\ buffer = Append(SubSeq(bytes, start + 1, Len(bytes)), Nul)

(* A start behind the end of the file is an error, whatever the wrapped    *)
(* count of bytes left says (Formats.hpp:55); no other start is one.       *)
ThrowsBehindEnd ==
    /\ pc = "done" => start <= Len(bytes)
    /\ pc = "thrown" => start > Len(bytes)

(* The loop ends, with a string or an exception.                           *)
Returns == <>(pc \in {"done", "thrown"})
============================================================================
