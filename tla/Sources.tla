------------------------------ MODULE Sources ------------------------------
(***************************************************************************)
(* The four file sources: MemoryFileSource (Filesystem.hpp),               *)
(* NativeFileSource (NativeFilesystem.hpp), MPQFileSource and              *)
(* CASCFileSource (MPQFilesystem.cpp, CASCFilesystem.cpp).                 *)
(*                                                                         *)
(* Behind a source is a stream or a library handle with a position of its  *)
(* own; the source keeps another one.  stormlib and casclib may fail at    *)
(* any call; casclib may give nothing for bytes it cannot decrypt, and     *)
(* what its file has left for a read past the end.                         *)
(***************************************************************************)
EXTENDS Integers

CONSTANTS
    SourceKinds,   \* the sources a run opens
    FileSizes,     \* and the sizes of their files, -1 of one that is not there
    MaxFailures,   \* bound: calls of a library that fail or give less inside the file
    Anywhere       \* a place that is not known

ASSUME SourceAssumption ==
    /\ SourceKinds \subseteq {"memory", "native", "mpq", "casc"}
    /\ FileSizes \subseteq Nat \union {-1} /\ MaxFailures \in Nat
    /\ Anywhere \notin Nat

VARIABLES
    source,     \* its kind, or "none"
    fileSize,
    pos,        \* what getPos() tells, -1 of a stream that has failed
    handle,     \* where the stream or the library reads next
    got,        \* what the last read put into the caller's bytes, from where, of how many
    status,     \* how the last call ended
    lost,       \* a history: since the last setPos() a call threw or gave less than asked
    failures

sourceVars == <<source, fileSize, pos, handle, got, status, lost, failures>>

NotGot == [from |-> -1, bytes |-> 0, asked |-> 0]

Failed == -1        \* tellg() of a stream with its fail bit set

NoSource ==
    /\ source = "none" /\ fileSize = 0 /\ pos = 0 /\ handle = 0
    /\ got = NotGot /\ status = "ok" /\ lost = TRUE /\ failures = 0

\* Only NativeFilesystem::open() gives a source for a file that is not there.
Missing == fileSize = -1

\* A memory source has read its whole file; all start at the beginning.
OpenSource(kind, size) ==
    /\ size = -1 => kind = "native"
    /\ source' = kind /\ fileSize' = size
    /\ pos' = (IF size = -1 THEN Failed ELSE 0) /\ handle' = 0
    /\ got' = NotGot /\ status' = "ok" /\ lost' = (size = -1)
    /\ UNCHANGED failures

LibraryFails == failures < MaxFailures /\ failures' = failures + 1

\* clear() and seekg() take an open stream to any position.
Sought(p) == IF Missing THEN Failed ELSE p

MaxLong == 2147483647   \* bound: stormlib is given the position as a LONG

\* The assertion of MemoryFileSource::setPos stops the program: the position
\* at the end is no position for it.
SetPos(p) ==
    /\ got' = NotGot
    /\ source = "mpq" => p <= MaxLong
    /\ \/ /\ source = "memory"
          /\ pos' = p /\ handle' = p
          /\ status' = IF p < fileSize THEN "ok" ELSE "stopped"
          /\ UNCHANGED failures
       \/ /\ source = "native"
          /\ pos' = Sought(p) /\ handle' = p
          /\ status' = "ok"
          /\ UNCHANGED failures
       \/ /\ source \in {"mpq", "casc"}
          /\ pos' = p /\ handle' = p
          /\ status' = "ok"
          /\ UNCHANGED failures
       \/ /\ source \in {"mpq", "casc"} /\ LibraryFails
          /\ UNCHANGED pos /\ handle' \in {handle, p}
          /\ status' = "thrown"
    /\ lost' = (status' # "ok" \/ pos' = Failed)
    /\ UNCHANGED <<source, fileSize>>

Within(n) == handle + n <= fileSize

\* Mutant: what a stream has left is given without a word.
ShortGiven(n) == TRUE

\* A stream that has not all the bytes sets its fail bit.
AllGiven(n) == pos # Failed /\ Within(n)

Gives(n) ==
    /\ got' = [from |-> handle, bytes |-> n, asked |-> n]
    /\ handle' = handle + n
    /\ status' = "ok"

GivesNothing(ends) == got' = NotGot /\ status' = ends

\* MemoryFileSource: what is left is counted from the position, behind the
\* end beyond every count; setPos has stopped before.
ReadMemory(n) ==
    /\ source = "memory"
    /\ IF Within(n)
       THEN Gives(n) /\ pos' = pos + n
       ELSE GivesNothing("thrown") /\ UNCHANGED <<pos, handle>>
    /\ UNCHANGED failures

\* NativeFileSource: a failed stream reads nothing until setPos().
ReadNative(n) ==
    /\ source = "native"
    /\ IF AllGiven(n)
       THEN Gives(n) /\ pos' = handle'
       ELSE GivesNothing("thrown") /\ pos' = Failed /\ handle' \in {handle, fileSize} \ {-1}
    /\ UNCHANGED failures

\* MPQFileSource: the position moves by what was read, also when it throws.
ReadMPQ(n) ==
    /\ source = "mpq"
    /\ \/ Within(n) /\ Gives(n) /\ pos' = pos + n /\ UNCHANGED failures
       \/ /\ ~Within(n)
          /\ GivesNothing("thrown")
          /\ \E res \in 0..n : pos' = pos + res /\ handle' = handle + res
          /\ UNCHANGED failures
       \/ /\ LibraryFails
          /\ GivesNothing("thrown")
          /\ \E res \in 0..n : pos' = pos + res /\ handle' = handle + res

\* Bytes of the file behind the handle.
Left == IF handle < fileSize THEN fileSize - handle ELSE 0

\* What a read of n bytes can put there if the library gives fewer: the first
\* ones, or none.
FirstOf(res, n) == IF res = 0 THEN NotGot ELSE [from |-> handle, bytes |-> res, asked |-> n]

\* CASCFileSource asks only whether the call has failed, and counts all bytes
\* it asked for.  The library gives them, or fewer: what the file has left, or
\* none of bytes that are encrypted, where it may have moved over them.
ReadCASC(n) ==
    /\ source = "casc"
    /\ \/ /\ Within(n) /\ Gives(n)
          /\ pos' = pos + n
          /\ UNCHANGED failures
       \/ \E res \in 0..n - 1 :
             /\ res <= Left
             /\ IF Left < n /\ res = Left THEN UNCHANGED failures ELSE LibraryFails
             /\ got' = FirstOf(res, n) /\ status' = "ok"
             /\ pos' = pos + n
             /\ handle' \in IF res = 0 THEN {handle, handle + n} ELSE {handle + res}
       \/ /\ ~Within(n) \/ failures < MaxFailures
          /\ IF Within(n) THEN LibraryFails ELSE UNCHANGED failures
          /\ GivesNothing("thrown")
          /\ UNCHANGED pos /\ handle' \in handle..handle + n

Read(n) ==
    /\ ReadMemory(n) \/ ReadNative(n) \/ ReadMPQ(n) \/ ReadCASC(n)
    /\ lost' = (lost \/ got'.bytes < n)
    /\ UNCHANGED <<source, fileSize>>
-----------------------------------------------------------------------------
\* One source, whatever calls are made of it.
SourceNext ==
    \/ /\ source = "none"
       /\ \E kind \in SourceKinds, size \in FileSizes : OpenSource(kind, size)
    \/ source # "none" /\ \E p \in Nat : SetPos(p)
    \/ source # "none" /\ \E n \in Nat \ {0} : Read(n)

SourceSpec == NoSource /\ [][SourceNext]_sourceVars

Contract == INSTANCE FileSource WITH
    kind   <- source,
    length <- fileSize,
    place  <- IF lost THEN Anywhere ELSE pos,
    gave   <- IF got = NotGot THEN [from |-> Anywhere, bytes |-> 0, asked |-> 0] ELSE got,
    ended  <- status

(* Each of the four sources is a FileSource: a reader that moves to a      *)
(* position, or goes on behind a read that gave all it was asked for, is   *)
(* given the bytes of that place and of no other, also after calls that    *)
(* threw or gave nothing; three of them give all bytes or throw            *)
(* (Filesystem.hpp:38-78, NativeFilesystem.hpp:17-49,                      *)
(* MPQFilesystem.cpp:6-30, CASCFilesystem.cpp:7-32).                       *)
ImplementsFileSource == Contract!Spec
=============================================================================
