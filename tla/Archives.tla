------------------------------ MODULE Archives ------------------------------
(***************************************************************************)
(* discoverMPQArchives and MPQFilesystem (MPQFilesystem.cpp): the archives *)
(* below a directory, the order in which they are asked for a file, and    *)
(* the first that has it.                                                  *)
(*                                                                         *)
(* A file is [dir, stem, ext]; dir is the text of its directory, empty at  *)
(* the root.  Texts are sequences of words and words are numbers in the    *)
(* order of their letters; no word begins another.                         *)
(***************************************************************************)
EXTENDS Integers, Sequences, SequencesExt, FiniteSetsExt

CONSTANTS Expansion, Patch, WowUpdate   \* words the code asks for

ASSUME WordAssumption == {Expansion, Patch, WowUpdate} \subseteq Nat

StartsWith(text, prefix) == IsPrefix(prefix, text)

\* operator> of two texts.
Greater(a, b) ==
    \/ StartsWith(a, b) /\ a # b
    \/ \E k \in 1..Len(a) :
          k <= Len(b) /\ a[k] > b[k] /\ \A j \in 1..k - 1 : a[j] = b[j]

IsArchive(file) == file.ext = "mpq" /\ ~StartsWith(file.stem, <<WowUpdate>>)

Discovered(files) == {file \in files : IsArchive(file)}

\* `left_name > right' compares the stem with a whole path, by its parts: at
\* the root with the other stem, elsewhere with the other's directory.
StemGreater(left, right) ==
    Greater(left.stem, IF right.dir = << >> THEN right.stem ELSE right.dir)

\* Mutant: of two patches the shorter name comes first.
ShorterFirst(left, right) == StartsWith(right.stem, left.stem)

LongerFirst(left, right) == StartsWith(left.stem, right.stem)

\* The comparison that the archives are sorted by; no file is compared with
\* itself.
Before(left, right) ==
    LET expansions == {f \in {left, right} : StartsWith(f.stem, <<Expansion>>)}
        patches    == {f \in {left, right} : StartsWith(f.stem, <<Patch>>)}
    IN  CASE left.dir # right.dir        -> Greater(left.dir, right.dir)
          [] left.dir = right.dir /\ Cardinality(expansions) = 1 -> left \in expansions
          [] left.dir = right.dir /\ Cardinality(expansions) # 1
                /\ Cardinality(patches) = 1 -> left \in patches
          [] OTHER -> \/ LongerFirst(left, right)
                      \/ ~LongerFirst(left, right) /\ ~LongerFirst(right, left)
                         /\ StemGreater(left, right)

\* What a sort asks of its comparison.
WeakOrder(files) ==
    /\ \A a, b \in files : a # b => ~(Before(a, b) /\ Before(b, a))
    /\ \A a, b, c \in files : a # b /\ b # c /\ a # c =>
          /\ Before(a, b) /\ Before(b, c) => Before(a, c)
          /\ Before(a, b) => Before(a, c) \/ Before(c, b)

Orders(files) ==
    {order \in [1..Cardinality(files) -> files] :
        \A i, j \in DOMAIN order : i < j =>
            /\ order[i] # order[j]
            /\ WeakOrder(files) => ~Before(order[j], order[i])}

\* MPQFilesystem::open: the first archive of the order that has the file.
FirstWith(order, holds) ==
    LET having == {k \in DOMAIN order : order[k] \in holds}
    IN  IF having = {} THEN {} ELSE {order[Min(having)]}
-----------------------------------------------------------------------------
\* The order meant: directories below the root before it; then expansions,
\* patches and the others; then later names, longer ones first.
Class(file) ==
    IF StartsWith(file.stem, <<Expansion>>) THEN 1
    ELSE IF StartsWith(file.stem, <<Patch>>) THEN 2 ELSE 3

Overrides(a, b) ==
    IF a.dir # b.dir THEN Greater(a.dir, b.dir)
    ELSE IF Class(a) # Class(b) THEN Class(a) < Class(b)
    ELSE Greater(a.stem, b.stem)
=============================================================================
