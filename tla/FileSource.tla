----------------------------- MODULE FileSource -----------------------------
(***************************************************************************)
(* What the readers rely on in a FileSource (Filesystem.hpp:30-36): after  *)
(* setPos(p), and after each read that gave all it was asked for, the next *)
(* read that returns has bytes from that position, inside the file, and as *)
(* many as were asked for.  After a call that threw, or a read that gave   *)
(* less, only setPos() makes the place known again.                        *)
(*                                                                         *)
(* One kind of source does not keep all of this: a read of a CASC source   *)
(* may give fewer bytes than asked for, or none, and return.               *)
(***************************************************************************)
EXTENDS Integers

CONSTANT Anywhere   \* a place that is not known

VARIABLES
    kind,      \* of the source, "none" before it is open
    length,    \* of its file
    place,     \* where the next read starts
    gave,      \* the place of the bytes the last read gave, how many, and of how many
    ended      \* how the last call ended: "ok" if it returned

Nothing == [from |-> Anywhere, bytes |-> 0, asked |-> 0]

Init == kind = "none" /\ length = 0 /\ place = Anywhere /\ gave = Nothing /\ ended = "ok"

Open == kind = "none" /\ kind' # "none" /\ gave' = Nothing /\ place' \in {0, Anywhere}

\* The place of a file that is not there is never known.
SetPos ==
    /\ kind # "none"
    /\ gave' = Nothing /\ (place' \in Nat \/ length = -1)
    /\ UNCHANGED <<kind, length>>

Inside == gave'.from + gave'.bytes <= length

\* The bytes asked for.
Read ==
    /\ place # Anywhere
    /\ gave'.from = place /\ gave'.bytes = gave'.asked /\ Inside
    /\ place' = place + gave'.bytes
    /\ UNCHANGED <<kind, length>>

\* The first of them, without a word that there are no more.
ReadLess ==
    /\ kind = "casc"
    /\ place # Anywhere /\ place' = Anywhere
    /\ gave'.from = place /\ gave'.bytes < gave'.asked /\ Inside
    /\ UNCHANGED <<kind, length>>

\* Nothing is promised of which bytes a read from an unknown place gives, and
\* nothing of the place behind it.
ReadAnywhere ==
    /\ place = Anywhere /\ place' = Anywhere /\ gave' # Nothing
    /\ gave'.bytes = gave'.asked \/ kind = "casc"
    /\ Inside
    /\ UNCHANGED <<kind, length>>

\* A call that threw, or a read of bytes that are encrypted.
Lost ==
    /\ ended' # "ok" \/ kind = "casc"
    /\ place' = Anywhere /\ gave' = Nothing
    /\ UNCHANGED <<kind, length>>

Next == Open \/ SetPos \/ Lost \/ Read \/ ReadLess \/ ReadAnywhere

Spec == Init /\ [][Next]_<<kind, length, place, gave, ended>>
=============================================================================
