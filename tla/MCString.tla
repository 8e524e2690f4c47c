------------------------------ MODULE MCString ------------------------------
(* readCurrentString over all short files of two letters and NULs.         *)
EXTENDS CString

CONSTANT MaxLength   \* bound: bytes of a file

MCContents == UNION {[1..n -> {0, 1, 2}] : n \in 0..MaxLength} \union {<< >>}
=============================================================================
