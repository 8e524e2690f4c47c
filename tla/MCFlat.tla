------------------------------- MODULE MCFlat -------------------------------
(* open() and operator[] over the flat tables, in any order of calls.      *)
EXTENDS FlatFile, FlatTables

MCTables == Good \union Misfits
=============================================================================
