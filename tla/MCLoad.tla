------------------------------- MODULE MCLoad -------------------------------
(* open() and load() alone, over the files of MCFiles.                     *)
EXTENDS DB2File, MCFiles
=============================================================================
