------------------------------- MODULE MCRows -------------------------------
(* A whole table, opened, loaded and read, over the files of MCFiles.      *)
EXTENDS DB2Rows, MCFiles
=============================================================================
