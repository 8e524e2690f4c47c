------------------------------ MODULE MCTables ------------------------------
(* Whole tables whose files hold what the format says: those the proofs of *)
(* what operator[] returns are about.                                      *)
EXTENDS MCRows

ASSUME TablesAssumption == FilesAreTables
=============================================================================
