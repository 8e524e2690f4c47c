------------------------------- MODULE MCScan -------------------------------
(***************************************************************************)
(* Loops over the flat tables that open() accepts.                         *)
(***************************************************************************)
EXTENDS Scan, FlatTables

MCTables ==
    {t \in Good :
        /\ t.header.recordCount * t.header.recordSize < Wrap
        /\ ~(t.version = "VANILLA" /\ t.locale = 8)}
=============================================================================
