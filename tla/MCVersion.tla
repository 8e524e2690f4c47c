------------------------------ MODULE MCVersion ------------------------------
(***************************************************************************)
(* Installations of the five versions that the test of getDBCVersion names *)
(* (DatabaseDBCTest.cpp:184-216), each with an archive.                    *)
(***************************************************************************)
EXTENDS ClientWorlds

Tested ==
    {<<1, 12, 1, 5875>>, <<2, 0, 0, 5991>>, <<2, 4, 3, 8606>>, <<3, 3, 5, 12340>>, <<4, 3, 4, 15595>>}

MCTested == {{[Base EXCEPT !.directory = Installed(parts)] : parts \in Tested}}

(* The demo reads the tables of a client in the format that the test names *)
(* for its version, which is the one getDBCVersion has (main.cpp:181-188,  *)
(* DBCFile.hpp:28-42).                                                     *)
FormatOfVersion ==
    version # "none" => version = GetDBCVersion(clients[1].version)
=============================================================================
